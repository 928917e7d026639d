--------------------------- MODULE OrderBookProofs ---------------------------
(***************************************************************************)
(* Proofs about OrderBook, for every set of levels, either market, every   *)
(* buffer limit and every value of the bounds; and about SequencedList,    *)
(* which holds its asks and bids, for lists of any length and all prices.  *)
(***************************************************************************)
EXTENDS OrderBookUpdated, SequencedList, SequenceTheorems, WellFoundedInduction, TLAPS

\* The exchange's history: update n writes n, and a level that has not been
\* written since update k is as it was after k.
VenueOK ==
    /\ venue \in Seq(Ladder)
    /\ Len(venue) \in 1..MaxId
    /\ \A n \in 1..Len(venue) : \A l \in Levels : venue[n][l] \in 1..n
    /\ \A n \in 1..Len(venue) : \A k \in 1..n : \A l \in Levels :
         venue[n][l] <= k => venue[k][l] = venue[n][l]
    /\ lastSent \in 1..Len(venue)

\* A diff that says what the exchange did in the updates it covers.
Genuine(d) ==
    /\ d.u \in 1..Len(venue)
    /\ d.pu \in 1..d.u
    /\ d = DiffUpTo(d.u, d.pu)

GenuineDiffs == {d \in Diff : Genuine(d)}

\* Whatever is on its way, racing or buffered is genuine.
DiffsOK ==
    /\ wire \in Seq(GenuineDiffs)
    /\ racing \subseteq GenuineDiffs
    /\ queue \in Seq(GenuineDiffs)

\* _fetching has a task, and a caller that is gone has been cancelled.
TaskOK ==
    /\ fetching \in BOOLEAN
    /\ FetchingHasTask
    /\ budget.cancel \in 0..MaxDeserted
    /\ caller = "gone" => budget.cancel < MaxDeserted

FetchOK ==
    /\ snapId \in 0..Len(venue)
    /\ task = "served" => snapId # 0
    /\ replayed \in Nat
    /\ task = "replay" => lastId # 0 /\ replayed < Len(queue)
    /\ task # "replay" => replayed = 0
    /\ \A i \in 1..replayed : queue[i].u <= lastId

BookOK ==
    /\ ladder \in Ladder
    /\ lastId \in Nat
    /\ BookMatchesVenue

\* What is left: finite sets without relations.
RestOK ==
    /\ postFirst \in BOOLEAN
    /\ task \in TaskStates
    /\ caller \in {"book", "user", "gone"}
    /\ updater \in {"idle", "gap"}
    /\ budget \in [Bounded -> Nat]

IInv == VenueOK /\ DiffsOK /\ TaskOK /\ FetchOK /\ BookOK /\ RestOK

-----------------------------------------------------------------------------
(* The exchange's history *)

\* One more update of level l extends the history and rewrites nothing.
LEMMA VenueChange ==
    ASSUME VenueOK, NEW l \in Levels, Change(l)
    PROVE  /\ VenueOK'
           /\ Len(venue') = Len(venue) + 1
           /\ \A n \in 1..Len(venue) : venue'[n] = venue[n]
<1> DEFINE new == [venue[Len(venue)] EXCEPT ![l] = Len(venue) + 1]
<1>1. venue' = Append(venue, new) /\ Len(venue) < MaxId /\ lastSent' = lastSent
  BY DEF Change
<1>2. venue \in Seq(Ladder) /\ Len(venue) \in 1..MaxId
  BY DEF VenueOK
<1>3. venue[Len(venue)] \in Ladder
  BY <1>2, ElementOfSeq
<1>4. new \in Ladder
  BY <1>1, <1>2, <1>3, OrderBookAssumption DEF Ladder
<1> HIDE DEF new
<1>5. /\ venue' \in Seq(Ladder)
      /\ Len(venue') = Len(venue) + 1
      /\ \A n \in 1..Len(venue) : venue'[n] = venue[n]
      /\ venue'[Len(venue) + 1] = new
  BY <1>1, <1>2, <1>4, AppendProperties
<1>6. \A m \in Levels : new[m] = IF m = l THEN Len(venue) + 1 ELSE venue[Len(venue)][m]
  BY <1>3 DEF new, Ladder
<1>7. \A n \in 1..Len(venue') : \A m \in Levels : venue'[n][m] \in 1..n
  <2> SUFFICES ASSUME NEW n \in 1..Len(venue'), NEW m \in Levels
               PROVE  venue'[n][m] \in 1..n
    OBVIOUS
  <2>1. CASE n \in 1..Len(venue)
    BY <2>1, <1>5 DEF VenueOK
  <2>2. CASE n = Len(venue) + 1
    <3>1. venue[Len(venue)][m] \in 1..Len(venue)
      BY <1>2 DEF VenueOK
    <3> QED
      BY <2>2, <3>1, <1>2, <1>5, <1>6
  <2> QED
    BY <2>1, <2>2, <1>2, <1>5
<1>8. \A n \in 1..Len(venue') : \A k \in 1..n : \A m \in Levels :
        venue'[n][m] <= k => venue'[k][m] = venue'[n][m]
  <2> SUFFICES ASSUME NEW n \in 1..Len(venue'), NEW k \in 1..n, NEW m \in Levels
               PROVE  venue'[n][m] <= k => venue'[k][m] = venue'[n][m]
    OBVIOUS
  <2>1. CASE n \in 1..Len(venue)
    <3>1. k \in 1..Len(venue)
      BY <2>1, <1>2
    <3>2. venue'[n] = venue[n] /\ venue'[k] = venue[k]
      BY <2>1, <3>1, <1>5
    <3>3. venue[n][m] <= k => venue[k][m] = venue[n][m]
      BY <2>1 DEF VenueOK
    <3> QED
      BY <3>2, <3>3
  <2>2. CASE n = Len(venue) + 1 /\ k = n
    BY <2>2
  <2>3. CASE n = Len(venue) + 1 /\ k # n
    <3>1. k \in 1..Len(venue)
      BY <2>3, <1>2
    <3>2. venue'[k] = venue[k] /\ venue'[n] = new
      BY <3>1, <2>3, <1>5
    <3>3. venue[Len(venue)][m] <= k => venue[k][m] = venue[Len(venue)][m]
      BY <3>1, <1>2 DEF VenueOK
    <3> QED
      BY <3>1, <3>2, <3>3, <1>2, <1>6
  <2> QED
    BY <2>1, <2>2, <2>3, <1>2, <1>5
<1>9. Len(venue') \in 1..MaxId /\ lastSent' \in 1..Len(venue')
  BY <1>1, <1>2, <1>5, OrderBookAssumption DEF VenueOK
<1> QED
  BY <1>5, <1>7, <1>8, <1>9 DEF VenueOK

\* A diff that was genuine stays genuine: history is only extended.
LEMMA GenuineKept ==
    ASSUME VenueOK,
           Len(venue') \in Nat, Len(venue') >= Len(venue),
           \A n \in 1..Len(venue) : venue'[n] = venue[n]
    PROVE  GenuineDiffs \subseteq GenuineDiffs'
<1> SUFFICES ASSUME NEW d \in GenuineDiffs PROVE d \in Diff /\ Genuine(d)'
  BY DEF GenuineDiffs
<1>1. d \in Diff /\ Genuine(d)
  BY DEF GenuineDiffs
<1>2. Len(venue) \in Nat
  BY DEF VenueOK
<1>3. d.u \in 1..Len(venue') /\ venue'[d.u] = venue[d.u]
  BY <1>1, <1>2 DEF Genuine
<1> QED
  BY <1>1, <1>3 DEF Genuine, DiffUpTo

\* What the stream publishes is genuine.
LEMMA PublishGenuine ==
    ASSUME VenueOK, lastSent < Len(venue)
    PROVE  DiffUpTo(Len(venue), lastSent) \in GenuineDiffs
<1> DEFINE d == DiffUpTo(Len(venue), lastSent)
<1>1. Len(venue) \in 1..MaxId /\ lastSent \in 1..Len(venue) /\ lastSent \in Nat
  BY DEF VenueOK
<1>2. venue[Len(venue)] \in Ladder
  BY <1>1, ElementOfSeq DEF VenueOK
<1>3. [l \in Levels |-> IF venue[Len(venue)][l] > lastSent THEN venue[Len(venue)][l] ELSE 0]
        \in Ladder
  BY <1>2, OrderBookAssumption DEF Ladder
<1>4. d \in Diff /\ d.u = Len(venue) /\ d.pu = lastSent
  BY <1>1, <1>3 DEF Diff, DiffUpTo
<1> QED
  BY <1>1, <1>4 DEF GenuineDiffs, Genuine

-----------------------------------------------------------------------------
(* Merging *)

\* The heart of the matter: a genuine diff that starts no later than the update
\* after the book's, and ends no earlier than the book, takes the ladders from
\* what the exchange had at lastId to what it had at d.u.
LEMMA MergeLemma ==
    ASSUME VenueOK,
           lastId \in 1..Len(venue), ladder = venue[lastId],
           NEW d \in GenuineDiffs, d.U <= lastId + 1, lastId <= d.u
    PROVE  Merged(d) = venue[d.u]
<1>1. /\ d.u \in 1..Len(venue)
      /\ d.pu \in 1..d.u
      /\ d.U = d.pu + 1
      /\ \A l \in Levels : d.chg[l] = IF venue[d.u][l] > d.pu THEN venue[d.u][l] ELSE 0
  BY DEF GenuineDiffs, Genuine, DiffUpTo
<1>2. d.pu <= lastId /\ lastId \in 1..d.u
  BY <1>1 DEF VenueOK
<1>3. venue[d.u] \in Ladder
  BY <1>1, ElementOfSeq DEF VenueOK
<1>4. ASSUME NEW l \in Levels
      PROVE  (IF d.chg[l] # 0 THEN d.chg[l] ELSE ladder[l]) = venue[d.u][l]
  <2>1. venue[d.u][l] \in 1..d.u
    BY <1>1 DEF VenueOK
  <2>2. venue[d.u][l] <= lastId => venue[lastId][l] = venue[d.u][l]
    BY <1>1, <1>2 DEF VenueOK
  <2>3. CASE venue[d.u][l] > d.pu
    BY <2>1, <2>3, <1>1
  <2>4. CASE ~(venue[d.u][l] > d.pu)
    BY <2>1, <2>2, <2>4, <1>1, <1>2
  <2> QED
    BY <2>3, <2>4
<1> QED
  BY <1>3, <1>4 DEF Merged, Ladder

\* Whatever the sequence rule of the market accepts keeps the book one of the
\* exchange's ladders, never moves it back, and covers the diff.
LEMMA AcceptKeepsBook ==
    ASSUME VenueOK, BookOK, postFirst \in BOOLEAN,
           NEW d \in GenuineDiffs, Accept(d), venue' = venue
    PROVE  /\ BookOK'
           /\ postFirst' \in BOOLEAN
           /\ lastId' >= lastId
           /\ d.u <= lastId'
           /\ lastId # 0 /\ lastId' # 0
<1>1. /\ d \in Diff
      /\ d.u \in 1..Len(venue)
      /\ d.pu \in 1..d.u
      /\ d.U = d.pu + 1
      /\ lastId \in Nat
      /\ Len(venue) \in Nat
  BY DEF GenuineDiffs, Genuine, DiffUpTo, BookOK, VenueOK
<1>2. CASE Stale(d) /\ UNCHANGED bookVars
  BY <1>1, <1>2, OrderBookAssumption
  DEF Stale, SpotStale, FuturesStale, bookVars, BookOK, BookMatchesVenue
<1>3. CASE ~Stale(d) /\ Fits(d) /\ lastId' = d.u /\ ladder' = Merged(d) /\ postFirst' = FALSE
  <2>1. d.U <= lastId + 1 /\ lastId <= d.u /\ lastId # 0
    BY <1>1, <1>3, OrderBookAssumption
    DEF Stale, SpotStale, FuturesStale, Fits, SpotFits, FuturesFits
  <2>2. lastId \in 1..Len(venue) /\ ladder = venue[lastId]
    BY <2>1 DEF BookOK, BookMatchesVenue
  <2>3. ladder' = venue[d.u]
    BY <1>3, <2>1, <2>2, MergeLemma
  <2>4. venue[d.u] \in Ladder
    BY <1>1, ElementOfSeq DEF VenueOK
  <2>5. BookOK'
    BY <1>1, <1>3, <2>3, <2>4 DEF BookOK, BookMatchesVenue
  <2>6. lastId' >= lastId /\ d.u <= lastId' /\ lastId' # 0
    BY <1>1, <1>3, <2>1
  <2>7. postFirst' \in BOOLEAN
    BY <1>3
  <2> QED
    BY <2>1, <2>5, <2>6, <2>7
<1> QED
  BY <1>2, <1>3 DEF Accept

-----------------------------------------------------------------------------
(* The invariant is inductive *)

LEMMA InitInvariant == Init => IInv
<1> SUFFICES ASSUME Init PROVE IInv
  OBVIOUS
<1> DEFINE first == [l \in Levels |-> 1]
<1>1. first \in Ladder /\ EmptyLadder \in Ladder
  BY OrderBookAssumption DEF Ladder, EmptyLadder
<1>2. venue = <<first>> /\ lastSent = 1
  BY DEF Init
<1>3. VenueOK
  <2>1. Len(venue) = 1 /\ venue[1] = first /\ venue \in Seq(Ladder)
    BY <1>1, <1>2
  <2>2. \A l \in Levels : first[l] = 1
    OBVIOUS
  <2> QED
    BY <2>1, <2>2, <1>2, OrderBookAssumption DEF VenueOK
<1>4. DiffsOK
  BY EmptySeq DEF Init, DiffsOK
<1>5. FetchOK
  <2>2. /\ snapId = 0 /\ replayed = 0 /\ task = "start"
    BY DEF Init
  <2> QED
    BY <1>3, <2>2 DEF FetchOK, VenueOK
<1>6. BookOK
  BY <1>1 DEF Init, BookOK, BookMatchesVenue
<1>7. RestOK
  BY OrderBookAssumption DEF Init, RestOK, TaskStates, Bounded
<1>8. TaskOK
  BY OrderBookAssumption DEF Init, TaskOK, FetchingHasTask
<1> QED
  BY <1>3, <1>4, <1>5, <1>6, <1>7, <1>8 DEF IInv

\* While the exchange's history stands still, so does what is genuine.
LEMMA VenueSame ==
    ASSUME VenueOK, UNCHANGED exchangeVars
    PROVE  VenueOK' /\ GenuineDiffs' = GenuineDiffs
BY DEF exchangeVars, VenueOK, GenuineDiffs, Genuine, DiffUpTo

\* No cancellation is given back.
BudgetStep == budget' \in [Bounded -> Nat] /\ budget'.cancel <= budget.cancel

LEMMA SpendKeeps ==
    ASSUME RestOK, NEW k \in Bounded, Spend(k)
    PROVE  BudgetStep
BY DEF RestOK, Spend, Bounded, BudgetStep

LEMMA BudgetSame ==
    ASSUME RestOK, UNCHANGED budget
    PROVE  BudgetStep
BY DEF RestOK, BudgetStep, Bounded

\* A fetch that is left alone keeps its task.
LEMMA TaskKept ==
    ASSUME TaskOK, RestOK, UNCHANGED <<fetching, task, caller>>, BudgetStep
    PROVE  TaskOK'
BY OrderBookAssumption
DEF TaskOK, RestOK, FetchingHasTask, Deserted, Bounded, BudgetStep

\* A step of the fetch itself: it goes on, or ends where its caller is gone.
LEMMA TaskMoves ==
    ASSUME TaskOK, RestOK, task # "none", UNCHANGED <<fetching, caller>>, BudgetStep,
           task' = "none" => caller = "gone"
    PROVE  TaskOK' /\ fetching
BY OrderBookAssumption
DEF TaskOK, RestOK, FetchingHasTask, Deserted, Bounded, BudgetStep

\* The buffer policy keeps what is buffered genuine.
LEMMA BufferedGenuine ==
    ASSUME NEW S, NEW q \in Seq(S), NEW d \in S
    PROVE  Buffered(q, d) \in Seq(S)
<1> DEFINE all == Append(q, d)
           from == IF Len(all) > QueueLimit THEN 1 + Len(all) - QueueLimit ELSE 1
<1>1. all \in Seq(S) /\ Len(all) \in Nat
  BY AppendProperties
<1>2. from \in 1..(Len(all) + 1) /\ from \in Int
  BY <1>1, OrderBookAssumption
<1>3. \A i \in from..Len(all) : all[i] \in S
  BY <1>1, <1>2, ElementOfSeq
<1>4. SubSeq(all, from, Len(all)) \in Seq(S)
  <2> HIDE DEF all, from
  <2> QED
    BY <1>1, <1>2, <1>3, SubSeqProperties
<1> QED
  BY <1>4 DEF Buffered

\* The actions of the exchange and of the stream.
LEMMA ExchangeInvariant ==
    ASSUME IInv, Exchange \/ Dispatch
    PROVE  IInv'
<1> USE DEF IInv
<1>1. ASSUME NEW l \in Levels, Change(l) PROVE IInv'
  <2>1. /\ VenueOK'
        /\ Len(venue') = Len(venue) + 1
        /\ \A n \in 1..Len(venue) : venue'[n] = venue[n]
    BY <1>1, VenueChange
  <2>2. GenuineDiffs \subseteq GenuineDiffs'
    BY <2>1, GenuineKept DEF VenueOK
  <2>3. UNCHANGED <<wire, racing, bookVars, queue, fetchVars, updater, budget>>
    BY <1>1 DEF Change
  <2>4. DiffsOK'
    BY <2>2, <2>3, SeqMonotonic DEF DiffsOK
  <2>5. FetchOK'
    BY <2>1, <2>3 DEF FetchOK, fetchVars, bookVars, VenueOK
  <2>6. BookOK'
    BY <2>1, <2>3 DEF BookOK, BookMatchesVenue, bookVars, VenueOK
  <2>7. RestOK'
    BY <2>3 DEF RestOK, fetchVars, bookVars
  <2>8. TaskOK'
    BY <2>3, BudgetSame, TaskKept DEF fetchVars
  <2> QED
    BY <2>1, <2>4, <2>5, <2>6, <2>7, <2>8
<1>2. CASE Publish
  <2>1. venue' = venue /\ lastSent' = Len(venue)
    BY <1>2 DEF Publish
  <2>2. VenueOK' /\ GenuineDiffs' = GenuineDiffs
    BY <2>1 DEF VenueOK, GenuineDiffs, Genuine, DiffUpTo
  <2>3. DiffUpTo(Len(venue), lastSent) \in GenuineDiffs
    BY <1>2, PublishGenuine DEF Publish
  <2>4. UNCHANGED <<racing, bookVars, queue, fetchVars, updater, budget>>
    BY <1>2 DEF Publish
  <2>5. wire' \in Seq(GenuineDiffs)
    BY <1>2, <2>3, AppendProperties DEF Publish, DiffsOK
  <2>6. DiffsOK'
    BY <2>2, <2>4, <2>5 DEF DiffsOK
  <2>7. FetchOK' /\ BookOK' /\ RestOK'
    BY <2>1, <2>4 DEF FetchOK, BookOK, BookMatchesVenue, RestOK, fetchVars, bookVars
  <2>8. TaskOK'
    BY <2>4, BudgetSame, TaskKept DEF fetchVars
  <2> QED
    BY <2>2, <2>6, <2>7, <2>8
<1>3. CASE Disconnect
  <2>1. VenueOK' /\ GenuineDiffs' = GenuineDiffs /\ venue' = venue
    BY <1>3, VenueSame DEF Disconnect, exchangeVars
  <2>2. DiffsOK'
    BY <1>3, <2>1, EmptySeq DEF Disconnect, DiffsOK
  <2>3. BudgetStep
    BY <1>3, SpendKeeps DEF Disconnect, Bounded
  <2>4. FetchOK' /\ BookOK' /\ RestOK'
    BY <1>3, <2>1, <2>3
    DEF Disconnect, FetchOK, BookOK, BookMatchesVenue, RestOK, fetchVars, bookVars, BudgetStep
  <2>5. TaskOK'
    BY <1>3, <2>3, TaskKept DEF Disconnect, fetchVars
  <2> QED
    BY <2>1, <2>2, <2>4, <2>5
<1>4. CASE Dispatch
  <2>1. VenueOK' /\ GenuineDiffs' = GenuineDiffs /\ venue' = venue
    BY <1>4, VenueSame DEF Dispatch, exchangeVars
  <2>2. Head(wire) \in GenuineDiffs /\ Tail(wire) \in Seq(GenuineDiffs)
    BY <1>4, HeadTailProperties DEF Dispatch, DiffsOK
  <2>3. DiffsOK'
    BY <1>4, <2>1, <2>2 DEF Dispatch, DiffsOK
  <2>4. FetchOK' /\ BookOK' /\ RestOK'
    BY <1>4, <2>1
    DEF Dispatch, FetchOK, BookOK, BookMatchesVenue, RestOK, fetchVars, bookVars
  <2>5. TaskOK'
    BY <1>4, BudgetSame, TaskKept DEF Dispatch, fetchVars
  <2> QED
    BY <2>1, <2>3, <2>4, <2>5
<1> QED
  BY <1>1, <1>2, <1>3, <1>4 DEF Exchange

\* OrderBook.update and what starts a fetch.
LEMMA UpdateInvariant ==
    ASSUME IInv, NEW d \in racing, Update(d)
    PROVE  IInv'
<1> USE DEF IInv
<1>1. /\ UNCHANGED <<exchangeVars, wire, fetchVars, budget>>
      /\ racing' = racing \ {d}
      /\ LockFree
  BY DEF Update
<1>2. VenueOK' /\ GenuineDiffs' = GenuineDiffs /\ venue' = venue
  BY <1>1, VenueSame DEF exchangeVars
<1>3. d \in GenuineDiffs
  BY DEF DiffsOK
<1>4. replayed = 0 /\ replayed' = 0 /\ task' = task /\ task # "replay"
  BY <1>1 DEF FetchOK, LockFree, fetchVars
<1>8. TaskOK'
  BY <1>1, BudgetSame, TaskKept DEF fetchVars
<1>5. CASE fetching /\ queue' = Buffered(queue, d) /\ UNCHANGED <<bookVars, updater>>
  <2>1. queue' \in Seq(GenuineDiffs)
    BY <1>3, <1>5, BufferedGenuine DEF DiffsOK
  <2>2. DiffsOK'
    BY <1>1, <1>2, <2>1 DEF DiffsOK
  <2>3. FetchOK'
    BY <1>1, <1>2, <1>4 DEF FetchOK, fetchVars
  <2>4. BookOK' /\ RestOK'
    BY <1>1, <1>2, <1>5 DEF BookOK, BookMatchesVenue, RestOK, fetchVars, bookVars
  <2> QED
    BY <1>2, <1>8, <2>2, <2>3, <2>4
<1>6. CASE ~fetching /\ Accept(d) /\ UNCHANGED <<queue, updater>>
  <2>1. BookOK' /\ postFirst' \in BOOLEAN
    BY <1>2, <1>3, <1>6, AcceptKeepsBook DEF RestOK
  <2>2. DiffsOK'
    BY <1>1, <1>2, <1>6 DEF DiffsOK
  <2>3. FetchOK'
    BY <1>1, <1>2, <1>4 DEF FetchOK, fetchVars
  <2>4. RestOK'
    BY <1>1, <1>6, <2>1 DEF RestOK, fetchVars
  <2> QED
    BY <1>2, <1>8, <2>1, <2>2, <2>3, <2>4
<1>7. CASE ~fetching /\ Rejects(d) /\ updater' = "gap" /\ UNCHANGED <<bookVars, queue>>
  <2>1. DiffsOK'
    BY <1>1, <1>2, <1>7 DEF DiffsOK
  <2>2. FetchOK'
    BY <1>1, <1>2, <1>4 DEF FetchOK, fetchVars
  <2>3. BookOK' /\ RestOK'
    BY <1>1, <1>2, <1>7 DEF BookOK, BookMatchesVenue, RestOK, fetchVars, bookVars
  <2> QED
    BY <1>2, <1>8, <2>1, <2>2, <2>3
<1> QED
  BY <1>5, <1>6, <1>7 DEF Update

LEMMA StartInvariant ==
    ASSUME IInv, StartFetching \/ ManualFetch
    PROVE  IInv'
<1> USE DEF IInv
<1>1. PICK by \in {"book", "user"} :
        /\ UNCHANGED <<exchangeVars, wire, racing, bookVars, queue, snapId, replayed>>
        /\ LockFree
        /\ MarkFetchingStarted(by)
        /\ updater' \in {"idle", "gap"}
        /\ BudgetStep
  BY SpendKeeps, BudgetSame DEF StartFetching, ManualFetch, RestOK, Bounded
<1>2. VenueOK' /\ GenuineDiffs' = GenuineDiffs /\ venue' = venue
  BY <1>1, VenueSame DEF exchangeVars
<1>3. DiffsOK' /\ BookOK'
  BY <1>1, <1>2 DEF DiffsOK, BookOK, BookMatchesVenue, bookVars
<1>4. replayed' = 0 /\ snapId' = snapId
  BY <1>1 DEF LockFree, FetchOK
<1>5. CASE fetching /\ UNCHANGED <<fetching, task, caller>>
  <2>1. FetchOK'
    BY <1>1, <1>2, <1>4, <1>5 DEF FetchOK, LockFree
  <2>2. RestOK'
    BY <1>1, <1>5 DEF RestOK, bookVars, BudgetStep
  <2>3. TaskOK'
    BY <1>1, <1>5, TaskKept
  <2> QED
    BY <1>2, <1>3, <2>1, <2>2, <2>3
<1>6. CASE ~fetching /\ fetching' = TRUE /\ task' = "start" /\ caller' = by
  <2>1. TaskOK'
    <3>1. budget'.cancel \in Nat /\ budget'.cancel <= budget.cancel
      BY <1>1 DEF BudgetStep, Bounded
    <3> QED
      BY <1>1, <1>6, <3>1, OrderBookAssumption DEF TaskOK, FetchingHasTask
  <2>2. FetchOK'
    BY <1>2, <1>4, <1>6 DEF FetchOK
  <2>3. RestOK'
    BY <1>1, <1>6 DEF RestOK, TaskStates, bookVars, BudgetStep
  <2> QED
    BY <1>2, <1>3, <2>1, <2>2, <2>3
<1> QED
  BY <1>1, <1>5, <1>6 DEF MarkFetchingStarted

\* The cancellation is counted: whatever it leaves behind is Deserted.
LEMMA CancelInvariant ==
    ASSUME IInv, CancelFetch
    PROVE  IInv'
<1> USE DEF IInv
<1>1. /\ UNCHANGED exchangeVars
      /\ UNCHANGED <<wire, racing, bookVars, queue, fetching, snapId, replayed, updater>>
      /\ task # "none"
      /\ \/ task # "replay" /\ task' = "none" /\ caller' = caller
         \/ task' = task /\ caller' = "gone"
  BY DEF CancelFetch
<1>2. VenueOK' /\ GenuineDiffs' = GenuineDiffs /\ venue' = venue
  BY <1>1, VenueSame DEF exchangeVars
<1>3. BudgetStep /\ budget'.cancel < MaxDeserted
  <2>1. BudgetStep
    BY SpendKeeps DEF CancelFetch, Bounded
  <2>2. budget.cancel \in Nat /\ budget.cancel > 0 /\ budget'.cancel = budget.cancel - 1
    BY DEF CancelFetch, Spend, RestOK, Bounded
  <2> QED
    BY <2>1, <2>2, OrderBookAssumption DEF TaskOK
<1>4. DiffsOK' /\ BookOK'
  BY <1>1, <1>2 DEF DiffsOK, BookOK, BookMatchesVenue, bookVars
<1>5. TaskOK'
  <2>1. budget'.cancel \in 0..MaxDeserted
    BY <1>3, OrderBookAssumption DEF BudgetStep, Bounded
  <2>2. fetching' /\ fetching' \in BOOLEAN
    BY <1>1 DEF TaskOK, FetchingHasTask
  <2> QED
    BY <1>1, <1>3, <2>1, <2>2 DEF TaskOK, FetchingHasTask, Deserted
<1>6. FetchOK'
  BY <1>1, <1>2 DEF FetchOK, bookVars
<1>7. RestOK'
  BY <1>1, <1>3 DEF RestOK, TaskStates, bookVars, BudgetStep
<1> QED
  BY <1>2, <1>4, <1>5, <1>6, <1>7

-----------------------------------------------------------------------------
(* The fetch task *)

LEMMA ThenKeeps ==
    ASSUME NEW states, Then(states)
    PROVE  task' \in states \/ (task' = "none" /\ caller = "gone")
BY DEF Then

LEMMA RaiseKeeps ==
    Raise => task' \in {"retry", "abandoned"} \/ (task' = "none" /\ caller = "gone")
BY ThenKeeps DEF Raise

LEMMA FetchInvariant ==
    ASSUME IInv, Fetch
    PROVE  IInv'
<1> USE DEF IInv
<1>0. /\ UNCHANGED exchangeVars
      /\ UNCHANGED <<wire, racing, updater>>
  BY DEF Fetch, RequestSnapshot, ServeSnapshot, RequestFails, InstallTooOld, Install,
         Replay, ReplayFails, FinishFetch
<1>1. VenueOK' /\ GenuineDiffs' = GenuineDiffs /\ venue' = venue
  BY <1>0, VenueSame DEF exchangeVars
<1>2. CASE RequestSnapshot
  <2>1. /\ UNCHANGED <<fetching, caller, budget>>
        /\ task # "none" /\ task' = "waiting" /\ replayed' = 0 /\ snapId' = snapId
    BY <1>2 DEF RequestSnapshot, FetchOK
  <2>2. TaskOK'
    BY <2>1, BudgetSame, TaskMoves
  <2>3. FetchOK'
    BY <1>1, <2>1 DEF FetchOK
  <2>4. DiffsOK' /\ BookOK'
    BY <1>0, <1>1, <1>2 DEF RequestSnapshot, DiffsOK, BookOK, BookMatchesVenue
  <2>5. RestOK'
    BY <1>0, <1>2, OrderBookAssumption DEF RequestSnapshot, RestOK, TaskStates
  <2> QED
    BY <1>1, <2>2, <2>3, <2>4, <2>5
<1>3. CASE ServeSnapshot
  <2>1. /\ UNCHANGED <<fetching, caller, budget>>
        /\ task # "none" /\ task' = "served" /\ replayed' = 0
        /\ snapId' \in 1..Len(venue)
    BY <1>3 DEF ServeSnapshot, FetchOK
  <2>2. TaskOK'
    BY <2>1, BudgetSame, TaskMoves
  <2>3. FetchOK'
    BY <1>1, <2>1 DEF FetchOK, VenueOK
  <2>4. DiffsOK' /\ BookOK'
    BY <1>0, <1>1, <1>3 DEF ServeSnapshot, DiffsOK, BookOK, BookMatchesVenue, bookVars
  <2>5. RestOK'
    BY <1>0, <1>3 DEF ServeSnapshot, RestOK, TaskStates, bookVars
  <2> QED
    BY <1>1, <2>2, <2>3, <2>4, <2>5
<1>4. CASE RequestFails
  <2>1. /\ UNCHANGED <<fetching, caller>>
        /\ task # "none" /\ replayed' = 0 /\ snapId' = snapId
        /\ task' \in {"retry", "abandoned"} \/ (task' = "none" /\ caller = "gone")
    BY <1>4, RaiseKeeps DEF RequestFails, FetchOK
  <2>2. BudgetStep
    BY <1>4, SpendKeeps DEF RequestFails, Bounded
  <2>3. TaskOK'
    BY <2>1, <2>2, TaskMoves
  <2>4. FetchOK'
    BY <1>1, <2>1 DEF FetchOK
  <2>5. DiffsOK' /\ BookOK'
    BY <1>0, <1>1, <1>4 DEF RequestFails, DiffsOK, BookOK, BookMatchesVenue, bookVars
  <2>6. RestOK'
    BY <1>0, <1>4, <2>1, <2>2 DEF RequestFails, RestOK, TaskStates, bookVars, BudgetStep
  <2> QED
    BY <1>1, <2>3, <2>4, <2>5, <2>6
<1>5. CASE InstallTooOld
  <2>1. /\ UNCHANGED <<fetching, caller, budget>>
        /\ task # "none" /\ replayed' = 0 /\ snapId' = snapId
        /\ task' \in {"retry", "abandoned"} \/ (task' = "none" /\ caller = "gone")
    BY <1>5, RaiseKeeps DEF InstallTooOld, FetchOK
  <2>2. TaskOK'
    BY <2>1, BudgetSame, TaskMoves
  <2>3. FetchOK'
    BY <1>1, <2>1 DEF FetchOK
  <2>4. DiffsOK'
    BY <1>0, <1>1, <1>5, EmptySeq DEF InstallTooOld, DiffsOK
  <2>5. BookOK' /\ RestOK'
    BY <1>0, <1>1, <1>5, <2>1
    DEF InstallTooOld, BookOK, BookMatchesVenue, RestOK, TaskStates, bookVars
  <2> QED
    BY <1>1, <2>2, <2>3, <2>4, <2>5
<1>6. CASE Install
  <2>1. /\ UNCHANGED <<fetching, caller, budget>>
        /\ task # "none" /\ replayed' = 0 /\ snapId' = snapId /\ queue' = queue
        /\ snapId \in 1..Len(venue)
    BY <1>6 DEF Install, FetchOK, VenueOK
  <2>2. /\ task' \in {"installed", "replay"} \/ (task' = "none" /\ caller = "gone")
        /\ task' = "replay" => queue # <<>>
    BY <1>6, ThenKeeps DEF Install
  <2>3. TaskOK'
    BY <2>1, <2>2, BudgetSame, TaskMoves
  <2>4. queue # <<>> => Len(queue) > 0
    BY EmptySeq DEF DiffsOK
  <2>5. lastId' = snapId /\ ladder' = venue[snapId] /\ venue[snapId] \in Ladder
    BY <1>6, <2>1, ElementOfSeq DEF Install, VenueOK
  <2>6. FetchOK'
    BY <1>1, <2>1, <2>2, <2>4, <2>5 DEF FetchOK
  <2>7. DiffsOK'
    BY <1>0, <1>1, <2>1 DEF DiffsOK
  <2>8. BookOK'
    BY <1>1, <2>1, <2>5 DEF BookOK, BookMatchesVenue
  <2>9. RestOK'
    BY <1>0, <1>6, <2>1, <2>2 DEF Install, RestOK, TaskStates
  <2> QED
    BY <1>1, <2>3, <2>6, <2>7, <2>8, <2>9
<1>7. CASE Replay
  <2>1. /\ UNCHANGED <<fetching, caller, budget, snapId>>
        /\ task = "replay" /\ lastId # 0 /\ lastId \in Nat /\ replayed \in Nat
        /\ replayed < Len(queue) /\ Len(queue) \in Nat
    BY <1>7, LenProperties DEF Replay, FetchOK, BookOK, DiffsOK
  <2>2. queue[replayed + 1] \in GenuineDiffs
    BY <2>1, ElementOfSeq DEF DiffsOK
  <2>3. /\ BookOK'
        /\ postFirst' \in BOOLEAN
        /\ lastId' >= lastId
        /\ queue[replayed + 1].u <= lastId'
        /\ lastId' # 0
    BY <1>1, <1>7, <2>1, <2>2, AcceptKeepsBook DEF Replay, RestOK
  <2>4. CASE replayed + 1 = Len(queue)
    <3>1. /\ queue' = <<>> /\ replayed' = 0
          /\ task' = "installed" \/ (task' = "none" /\ caller = "gone")
      BY <1>7, <2>4, ThenKeeps DEF Replay
    <3>2. DiffsOK'
      BY <1>0, <1>1, <3>1, EmptySeq DEF DiffsOK
    <3>3. FetchOK'
      BY <1>1, <2>1, <3>1 DEF FetchOK
    <3>4. TaskOK'
      BY <2>1, <3>1, BudgetSame, TaskMoves
    <3>5. RestOK'
      BY <1>0, <2>1, <2>3, <3>1 DEF RestOK, TaskStates
    <3> QED
      BY <1>1, <2>3, <3>2, <3>3, <3>4, <3>5
  <2>5. CASE replayed + 1 # Len(queue)
    <3>1. queue' = queue /\ task' = task /\ replayed' = replayed + 1
      BY <1>7, <2>5 DEF Replay
    <3>2. DiffsOK'
      BY <1>0, <1>1, <3>1 DEF DiffsOK
    <3>3. \A i \in 1..(replayed + 1) : queue[i].u <= lastId'
      <4> SUFFICES ASSUME NEW i \in 1..(replayed + 1) PROVE queue[i].u <= lastId'
        OBVIOUS
      <4>1. queue[i] \in GenuineDiffs
        BY <2>1, ElementOfSeq DEF DiffsOK
      <4>2. queue[i].u \in Nat /\ lastId' \in Nat
        BY <2>3, <4>1 DEF GenuineDiffs, Diff, BookOK
      <4>3. CASE i \in 1..replayed
        BY <2>1, <2>3, <4>2, <4>3 DEF FetchOK
      <4>4. CASE i = replayed + 1
        BY <2>3, <4>4
      <4> QED
        BY <2>1, <4>3, <4>4
    <3>4. FetchOK'
      BY <1>1, <2>1, <2>3, <2>5, <3>1, <3>3 DEF FetchOK
    <3>5. TaskOK'
      BY <2>1, <3>1, BudgetSame, TaskKept
    <3>6. RestOK'
      BY <1>0, <2>1, <2>3, <3>1 DEF RestOK, TaskStates
    <3> QED
      BY <1>1, <2>3, <3>2, <3>4, <3>5, <3>6
  <2> QED
    BY <2>4, <2>5
<1>8. CASE ReplayFails
  <2>1. /\ UNCHANGED <<fetching, caller, budget, snapId>>
        /\ task # "none" /\ replayed' = 0 /\ replayed \in Nat
        /\ task' \in {"retry", "abandoned"} \/ (task' = "none" /\ caller = "gone")
    BY <1>8, RaiseKeeps DEF ReplayFails, FetchOK
  <2>2. Len(queue) \in Nat /\ \A i \in (replayed + 2)..Len(queue) : queue[i] \in GenuineDiffs
    BY <2>1, LenProperties, ElementOfSeq DEF DiffsOK
  <2>3. SubSeq(queue, replayed + 2, Len(queue)) \in Seq(GenuineDiffs)
    BY <2>1, <2>2, SubSeqProperties
  <2>4. DiffsOK'
    BY <1>0, <1>1, <1>8, <2>3 DEF ReplayFails, DiffsOK
  <2>5. FetchOK'
    BY <1>1, <2>1 DEF FetchOK
  <2>6. TaskOK'
    BY <2>1, BudgetSame, TaskMoves
  <2>7. BookOK' /\ RestOK'
    BY <1>0, <1>1, <1>8, <2>1
    DEF ReplayFails, BookOK, BookMatchesVenue, RestOK, TaskStates, bookVars
  <2> QED
    BY <1>1, <2>4, <2>5, <2>6, <2>7
<1>9. CASE FinishFetch
  <2>1. /\ fetching' = FALSE /\ task' = "none" /\ replayed' = 0
        /\ UNCHANGED <<caller, budget, snapId>>
    BY <1>9 DEF FinishFetch, FetchOK
  <2>2. TaskOK'
    BY <2>1 DEF TaskOK, FetchingHasTask
  <2>3. FetchOK'
    BY <1>1, <2>1 DEF FetchOK
  <2>4. DiffsOK' /\ BookOK' /\ RestOK'
    BY <1>0, <1>1, <1>9, <2>1
    DEF FinishFetch, DiffsOK, BookOK, BookMatchesVenue, RestOK, TaskStates, bookVars
  <2> QED
    BY <1>1, <2>2, <2>3, <2>4
<1> QED
  BY <1>2, <1>3, <1>4, <1>5, <1>6, <1>7, <1>8, <1>9 DEF Fetch

LEMMA StutterInvariant ==
    ASSUME IInv, UNCHANGED vars
    PROVE  IInv'
<1>1. UNCHANGED <<exchangeVars, wire, racing, bookVars, queue, fetchVars, updater, budget>>
  BY DEF vars
<1>2. VenueOK' /\ GenuineDiffs' = GenuineDiffs /\ venue' = venue
  BY <1>1, VenueSame DEF IInv, exchangeVars
<1>3. TaskOK'
  BY <1>1, BudgetSame, TaskKept DEF IInv, fetchVars
<1> QED
  BY <1>1, <1>2, <1>3
  DEF IInv, DiffsOK, FetchOK, BookOK, BookMatchesVenue, RestOK, bookVars, fetchVars

\* IInv holds in every state, in either market and for all bounds.
THEOREM Invariant == Spec => []IInv
<1>1. Init => IInv
  BY InitInvariant
<1>2. IInv /\ [Next]_vars => IInv'
  BY ExchangeInvariant, UpdateInvariant, StartInvariant, CancelInvariant, FetchInvariant,
     StutterInvariant
  DEF Next, Handle
<1> QED
  BY <1>1, <1>2, PTL DEF Spec

-----------------------------------------------------------------------------
(* What follows from the invariant *)

\* Every variable of the book, the buffer and the fetch keeps its type.
THEOREM TypeCorrect == Spec => []TypeOK
<1>1. IInv => TypeOK
  <2> SUFFICES ASSUME IInv PROVE TypeOK
    OBVIOUS
  <2> USE DEF IInv
  <2>1. GenuineDiffs \subseteq Diff
    BY DEF GenuineDiffs
  <2>2. wire \in Seq(Diff) /\ queue \in Seq(Diff) /\ racing \subseteq Diff
    BY <2>1, SeqMonotonic DEF DiffsOK
  <2>3. venue \in Seq(Ladder) /\ lastSent \in Nat /\ snapId \in Nat
    BY DEF VenueOK, FetchOK
  <2>4. fetching \in BOOLEAN
    BY DEF TaskOK
  <2> QED
    BY <2>2, <2>3, <2>4 DEF TypeOK, BookOK, RestOK, FetchOK
<1> QED
  BY <1>1, Invariant, PTL

\* The ladders are always exactly those of one update of the exchange: however
\* diffs are lost, reordered, buffered, dropped or replayed, and however many
\* fetches fail, no mixture is ever installed.
THEOREM BookCorrect == Spec => []BookMatchesVenue
<1>1. IInv => BookMatchesVenue
  BY DEF IInv, BookOK
<1> QED
  BY <1>1, Invariant, PTL

\* _fetching is never left set without a fetch task that will reset it, but by a
\* fetch that was cancelled.
THEOREM FetchTaskAlive == Spec => []FetchingHasTask
<1>1. IInv => FetchingHasTask
  BY DEF IInv, TaskOK
<1> QED
  BY <1>1, Invariant, PTL

\* What a cancelled fetch leaves behind is final: no diff, gap or call of fetch()
\* gets a deserted book to fetch again, and its ladders never change.
THEOREM DesertedStays == Spec => DesertedForever
<1> DEFINE Stays == Deserted => Deserted' /\ UNCHANGED bookVars
<1>1. IInv /\ [Next]_vars => Stays
  <2> SUFFICES ASSUME IInv, [Next]_vars, Deserted PROVE Deserted' /\ UNCHANGED bookVars
    OBVIOUS
  <2> USE DEF Deserted
  <2>1. fetching /\ task = "none" /\ budget.cancel \in Nat /\ budget.cancel < MaxDeserted
    BY DEF IInv, RestOK, Bounded
  <2>2. UNCHANGED <<fetching, task, bookVars>>
    BY <2>1
    DEF Next, Exchange, Handle, Fetch, Change, Publish, Disconnect, Dispatch, Update,
        StartFetching, ManualFetch, MarkFetchingStarted, CancelFetch, RequestSnapshot,
        ServeSnapshot, RequestFails, InstallTooOld, Install, Replay, ReplayFails,
        FinishFetch, vars, fetchVars, bookVars
  <2>3. UNCHANGED budget \/ Disconnect
    BY <2>1
    DEF Next, Exchange, Handle, Fetch, Change, Publish, Dispatch, Update,
        StartFetching, ManualFetch, CancelFetch, RequestSnapshot,
        ServeSnapshot, RequestFails, InstallTooOld, Install, Replay, ReplayFails,
        FinishFetch, vars
  <2>4. BudgetStep
    BY <2>3, BudgetSame, SpendKeeps DEF IInv, Disconnect, Bounded
  <2>5. budget'.cancel < MaxDeserted
    BY <2>1, <2>4, OrderBookAssumption DEF BudgetStep, Bounded
  <2> QED
    BY <2>1, <2>2, <2>5
<1>2. Spec => [][Stays]_vars
  BY <1>1, Invariant, PTL DEF Spec
<1> QED
  BY <1>2 DEF DesertedForever

\* A live book never moves back, whatever the order its diffs arrive in.
THEOREM LiveAdvances == Spec => LiveBookOnlyAdvances
<1> DEFINE Forward == ~fetching /\ ~fetching' => lastId' >= lastId
<1>1. IInv /\ [Next]_vars => Forward
  <2> SUFFICES ASSUME IInv, [Next]_vars, ~fetching, ~fetching' PROVE lastId' >= lastId
    OBVIOUS
  <2> USE DEF IInv
  <2>1. CASE UNCHANGED lastId
    BY <2>1 DEF BookOK
  <2>2. ASSUME NEW d \in racing, Update(d) PROVE lastId' >= lastId
    <3>1. CASE UNCHANGED bookVars
      BY <3>1 DEF bookVars, BookOK
    <3>2. CASE Accept(d)
      BY <2>2, <3>2, AcceptKeepsBook DEF Update, DiffsOK, RestOK, exchangeVars
    <3> QED
      BY <2>2, <3>1, <3>2 DEF Update
  <2>3. CASE Fetch
    BY <2>1, <2>3
    DEF Fetch, RequestSnapshot, ServeSnapshot, RequestFails, InstallTooOld, Install,
        Replay, ReplayFails, FinishFetch, TaskOK, FetchingHasTask, bookVars
  <2> QED
    BY <2>1, <2>2, <2>3
    DEF Next, Exchange, Handle, Change, Publish, Disconnect, Dispatch, StartFetching,
        ManualFetch, CancelFetch, vars, bookVars
<1>2. Spec => [][Forward]_vars
  BY <1>1, Invariant, PTL DEF Spec
<1> QED
  BY <1>2 DEF LiveBookOnlyAdvances

\* A fetch that succeeds leaves no buffered diff ahead of the book.
THEOREM InstallCovers == Spec => InstallCoversBuffer
<1> DEFINE Covers == task' = "installed" /\ task # "installed"
                       => \A i \in 1..Len(queue) : queue[i].u <= lastId'
<1>1. IInv /\ [Next]_vars => Covers
  <2> SUFFICES ASSUME IInv, [Next]_vars, task' = "installed", task # "installed",
                      NEW i \in 1..Len(queue)
               PROVE  queue[i].u <= lastId'
    OBVIOUS
  <2> USE DEF IInv
  <2>1. Install \/ Replay
    BY RaiseKeeps
    DEF Next, Exchange, Handle, Fetch, Change, Publish, Disconnect, Dispatch, Update,
        StartFetching, ManualFetch, MarkFetchingStarted, CancelFetch, RequestSnapshot,
        ServeSnapshot, RequestFails, InstallTooOld, ReplayFails, FinishFetch, vars, fetchVars
  <2>2. CASE Install
    BY <2>2, EmptySeq DEF Install
  <2>3. CASE Replay
    <3>1. /\ task = "replay" /\ replayed \in Nat /\ replayed < Len(queue)
          /\ Len(queue) \in Nat /\ Len(queue) = replayed + 1
      BY <2>3, LenProperties DEF Replay, FetchOK, DiffsOK
    <3>2. queue[replayed + 1] \in GenuineDiffs /\ queue[i] \in GenuineDiffs
      BY <3>1, ElementOfSeq DEF DiffsOK
    <3>3. lastId' >= lastId /\ queue[replayed + 1].u <= lastId' /\ BookOK'
      BY <2>3, <3>2, AcceptKeepsBook DEF Replay, RestOK, exchangeVars
    <3>4. queue[i].u \in Nat /\ lastId \in Nat /\ lastId' \in Nat
      BY <3>2, <3>3 DEF GenuineDiffs, Diff, BookOK
    <3>5. CASE i = replayed + 1
      BY <3>3, <3>5
    <3>6. CASE i \in 1..replayed
      BY <3>3, <3>4, <3>6 DEF FetchOK
    <3> QED
      BY <3>1, <3>5, <3>6
  <2> QED
    BY <2>1, <2>2, <2>3
<1>2. Spec => [][Covers]_vars
  BY <1>1, Invariant, PTL DEF Spec
<1> QED
  BY <1>2 DEF InstallCoversBuffer

-----------------------------------------------------------------------------
(* The book implements LocalBook *)

\* A step of the book is a step of what it promises, or changes nothing of it.
LEMMA StepKeepsPromise ==
    ASSUME IInv, IInv', [Next]_vars
    PROVE  [Promise!Next]_(Promise!vars)
<1> USE DEF IInv
<1>1. CASE UNCHANGED <<venue, lastId, ladder, fetching>>
  BY <1>1 DEF Promise!vars
<1>2. ASSUME NEW l \in Levels, Change(l) PROVE Promise!Advance
  <2>1. venue' \in Seq(Ladder) /\ Len(venue') \in Nat \ {0}
    BY DEF VenueOK
  <2> DEFINE new == [venue[Len(venue)] EXCEPT ![l] = Len(venue) + 1]
  <2>2. venue[Len(venue)] \in Ladder /\ Len(venue) < MaxId /\ Len(venue) \in Nat
    BY <1>2, ElementOfSeq DEF Change, VenueOK
  <2>3. new \in Ladder
    BY <2>2, OrderBookAssumption DEF Ladder
  <2>4. venue' = Append(venue, new)
    BY <1>2 DEF Change
  <2>5. UNCHANGED <<lastId, ladder, ~fetching>>
    BY <1>2 DEF Change, bookVars, fetchVars
  <2> HIDE DEF new
  <2> QED
    BY <2>3, <2>4, <2>5 DEF Promise!Advance
<1>3. ASSUME NEW d \in racing, Update(d) PROVE [Promise!Next]_(Promise!vars)
  <2>1. UNCHANGED <<venue, fetching>>
    BY <1>3 DEF Update, exchangeVars, fetchVars
  <2>2. CASE UNCHANGED bookVars
    BY <1>1, <2>1, <2>2 DEF bookVars
  <2>3. CASE ~fetching /\ Accept(d)
    <3>1. lastId' >= lastId /\ lastId # 0 /\ lastId' # 0
      BY <2>1, <2>3, AcceptKeepsBook DEF DiffsOK, RestOK
    <3>2. lastId' \in lastId..Len(venue) /\ ladder' = venue[lastId']
      BY <2>1, <3>1 DEF BookOK, BookMatchesVenue
    <3>3. Promise!Follow
      BY <2>1, <2>3, <3>1, <3>2 DEF Promise!Follow, Promise!ShowAt
    <3> QED
      BY <3>3 DEF Promise!Next
  <2> QED
    BY <1>3, <2>2, <2>3 DEF Update
<1>4. CASE StartFetching \/ ManualFetch
  <2>1. UNCHANGED <<venue, lastId, ladder>>
    BY <1>4 DEF StartFetching, ManualFetch, exchangeVars, bookVars
  <2>2. CASE UNCHANGED fetching
    BY <1>1, <2>1, <2>2
  <2>3. CASE ~fetching /\ fetching' = TRUE
    BY <2>1, <2>3 DEF Promise!LoseSync, Promise!Next
  <2> QED
    BY <1>4, <2>2, <2>3 DEF StartFetching, ManualFetch, MarkFetchingStarted
<1>5. CASE Install \/ Replay
  <2>1. UNCHANGED <<venue, fetching>> /\ fetching /\ lastId' # 0
    <3>1. CASE Install
      BY <3>1 DEF Install, FetchOK, TaskOK, FetchingHasTask, exchangeVars
    <3>2. CASE Replay
      <4>1. queue[replayed + 1] \in GenuineDiffs
        BY <3>2, LenProperties, ElementOfSeq DEF Replay, FetchOK, DiffsOK
      <4>2. lastId' # 0
        BY <3>2, <4>1, AcceptKeepsBook DEF Replay, RestOK, exchangeVars
      <4> QED
        BY <3>2, <4>2 DEF Replay, TaskOK, FetchingHasTask, exchangeVars
    <3> QED
      BY <1>5, <3>1, <3>2
  <2>2. lastId' \in 1..Len(venue) /\ ladder' = venue[lastId']
    BY <2>1 DEF BookOK, BookMatchesVenue
  <2>3. Promise!Resync
    BY <2>1, <2>2 DEF Promise!Resync, Promise!ShowAt
  <2> QED
    BY <2>3 DEF Promise!Next
<1>6. CASE FinishFetch
  <2>1. UNCHANGED <<venue, lastId, ladder>> /\ fetching /\ fetching' = FALSE
    BY <1>6 DEF FinishFetch, TaskOK, FetchingHasTask, exchangeVars, bookVars
  <2> QED
    BY <2>1 DEF Promise!GoLive, Promise!Next
<1>7. CASE Publish \/ Disconnect \/ Dispatch \/ RequestSnapshot \/ ServeSnapshot
             \/ RequestFails \/ InstallTooOld \/ ReplayFails \/ CancelFetch
             \/ UNCHANGED vars
  BY <1>1, <1>7
  DEF Publish, Disconnect, Dispatch, RequestSnapshot, ServeSnapshot, RequestFails,
      InstallTooOld, ReplayFails, CancelFetch, vars, exchangeVars, bookVars, fetchVars
<1> QED
  BY <1>2, <1>3, <1>4, <1>5, <1>6, <1>7
  DEF Next, Exchange, Handle, Fetch, Promise!Next

\* The book implements LocalBook: it shows only ladders the exchange has had,
\* follows it forward while live, and jumps only while it is not.
THEOREM Implements == Spec => KeepsPromise
<1>1. Init => Promise!Init
  <2> SUFFICES ASSUME Init PROVE Promise!Init
    OBVIOUS
  <2> DEFINE first == [l \in Levels |-> 1]
  <2>1. first \in Ladder
    BY OrderBookAssumption DEF Ladder
  <2>2. venue = <<first>> /\ lastId = 0 /\ ladder = EmptyLadder /\ fetching = TRUE
    BY DEF Init
  <2> QED
    BY <2>1, <2>2 DEF Promise!Init
<1>2. IInv /\ IInv' /\ [Next]_vars => [Promise!Next]_(Promise!vars)
  BY StepKeepsPromise
<1> QED
  BY <1>1, <1>2, Invariant, PTL DEF Spec, KeepsPromise, Promise!Spec

-----------------------------------------------------------------------------
(* The callers of updated() *)

\* A fetch has succeeded only where a book was installed, and whoever reports,
\* has a report scheduled or has been woken by one relies on an installed book.
ReportsOK ==
    /\ waiters \in [Waiters -> {"idle", "waiting", "updated", "raised", "cancelled"}]
    /\ task = "installed" => lastId # 0
    /\ calls # 0 => lastId # 0
    /\ emitting = "ok" => lastId # 0
    /\ UpdatedMeansInstalled

\* An installed book stays installed: no step clears _last_update_id.
LEMMA StaysInstalled ==
    ASSUME IInv, [Next]_vars, lastId # 0
    PROVE  lastId' # 0
<1> USE DEF IInv
<1>1. ASSUME NEW d \in racing, Update(d) PROVE lastId' # 0
  <2>1. CASE UNCHANGED bookVars
    BY <2>1 DEF bookVars
  <2>2. CASE Accept(d)
    BY <1>1, <2>2, AcceptKeepsBook DEF Update, DiffsOK, RestOK, exchangeVars
  <2> QED
    BY <1>1, <2>1, <2>2 DEF Update
<1>2. CASE Replay
  <2>1. queue[replayed + 1] \in GenuineDiffs
    BY <1>2, LenProperties, ElementOfSeq DEF Replay, FetchOK, DiffsOK
  <2> QED
    BY <1>2, <2>1, AcceptKeepsBook DEF Replay, RestOK, exchangeVars
<1>3. CASE Install
  BY <1>3 DEF Install, FetchOK
<1> QED
  BY <1>1, <1>2, <1>3
  DEF Next, Exchange, Handle, Fetch, Change, Publish, Disconnect, Dispatch, StartFetching,
      ManualFetch, CancelFetch, RequestSnapshot, ServeSnapshot, RequestFails,
      InstallTooOld, ReplayFails, FinishFetch, vars, bookVars

\* The fetch task gets to its end with an installed book.
LEMMA InstalledAtEnd ==
    ASSUME IInv, [Next]_vars, task = "installed" => lastId # 0
    PROVE  task' = "installed" => lastId' # 0
<1> USE DEF IInv
<1>1. CASE Install
  BY <1>1 DEF Install, FetchOK
<1>2. CASE Replay
  <2>1. lastId # 0
    BY <1>2 DEF Replay, FetchOK
  <2> QED
    BY <1>2, <2>1, StaysInstalled
<1>3. CASE task' # "installed" \/ task' = task
  BY <1>3, StaysInstalled
<1>4. ASSUME NEW d \in racing, Update(d) PROVE task' = task
  BY <1>4 DEF Update, fetchVars
<1> QED
  BY <1>1, <1>2, <1>3, <1>4, RaiseKeeps
  DEF Next, Exchange, Handle, Fetch, Change, Publish, Disconnect, Dispatch, StartFetching,
      ManualFetch, MarkFetchingStarted, CancelFetch, RequestSnapshot, ServeSnapshot,
      RequestFails, InstallTooOld, ReplayFails, FinishFetch, vars, fetchVars

\* Whatever the callers of updated() and the reports do is a step of the book
\* or leaves the book alone.
LEMMA ReportsLeaveBook == [NextUpdated]_allVars => [Next]_vars
BY DEF NextUpdated, allVars, Quiet, Next, Exchange, Handle, Fetch, UpdateEmits,
   FinishFetchReports, EmitAfterFetch, RunCall, Await, CancelWaiter

\* updated() and its reports only watch the book: a book with callers behaves
\* as the book alone, and keeps everything proved about it (_emit_updated).
THEOREM BookUnaware == SpecUpdated => Spec
BY ReportsLeaveBook, PTL DEF SpecUpdated, InitUpdated, Spec

LEMMA ReportsStep ==
    ASSUME IInv, ReportsOK, [NextUpdated]_allVars
    PROVE  ReportsOK'
<1>1. [Next]_vars
  BY ReportsLeaveBook
<1>2. lastId # 0 => lastId' # 0
  BY <1>1, StaysInstalled
<1>3. task' = "installed" => lastId' # 0
  BY <1>1, InstalledAtEnd DEF ReportsOK
<1>0. waiters' \in [Waiters -> {"idle", "waiting", "updated", "raised", "cancelled"}]
  BY DEF ReportsOK, NextUpdated, allVars, notifyVars, Quiet, UpdateEmits, RunCall,
     FinishFetchReports, EmitAfterFetch, ResolveFuture, WakeAll, Await, CancelWaiter
<1> SUFFICES /\ calls' # 0 => lastId' # 0
             /\ emitting' = "ok" => lastId' # 0
             /\ (\E w \in Waiters : waiters'[w] = "updated") => lastId' # 0
  BY <1>0, <1>3 DEF ReportsOK, UpdatedMeansInstalled
<1> USE DEF ReportsOK, UpdatedMeansInstalled
<1>4. CASE UNCHANGED notifyVars
  BY <1>2, <1>4 DEF notifyVars
<1>5. ASSUME NEW d \in racing, UpdateEmits(d)
      PROVE  /\ calls' # 0 => lastId' # 0
             /\ emitting' = "ok" => lastId' # 0
             /\ (\E w \in Waiters : waiters'[w] = "updated") => lastId' # 0
  <2>1. CASE Merges(d)
    <3>1. lastId' = d.u
      BY <1>5, <2>1 DEF UpdateEmits, Update, Merges, Accept, Rejects
    <3>2. d.u # 0
      BY DEF IInv, DiffsOK, GenuineDiffs, Genuine
    <3> QED
      BY <3>1, <3>2
  <2>2. CASE ~Merges(d)
    BY <1>2, <1>5, <2>2 DEF UpdateEmits
  <2> QED
    BY <2>1, <2>2
<1>6. CASE FinishFetchReports
  BY <1>2, <1>6 DEF FinishFetchReports
<1>7. CASE EmitAfterFetch
  <2>1. lastId' = lastId /\ calls' = calls /\ emitting' = "none"
    BY <1>7 DEF EmitAfterFetch, vars, bookVars
  <2>2. ASSUME NEW w \in Waiters, waiters'[w] = "updated" PROVE lastId # 0
    <3>1. waiters' = waiters \/ (ResolveFuture(emitting) /\ future = "pending")
      BY <1>7 DEF EmitAfterFetch, ResolveFuture
    <3>2. CASE waiters' = waiters
      BY <2>2, <3>2
    <3>3. CASE ResolveFuture(emitting) /\ future = "pending"
      <4>1. waiters'[w] = waiters[w] \/ waiters'[w] = IF emitting = "ok" THEN "updated" ELSE "raised"
        BY <3>3 DEF ResolveFuture, WakeAll
      <4> QED
        BY <2>2, <4>1
    <3> QED
      BY <3>1, <3>2, <3>3
  <2> QED
    BY <2>1, <2>2
<1>8. CASE RunCall
  <2>1. calls # 0
    BY <1>8 DEF RunCall
  <2> QED
    BY <1>2, <2>1
<1>9. ASSUME NEW w \in Waiters, Await(w) \/ CancelWaiter(w)
      PROVE  /\ calls' # 0 => lastId' # 0
             /\ emitting' = "ok" => lastId' # 0
             /\ (\E v \in Waiters : waiters'[v] = "updated") => lastId' # 0
  <2>1. lastId' = lastId /\ calls' = calls /\ emitting' = emitting
    BY <1>9 DEF Await, CancelWaiter, vars, bookVars
  <2>2. ASSUME NEW v \in Waiters, waiters'[v] = "updated" PROVE waiters[v] = "updated"
    <3>1. CASE Await(w)
      <4>1. /\ waiters' = [waiters EXCEPT ![w] =
                 IF future = "pending" THEN "waiting" ELSE "cancelled"]
            /\ waiters'[w] \in {"waiting", "cancelled"}
        BY <3>1 DEF Await
      <4> QED
        BY <2>2, <4>1
    <3>2. CASE CancelWaiter(w)
      <4>1. waiters'[v] = IF v \in Waiting THEN "cancelled" ELSE waiters[v]
        BY <3>2 DEF CancelWaiter, WakeAll
      <4> QED
        BY <2>2, <4>1
    <3> QED
      BY <1>9, <3>1, <3>2
  <2> QED
    BY <2>1, <2>2
<1> QED
  BY <1>4, <1>5, <1>6, <1>7, <1>8, <1>9 DEF NextUpdated, Quiet, allVars

\* A task that awaited updated() and was told of an update finds an installed
\* book, however reports, fetches and cancelled waits interleave (updated()).
THEOREM UpdatedFindsBook == SpecUpdated => []UpdatedMeansInstalled
<1>1. InitUpdated => ReportsOK
  BY DEF InitUpdated, Init, ReportsOK, UpdatedMeansInstalled
<1>2. IInv /\ ReportsOK /\ [NextUpdated]_allVars => ReportsOK'
  BY ReportsStep
<1>3. ReportsOK => UpdatedMeansInstalled
  BY DEF ReportsOK
<1> QED
  BY <1>1, <1>2, <1>3, BookUnaware, Invariant, PTL DEF SpecUpdated

-----------------------------------------------------------------------------
(* The sorted lists: where a price belongs *)

LEMMA LeastNat ==
    ASSUME NEW S \in SUBSET Nat, S # {}
    PROVE  \E m \in S : \A n \in S : m <= n
<1> DEFINE Smaller == {pair \in Nat \X Nat : pair[1] < pair[2]}
<1>1. IsWellFoundedOn(Smaller, Nat)
    BY NatLessThanWellFounded DEF OpToRel
<1>2. PICK m \in S : \A n \in S : <<n, m>> \notin Smaller
    <2> HIDE DEF Smaller
    <2> QED BY <1>1, WFMin
<1>3. \A n \in S : ~(n < m)
    BY <1>2 DEF Smaller
<1> QED BY <1>3

\* Ascending keys have a place for every key.
LEMMA BisectLeftIsRight ==
    ASSUME NEW keys \in Seq(Prices), NEW key \in Prices,
           \A i, j \in 1..Len(keys) : i < j => Below(keys[i], keys[j])
    PROVE  LET index == BisectLeft(keys, key) IN
           /\ index \in 1..(Len(keys) + 1)
           /\ \A i \in 1..(index - 1) : Below(keys[i], key)
           /\ \A i \in index..Len(keys) : ~Below(keys[i], key)
<1> DEFINE Splits(index) ==
        /\ \A i \in 1..(index - 1) : Below(keys[i], key)
        /\ \A i \in index..Len(keys) : ~Below(keys[i], key)
<1> DEFINE Later == {i \in 1..(Len(keys) + 1) : i = Len(keys) + 1 \/ ~Below(keys[i], key)}
<1>1. Len(keys) \in Nat /\ \A i \in 1..Len(keys) : keys[i] \in Prices
    OBVIOUS
<1>2. PICK m \in Later : \A n \in Later : m <= n
    <2>1. Later \in SUBSET Nat /\ Len(keys) + 1 \in Later
        BY <1>1
    <2> HIDE DEF Later
    <2> QED BY <2>1, LeastNat
<1>3. m \in 1..(Len(keys) + 1)
    BY <1>1, <1>2
<1>4. Splits(m)
    <2>1. \A i \in 1..(m - 1) : Below(keys[i], key)
        BY <1>1, <1>2, <1>3
    <2>2. \A i \in m..Len(keys) : ~Below(keys[i], key)
        <3> TAKE i \in m..Len(keys)
        <3>1. ~Below(keys[m], key) /\ i \in 1..Len(keys) /\ m \in 1..Len(keys)
            BY <1>1, <1>2, <1>3
        <3>2. i = m \/ Below(keys[m], keys[i])
            BY <1>1, <3>1
        <3> QED BY <1>1, <3>1, <3>2, SequencedListAssumption
    <2> QED BY <2>1, <2>2
<1>5. BisectLeft(keys, key) = CHOOSE index \in 1..(Len(keys) + 1) : Splits(index)
    BY DEF BisectLeft
<1> HIDE DEF Splits
<1>6. BisectLeft(keys, key) \in 1..(Len(keys) + 1) /\ Splits(BisectLeft(keys, key))
    BY <1>3, <1>4, <1>5
<1> QED BY <1>6 DEF Splits

-----------------------------------------------------------------------------
(* What insertion and removal do to a sequence *)

LEMMA InsertAtProperties ==
    ASSUME NEW S, NEW s \in Seq(S), NEW index \in 1..(Len(s) + 1), NEW e \in S
    PROVE  /\ InsertAt(s, index, e) \in Seq(S)
           /\ Len(InsertAt(s, index, e)) = Len(s) + 1
           /\ \A i \in 1..(index - 1) : InsertAt(s, index, e)[i] = s[i]
           /\ InsertAt(s, index, e)[index] = e
           /\ \A i \in index..Len(s) : InsertAt(s, index, e)[i + 1] = s[i]
<1> DEFINE front == SubSeq(s, 1, index - 1)
           back == SubSeq(s, index, Len(s))
           start == front \o <<e>>
           all == start \o back
<1>1. Len(s) \in Nat /\ \A i \in 1..Len(s) : s[i] \in S
    OBVIOUS
<1>2. /\ front \in Seq(S) /\ Len(front) = index - 1
      /\ \A i \in 1..(index - 1) : front[i] = s[i]
    <2>1. \A i \in 1..(index - 1) : s[i] \in S
        BY <1>1
    <2> QED BY <1>1, <2>1, SubSeqProperties
<1>3. /\ back \in Seq(S) /\ Len(back) = Len(s) - index + 1
      /\ \A i \in 1..(Len(s) - index + 1) : back[i] = s[index + i - 1]
    <2>1. \A i \in index..Len(s) : s[i] \in S
        BY <1>1
    <2> QED BY <1>1, <2>1, SubSeqProperties
<1>4. InsertAt(s, index, e) = all
    BY DEF InsertAt
<1> HIDE DEF front, back
<1>5. /\ start \in Seq(S) /\ Len(start) = index
      /\ \A i \in 1..(index - 1) : start[i] = s[i]
      /\ start[index] = e
    <2>1. <<e>> \in Seq(S) /\ Len(<<e>>) = 1 /\ <<e>>[1] = e
        OBVIOUS
    <2> QED BY <1>1, <1>2, <2>1, ConcatProperties
<1> HIDE DEF start
<1>6. /\ all \in Seq(S) /\ Len(all) = Len(s) + 1
      /\ \A i \in 1..(Len(s) + 1) : all[i] = IF i <= index THEN start[i] ELSE back[i - index]
    <2>1. start \in Seq(S) /\ back \in Seq(S)
        BY <1>3, <1>5
    <2>2. /\ all \in Seq(S) /\ Len(all) = Len(start) + Len(back)
          /\ \A i \in 1..(Len(start) + Len(back)) :
                all[i] = IF i <= Len(start) THEN start[i] ELSE back[i - Len(start)]
        BY <2>1, ConcatProperties
    <2>3. Len(start) = index /\ Len(start) + Len(back) = Len(s) + 1
        BY <1>1, <1>3, <1>5
    <2> QED BY <2>2, <2>3
<1> HIDE DEF all
<1>7. \A i \in 1..(index - 1) : all[i] = s[i]
    BY <1>1, <1>5, <1>6
<1>8. all[index] = e
    BY <1>1, <1>5, <1>6
<1>9. ASSUME NEW i \in index..Len(s)
      PROVE  all[i + 1] = s[i]
    <2>1. /\ i + 1 \in 1..(Len(s) + 1) /\ ~(i + 1 <= index)
          /\ (i + 1) - index \in 1..(Len(s) - index + 1)
          /\ index + ((i + 1) - index) - 1 = i
        BY <1>1, <1>9
    <2>2. all[i + 1] = back[(i + 1) - index]
        BY <1>6, <2>1
    <2>3. back[(i + 1) - index] = s[index + ((i + 1) - index) - 1]
        BY <1>3, <2>1
    <2> QED BY <2>1, <2>2, <2>3
<1> QED BY <1>4, <1>6, <1>7, <1>8, <1>9

LEMMA RemoveAtProperties ==
    ASSUME NEW S, NEW s \in Seq(S), NEW index \in 1..Len(s)
    PROVE  /\ RemoveAt(s, index) \in Seq(S)
           /\ Len(RemoveAt(s, index)) = Len(s) - 1
           /\ \A i \in 1..(index - 1) : RemoveAt(s, index)[i] = s[i]
           /\ \A i \in index..(Len(s) - 1) : RemoveAt(s, index)[i] = s[i + 1]
<1> DEFINE front == SubSeq(s, 1, index - 1)
           back == SubSeq(s, index + 1, Len(s))
<1>1. Len(s) \in Nat /\ \A i \in 1..Len(s) : s[i] \in S
    OBVIOUS
<1>2. /\ front \in Seq(S) /\ Len(front) = index - 1
      /\ \A i \in 1..(index - 1) : front[i] = s[i]
    <2>1. \A i \in 1..(index - 1) : s[i] \in S
        BY <1>1
    <2> QED BY <1>1, <2>1, SubSeqProperties
<1>3. /\ back \in Seq(S) /\ Len(back) = Len(s) - index
      /\ \A i \in 1..(Len(s) - index) : back[i] = s[index + i]
    <2>1. \A i \in (index + 1)..Len(s) : s[i] \in S
        BY <1>1
    <2> QED BY <1>1, <2>1, SubSeqProperties
<1>4. RemoveAt(s, index) = front \o back
    BY DEF RemoveAt
<1> HIDE DEF front, back
<1> DEFINE all == front \o back
<1>5. /\ all \in Seq(S) /\ Len(all) = Len(s) - 1
      /\ \A i \in 1..(Len(s) - 1) : all[i] = IF i <= index - 1 THEN front[i] ELSE back[i - (index - 1)]
    <2>1. /\ all \in Seq(S) /\ Len(all) = Len(front) + Len(back)
          /\ \A i \in 1..(Len(front) + Len(back)) :
                all[i] = IF i <= Len(front) THEN front[i] ELSE back[i - Len(front)]
        BY <1>2, <1>3, ConcatProperties
    <2> HIDE DEF all
    <2>2. Len(front) + Len(back) = Len(s) - 1
        BY <1>1, <1>2, <1>3
    <2> QED BY <1>2, <2>1, <2>2
<1> HIDE DEF all
<1>6. \A i \in 1..(index - 1) : all[i] = s[i]
    BY <1>1, <1>2, <1>5
<1>7. ASSUME NEW i \in index..(Len(s) - 1)
      PROVE  all[i] = s[i + 1]
    <2>1. /\ i \in 1..(Len(s) - 1) /\ ~(i <= index - 1)
          /\ i - (index - 1) \in 1..(Len(s) - index)
          /\ index + (i - (index - 1)) = i + 1
        BY <1>1, <1>7
    <2>2. all[i] = back[i - (index - 1)]
        BY <1>5, <2>1
    <2>3. back[i - (index - 1)] = s[index + (i - (index - 1))]
        BY <1>3, <2>1
    <2> QED BY <2>1, <2>2, <2>3
<1> QED BY <1>4, <1>5, <1>6, <1>7 DEF all

-----------------------------------------------------------------------------
(* The quantity at a price *)

\* In a well-formed list a price has the quantity of its pair.
LEMMA AtPair ==
    ASSUME NEW list, WellFormed(list), NEW i \in 1..Len(list.pairs)
    PROVE  At(list, list.pairs[i].price) = list.pairs[i].quantity
<1> DEFINE price == list.pairs[i].price
           Holds(k) == list.pairs[k].price = price
<1>1. /\ list.pairs \in Seq(Pair) /\ list.keys \in Seq(Prices)
      /\ Len(list.pairs) \in Nat
    BY DEF WellFormed, List
<1>2. \A k \in 1..Len(list.pairs) : Holds(k) => k = i
    <2> TAKE k \in 1..Len(list.pairs)
    <2> HAVE Holds(k)
    <2>1. list.keys[k] = list.keys[i]
        BY DEF WellFormed
    <2>2. list.keys[i] \in Prices
        BY <1>1 DEF WellFormed
    <2>3. ~(k < i) /\ ~(i < k)
        BY <1>1, <2>1, <2>2, SequencedListAssumption DEF WellFormed
    <2> QED BY <1>1, <2>3
<1>3. (CHOOSE k \in 1..Len(list.pairs) : Holds(k)) = i
    BY <1>2
<1>4. At(list, price) = list.pairs[CHOOSE k \in 1..Len(list.pairs) : Holds(k)].quantity
    BY DEF At
<1> QED BY <1>3, <1>4

\* A price without a pair is given as 0.
LEMMA AtNothing ==
    ASSUME NEW list, NEW price, \A i \in 1..Len(list.pairs) : list.pairs[i].price # price
    PROVE  At(list, price) = Zero
BY DEF At

-----------------------------------------------------------------------------
(* The three ways in which add changes a list *)

LEMMA InsertedWellFormed ==
    ASSUME NEW list, WellFormed(list), NEW subject \in Pair, subject.quantity # Zero,
           NEW index \in 1..(Len(list.pairs) + 1),
           \A i \in 1..(index - 1) : Below(list.keys[i], subject.price),
           \A i \in index..Len(list.keys) : Below(subject.price, list.keys[i])
    PROVE  /\ WellFormed(Inserted(list, index, subject))
           /\ \A price \in Prices :
                 At(Inserted(list, index, subject), price) =
                     IF price = subject.price THEN subject.quantity ELSE At(list, price)
<1> DEFINE new == Inserted(list, index, subject)
           n == Len(list.pairs)
<1>1. list.pairs \in Seq(Pair) /\ list.keys \in Seq(Prices) /\ Len(list.keys) = n
    BY DEF WellFormed, List
<1>2. n \in Nat /\ index \in 1..(n + 1) /\ subject.price \in Prices
    BY <1>1 DEF Pair
<1>3. /\ \A i \in 1..n : list.keys[i] = list.pairs[i].price /\ list.pairs[i].quantity # Zero
      /\ \A i \in 1..n : list.keys[i] \in Prices
      /\ \A i, j \in 1..n : i < j => Below(list.keys[i], list.keys[j])
    BY <1>1 DEF WellFormed
<1>4. /\ \A i \in 1..(index - 1) : Below(list.keys[i], subject.price)
      /\ \A i \in index..n : Below(subject.price, list.keys[i])
    BY <1>1
<1>5. /\ new.pairs \in Seq(Pair) /\ Len(new.pairs) = n + 1
      /\ \A i \in 1..(index - 1) : new.pairs[i] = list.pairs[i]
      /\ new.pairs[index] = subject
      /\ \A i \in index..n : new.pairs[i + 1] = list.pairs[i]
    <2>1. new.pairs = InsertAt(list.pairs, index, subject)
        BY DEF Inserted
    <2> HIDE DEF new
    <2>2. PICK Item, old : Item = Pair /\ old = list.pairs
        OBVIOUS
    <2>3. old \in Seq(Item) /\ subject \in Item /\ index \in 1..(Len(old) + 1)
        BY <1>1, <2>2
    <2>4. /\ InsertAt(old, index, subject) \in Seq(Item)
          /\ Len(InsertAt(old, index, subject)) = Len(old) + 1
          /\ \A i \in 1..(index - 1) : InsertAt(old, index, subject)[i] = old[i]
          /\ InsertAt(old, index, subject)[index] = subject
          /\ \A i \in index..Len(old) : InsertAt(old, index, subject)[i + 1] = old[i]
        BY <2>3, InsertAtProperties, SMTT(60)
    <2> QED BY <2>1, <2>2, <2>4
<1>6. /\ new.keys \in Seq(Prices) /\ Len(new.keys) = n + 1
      /\ \A i \in 1..(index - 1) : new.keys[i] = list.keys[i]
      /\ new.keys[index] = subject.price
      /\ \A i \in index..n : new.keys[i + 1] = list.keys[i]
    <2>1. new.keys = InsertAt(list.keys, index, subject.price)
        BY DEF Inserted
    <2> HIDE DEF new
    <2>2. index \in 1..(Len(list.keys) + 1)
        BY <1>1, <1>2
    <2>3. PICK Key, key : Key = Prices /\ key = subject.price
        OBVIOUS
    <2>4. list.keys \in Seq(Key) /\ key \in Key
        BY <1>1, <1>2, <2>3
    <2>5. /\ InsertAt(list.keys, index, key) \in Seq(Key)
          /\ Len(InsertAt(list.keys, index, key)) = Len(list.keys) + 1
          /\ \A i \in 1..(index - 1) : InsertAt(list.keys, index, key)[i] = list.keys[i]
          /\ InsertAt(list.keys, index, key)[index] = key
          /\ \A i \in index..Len(list.keys) :
                InsertAt(list.keys, index, key)[i + 1] = list.keys[i]
        BY <2>2, <2>4, InsertAtProperties, SMTT(60)
    <2> QED BY <1>1, <2>1, <2>3, <2>5
<1>7. new \in List
    BY <1>5, <1>6 DEF List, Inserted
<1> HIDE DEF new, n
<1>8. ASSUME NEW i \in 1..(n + 1), i < index
      PROVE  i \in 1..n /\ i \in 1..(index - 1)
             /\ new.keys[i] = list.keys[i] /\ new.pairs[i] = list.pairs[i]
    <2>1. i \in 1..n /\ i \in 1..(index - 1)
        BY <1>2, <1>8
    <2> QED BY <1>5, <1>6, <2>1
<1>9. new.keys[index] = subject.price /\ new.pairs[index] = subject
    BY <1>5, <1>6
<1>10. ASSUME NEW i \in 1..(n + 1), i > index
       PROVE  i - 1 \in 1..n /\ i - 1 \in index..n
              /\ new.keys[i] = list.keys[i - 1] /\ new.pairs[i] = list.pairs[i - 1]
    <2>1. i - 1 \in 1..n /\ i - 1 \in index..n /\ (i - 1) + 1 = i
        BY <1>2, <1>10
    <2>2. new.keys[(i - 1) + 1] = list.keys[i - 1] /\ new.pairs[(i - 1) + 1] = list.pairs[i - 1]
        BY <1>5, <1>6, <2>1
    <2> QED BY <2>1, <2>2
<1>11. \A i \in 1..(n + 1) : i < index \/ i = index \/ i > index
    BY <1>2
<1>12. \A i \in 1..(n + 1) : new.keys[i] = new.pairs[i].price /\ new.pairs[i].quantity # Zero
    BY <1>3, <1>8, <1>9, <1>10, <1>11
<1>13. \A i, j \in 1..(n + 1) : i < j => Below(new.keys[i], new.keys[j])
    <2> TAKE i, j \in 1..(n + 1)
    <2> HAVE i < j
    <2>1. CASE j < index
        <3>1. i < index
            BY <1>2, <2>1
        <3> QED BY <1>3, <1>8, <2>1, <3>1
    <2>2. CASE i < index /\ j = index
        BY <1>4, <1>8, <1>9, <2>2
    <2>3. CASE i < index /\ j > index
        <3>1. Below(list.keys[i], subject.price) /\ Below(subject.price, list.keys[j - 1])
            BY <1>4, <1>8, <1>10, <2>3
        <3>2. list.keys[i] \in Prices /\ list.keys[j - 1] \in Prices
            BY <1>3, <1>8, <1>10, <2>3
        <3>3. Below(list.keys[i], list.keys[j - 1])
            BY <1>2, <3>1, <3>2, SequencedListAssumption
        <3> QED BY <1>8, <1>10, <2>3, <3>3
    <2>4. CASE i = index
        <3>1. j > index
            BY <2>4
        <3> QED BY <1>4, <1>9, <1>10, <2>4, <3>1
    <2>5. CASE i > index
        <3>1. j > index /\ i - 1 < j - 1
            BY <1>2, <2>5
        <3> QED BY <1>3, <1>10, <2>5, <3>1
    <2> QED BY <1>2, <2>1, <2>2, <2>3, <2>4, <2>5
<1>14. WellFormed(new)
    BY <1>5, <1>6, <1>7, <1>12, <1>13 DEF WellFormed
<1>15. ASSUME NEW price \in Prices
       PROVE  At(new, price) = IF price = subject.price THEN subject.quantity ELSE At(list, price)
    <2>1. CASE price = subject.price
        <3>1. index \in 1..Len(new.pairs)
            BY <1>2, <1>5
        <3> QED BY <1>9, <1>14, <2>1, <3>1, AtPair
    <2>2. CASE price # subject.price /\ \E i \in 1..n : list.pairs[i].price = price
        <3>1. PICK i \in 1..n : list.pairs[i].price = price
            BY <2>2
        <3>2. At(list, price) = list.pairs[i].quantity
            BY <3>1, AtPair DEF n
        <3>3. PICK k \in 1..(n + 1) : new.pairs[k] = list.pairs[i]
            <4>1. CASE i < index
                BY <1>2, <1>8, <4>1
            <4>2. CASE i >= index
                <5>1. i + 1 \in 1..(n + 1) /\ i + 1 > index /\ (i + 1) - 1 = i
                    BY <1>2, <4>2
                <5> QED BY <1>10, <5>1
            <4> QED BY <1>2, <4>1, <4>2
        <3>4. At(new, price) = list.pairs[i].quantity
            BY <1>5, <1>14, <3>1, <3>3, AtPair
        <3> QED BY <2>2, <3>2, <3>4
    <2>3. CASE price # subject.price /\ \A i \in 1..n : list.pairs[i].price # price
        <3>1. ASSUME NEW i \in 1..(n + 1) PROVE new.pairs[i].price # price
            <4>1. CASE i < index
                BY <1>8, <2>3, <4>1
            <4>2. CASE i = index
                BY <1>9, <2>3, <4>2
            <4>3. CASE i > index
                BY <1>10, <2>3, <4>3
            <4> QED BY <1>11, <4>1, <4>2, <4>3
        <3> QED BY <1>5, <2>3, <3>1, AtNothing DEF n
    <2> QED BY <2>1, <2>2, <2>3
<1> QED BY <1>14, <1>15 DEF new

LEMMA PoppedWellFormed ==
    ASSUME NEW list, WellFormed(list), NEW index \in 1..Len(list.pairs)
    PROVE  /\ WellFormed(Popped(list, index))
           /\ \A price \in Prices :
                 At(Popped(list, index), price) =
                     IF price = list.pairs[index].price THEN Zero ELSE At(list, price)
<1> DEFINE new == Popped(list, index)
           n == Len(list.pairs)
<1>1. list.pairs \in Seq(Pair) /\ list.keys \in Seq(Prices) /\ Len(list.keys) = n
    BY DEF WellFormed, List
<1>2. n \in Nat /\ index \in 1..n
    BY <1>1
<1>3. /\ \A i \in 1..n : list.keys[i] = list.pairs[i].price /\ list.pairs[i].quantity # Zero
      /\ \A i \in 1..n : list.keys[i] \in Prices
      /\ \A i, j \in 1..n : i < j => Below(list.keys[i], list.keys[j])
    BY <1>1 DEF WellFormed
<1>4. /\ new.pairs \in Seq(Pair) /\ Len(new.pairs) = n - 1
      /\ \A i \in 1..(index - 1) : new.pairs[i] = list.pairs[i]
      /\ \A i \in index..(n - 1) : new.pairs[i] = list.pairs[i + 1]
    <2>1. new.pairs = RemoveAt(list.pairs, index)
        BY DEF Popped
    <2> HIDE DEF new
    <2> QED BY <1>1, <2>1, RemoveAtProperties
<1>5. /\ new.keys \in Seq(Prices) /\ Len(new.keys) = n - 1
      /\ \A i \in 1..(index - 1) : new.keys[i] = list.keys[i]
      /\ \A i \in index..(n - 1) : new.keys[i] = list.keys[i + 1]
    <2>1. new.keys = RemoveAt(list.keys, index) /\ index \in 1..Len(list.keys)
        BY <1>1, <1>2 DEF Popped
    <2> HIDE DEF new
    <2>2. PICK Key : Key = Prices
        OBVIOUS
    <2>3. list.keys \in Seq(Key)
        BY <1>1, <2>2
    <2>4. /\ RemoveAt(list.keys, index) \in Seq(Key)
          /\ Len(RemoveAt(list.keys, index)) = Len(list.keys) - 1
          /\ \A i \in 1..(index - 1) : RemoveAt(list.keys, index)[i] = list.keys[i]
          /\ \A i \in index..(Len(list.keys) - 1) :
                RemoveAt(list.keys, index)[i] = list.keys[i + 1]
        BY <2>1, <2>3, RemoveAtProperties
    <2> QED BY <1>1, <2>1, <2>2, <2>4
<1>6. new \in List
    BY <1>4, <1>5 DEF List, Popped
<1> HIDE DEF new, n
\* Where a pair of the new list comes from.
<1> DEFINE from(i) == IF i < index THEN i ELSE i + 1
<1>7. ASSUME NEW i \in 1..(n - 1)
      PROVE  /\ from(i) \in 1..n /\ from(i) # index
             /\ new.keys[i] = list.keys[from(i)] /\ new.pairs[i] = list.pairs[from(i)]
    <2>1. CASE i < index
        <3>1. i \in 1..(index - 1) /\ i \in 1..n /\ i # index
            BY <1>2, <2>1
        <3> QED BY <1>4, <1>5, <2>1, <3>1
    <2>2. CASE ~(i < index)
        <3>1. i \in index..(n - 1) /\ i + 1 \in 1..n /\ i + 1 # index
            BY <1>2, <2>2
        <3> QED BY <1>4, <1>5, <2>2, <3>1
    <2> QED BY <2>1, <2>2
<1>8. \A i, j \in 1..(n - 1) : i < j => from(i) < from(j)
    BY <1>2
<1>9. ASSUME NEW k \in 1..n, k # index
      PROVE  \E i \in 1..(n - 1) : from(i) = k
    <2>1. CASE k < index
        <3>1. k \in 1..(n - 1) /\ from(k) = k
            BY <1>2, <2>1
        <3> QED BY <3>1
    <2>2. CASE k > index
        <3>1. k - 1 \in 1..(n - 1) /\ from(k - 1) = k
            BY <1>2, <2>2
        <3> QED BY <3>1
    <2> QED BY <1>2, <1>9, <2>1, <2>2
<1> HIDE DEF from
<1>10. \A i \in 1..(n - 1) : new.keys[i] = new.pairs[i].price /\ new.pairs[i].quantity # Zero
    BY <1>3, <1>7
<1>11. \A i, j \in 1..(n - 1) : i < j => Below(new.keys[i], new.keys[j])
    BY <1>3, <1>7, <1>8
<1>12. WellFormed(new)
    BY <1>4, <1>5, <1>6, <1>10, <1>11 DEF WellFormed
<1>13. ASSUME NEW k \in 1..n, k # index
       PROVE  list.pairs[k].price # list.pairs[index].price
    <2>1. k < index \/ index < k
        BY <1>2, <1>13
    <2>2. /\ k < index => Below(list.keys[k], list.keys[index])
          /\ index < k => Below(list.keys[index], list.keys[k])
          /\ list.keys[k] \in Prices /\ list.keys[index] \in Prices
        BY <1>2, <1>3
    <2>3. list.keys[k] # list.keys[index]
        BY <2>1, <2>2, SequencedListAssumption
    <2> QED BY <1>2, <1>3, <2>3
<1>14. ASSUME NEW price \in Prices
       PROVE  At(new, price) = IF price = list.pairs[index].price THEN Zero ELSE At(list, price)
    <2>1. CASE price = list.pairs[index].price
        <3>1. \A i \in 1..Len(new.pairs) : new.pairs[i].price # price
            BY <1>4, <1>7, <1>13, <2>1
        <3> QED BY <2>1, <3>1, AtNothing
    <2>2. CASE price # list.pairs[index].price /\ \E k \in 1..n : list.pairs[k].price = price
        <3>1. PICK k \in 1..n : list.pairs[k].price = price
            BY <2>2
        <3>2. At(list, price) = list.pairs[k].quantity
            BY <3>1, AtPair DEF n
        <3>3. PICK i \in 1..(n - 1) : from(i) = k
            BY <1>9, <2>2, <3>1
        <3>4. At(new, price) = list.pairs[k].quantity
            <4>1. i \in 1..Len(new.pairs)
                BY <1>4
            <4>2. new.pairs[i] = list.pairs[k]
                BY <1>7, <3>3
            <4>3. At(new, new.pairs[i].price) = new.pairs[i].quantity
                BY <1>12, <4>1, AtPair
            <4> QED BY <3>1, <4>2, <4>3
        <3> QED BY <2>2, <3>2, <3>4
    <2>3. CASE price # list.pairs[index].price /\ \A k \in 1..n : list.pairs[k].price # price
        <3>1. \A i \in 1..Len(new.pairs) : new.pairs[i].price # price
            BY <1>4, <1>7, <2>3
        <3> QED BY <2>3, <3>1, AtNothing DEF n
    <2> QED BY <2>1, <2>2, <2>3
<1> QED BY <1>12, <1>14 DEF new

LEMMA SetItemWellFormed ==
    ASSUME NEW list, WellFormed(list), NEW subject \in Pair, subject.quantity # Zero,
           NEW index \in 1..Len(list.pairs), list.pairs[index].price = subject.price
    PROVE  /\ WellFormed(SetItem(list, index, subject))
           /\ \A price \in Prices :
                 At(SetItem(list, index, subject), price) =
                     IF price = subject.price THEN subject.quantity ELSE At(list, price)
<1> DEFINE new == SetItem(list, index, subject)
           n == Len(list.pairs)
<1>1. /\ list.pairs \in Seq(Pair) /\ list.keys \in Seq(Prices) /\ Len(list.keys) = n
      /\ n \in Nat /\ index \in 1..n /\ subject.price \in Prices
    BY DEF WellFormed, List, Pair
<1>2. /\ \A i \in 1..n : list.keys[i] = list.pairs[i].price /\ list.pairs[i].quantity # Zero
      /\ \A i, j \in 1..n : i < j => Below(list.keys[i], list.keys[j])
    BY DEF WellFormed
<1>3. /\ new.pairs \in Seq(Pair) /\ Len(new.pairs) = n
      /\ \A i \in 1..n : new.pairs[i] = IF i = index THEN subject ELSE list.pairs[i]
    BY <1>1 DEF SetItem
<1>4. new.keys \in Seq(Prices) /\ Len(new.keys) = n
    BY <1>1 DEF SetItem
<1>5. \A i \in 1..n : new.keys[i] = list.keys[i]
    BY <1>1, <1>2 DEF SetItem
<1>6. new \in List
    BY <1>3, <1>4 DEF List, SetItem
<1> HIDE DEF new, n
<1>7. \A i \in 1..n : new.keys[i] = new.pairs[i].price /\ new.pairs[i].quantity # Zero
    BY <1>2, <1>3, <1>5
<1>8. WellFormed(new)
    BY <1>2, <1>3, <1>4, <1>5, <1>6, <1>7 DEF WellFormed
<1>9. ASSUME NEW price \in Prices
      PROVE  At(new, price) = IF price = subject.price THEN subject.quantity ELSE At(list, price)
    <2>1. CASE price = subject.price
        BY <1>1, <1>3, <1>8, <2>1, AtPair
    <2>2. CASE price # subject.price /\ \E i \in 1..n : list.pairs[i].price = price
        <3>1. PICK i \in 1..n : list.pairs[i].price = price
            BY <2>2
        <3>2. At(list, price) = list.pairs[i].quantity
            BY <3>1, AtPair DEF n
        <3>3. new.pairs[i] = list.pairs[i]
            BY <1>3, <2>2, <3>1
        <3>4. At(new, price) = list.pairs[i].quantity
            BY <1>3, <1>8, <3>1, <3>3, AtPair
        <3> QED BY <2>2, <3>2, <3>4
    <2>3. CASE price # subject.price /\ \A i \in 1..n : list.pairs[i].price # price
        <3>1. \A i \in 1..Len(new.pairs) : new.pairs[i].price # price
            BY <1>3, <2>3
        <3> QED BY <2>3, <3>1, AtNothing DEF n
    <2> QED BY <2>1, <2>2, <2>3
<1> QED BY <1>8, <1>9 DEF new

-----------------------------------------------------------------------------
(* add *)

\* add() keeps a list in the order of <, without levels that equal 0 and in step
\* with its keys, and changes the quantity of the price it is given and of no other,
\* for numbers and for strings alike; NothingRemoved says what a string makes of
\* "without" (SequencedList.add, of asks and bids alike).
THEOREM AddIsRight ==
    ASSUME NEW list, WellFormed(list), NEW subject \in Pair
    PROVE  /\ WellFormed(Add(list, subject))
           /\ \A price \in Prices :
                 At(Add(list, subject), price) =
                     IF price = subject.price THEN subject.quantity ELSE At(list, price)
<1> DEFINE index == BisectLeft(list.keys, subject.price)
           n == Len(list.pairs)
           present == index <= Len(list.pairs) /\ list.pairs[index].price = subject.price
<1>1. /\ list.keys \in Seq(Prices) /\ list.pairs \in Seq(Pair) /\ Len(list.keys) = n
      /\ n \in Nat /\ subject.price \in Prices /\ subject.quantity \in Quantities
    BY DEF WellFormed, List, Pair
<1>2. /\ \A i \in 1..n : list.keys[i] = list.pairs[i].price /\ list.keys[i] \in Prices
      /\ \A i, j \in 1..n : i < j => Below(list.keys[i], list.keys[j])
    BY <1>1 DEF WellFormed
<1>3. /\ index \in 1..(n + 1)
      /\ \A i \in 1..(index - 1) : Below(list.keys[i], subject.price)
      /\ \A i \in index..n : ~Below(list.keys[i], subject.price)
    BY <1>1, <1>2, BisectLeftIsRight
<1>4. Add(list, subject) =
        CASE present /\ subject.quantity = Zero -> Popped(list, index)
          [] present /\ subject.quantity # Zero -> SetItem(list, index, subject)
          [] ~present /\ subject.quantity # Zero -> Inserted(list, index, subject)
          [] OTHER -> list
    BY DEF Add
<1> HIDE DEF index
<1>5. CASE present /\ subject.quantity = Zero
    <2>1. Add(list, subject) = Popped(list, index)
        BY <1>4, <1>5
    <2>2. index \in 1..Len(list.pairs)
        BY <1>1, <1>3, <1>5
    <2> QED BY <1>5, <2>1, <2>2, PoppedWellFormed
<1>6. CASE present /\ subject.quantity # Zero
    <2>1. Add(list, subject) = SetItem(list, index, subject)
        BY <1>4, <1>6
    <2>2. index \in 1..Len(list.pairs)
        BY <1>1, <1>3, <1>6
    <2> QED BY <1>6, <2>1, <2>2, SetItemWellFormed
<1>7. ASSUME ~present
      PROVE  \A i \in index..n : Below(subject.price, list.keys[i])
    <2> TAKE i \in index..n
    <2>1. index \in 1..n /\ i \in 1..n
        BY <1>1, <1>3
    <2>2. list.keys[index] # subject.price
        BY <1>2, <1>7, <2>1
    <2>3. Below(subject.price, list.keys[index])
        BY <1>1, <1>2, <1>3, <2>1, <2>2, SequencedListAssumption
    <2>4. i = index \/ Below(list.keys[index], list.keys[i])
        BY <1>2, <1>3, <2>1
    <2> QED BY <1>1, <1>2, <2>1, <2>3, <2>4, SequencedListAssumption
<1>8. CASE ~present /\ subject.quantity # Zero
    <2>1. Add(list, subject) = Inserted(list, index, subject)
        BY <1>4, <1>8
    <2>2. \A i \in index..n : Below(subject.price, list.keys[i])
        BY <1>7, <1>8
    <2> QED BY <1>1, <1>3, <1>8, <2>1, <2>2, InsertedWellFormed, SMTT(30)
<1>9. CASE ~present /\ subject.quantity = Zero
    <2>1. Add(list, subject) = list
        BY <1>4, <1>9
    <2>2. \A i \in 1..n : list.pairs[i].price # subject.price
        <3> TAKE i \in 1..n
        <3>1. i \in 1..(index - 1) \/ i \in index..n
            BY <1>1, <1>3
        <3>2. Below(list.keys[i], subject.price) \/ Below(subject.price, list.keys[i])
            BY <1>3, <1>7, <1>9, <3>1
        <3> QED BY <1>1, <1>2, <3>2, SequencedListAssumption
    <2>3. At(list, subject.price) = Zero
        BY <2>2, AtNothing
    <2> QED BY <1>9, <2>1, <2>3
<1> QED BY <1>5, <1>6, <1>8, <1>9

-----------------------------------------------------------------------------
(* merge *)

\* The lists in between: there is one for each number of pairs added.
Adds(list, subjects, after, n) ==
    after = [i \in 0..n |-> IF i = 0 THEN list ELSE Add(after[i - 1], subjects[i])]

LEMMA MergingExists ==
    ASSUME NEW list, NEW subjects, NEW n \in Nat
    PROVE  \E after : Adds(list, subjects, after, n)
<1> DEFINE None == {k \in Nat : ~ \E after : Adds(list, subjects, after, k)}
<1> SUFFICES ASSUME None # {} PROVE FALSE
    OBVIOUS
<1>1. PICK k \in None : \A m \in None : k <= m
    <2>1. None \in SUBSET Nat
        OBVIOUS
    <2> HIDE DEF None
    <2> QED BY <2>1, LeastNat
<1>2. k \in Nat /\ ~ \E after : Adds(list, subjects, after, k)
    BY <1>1
<1>3. CASE k = 0
    <2>1. Adds(list, subjects, [i \in 0..0 |-> list], 0)
        BY DEF Adds
    <2> QED BY <1>2, <1>3, <2>1
<1>4. CASE k # 0
    <2>1. k - 1 \in Nat /\ k - 1 \notin None
        BY <1>1, <1>2, <1>4
    <2>2. PICK before : Adds(list, subjects, before, k - 1)
        BY <2>1
    <2> DEFINE after == [i \in 0..k |-> IF i = k THEN Add(before[k - 1], subjects[k]) ELSE before[i]]
    <2>3. \A i \in 0..(k - 1) : before[i] = IF i = 0 THEN list ELSE Add(before[i - 1], subjects[i])
        BY <2>2 DEF Adds
    <2>4. \A i \in 0..k : after[i] = IF i = 0 THEN list ELSE Add(after[i - 1], subjects[i])
        <3> TAKE i \in 0..k
        <3>1. CASE i = k
            <4>1. after[k - 1] = before[k - 1]
                BY <1>2, <1>4
            <4>2. after[k] = Add(before[k - 1], subjects[k])
                BY <1>2
            <4> HIDE DEF after
            <4> QED BY <1>4, <3>1, <4>1, <4>2
        <3>2. CASE i # k
            <4>1. i \in 0..(k - 1)
                BY <1>2, <3>2
            <4>2. after[i] = before[i]
                BY <3>2
            <4>3. i # 0 => after[i - 1] = before[i - 1]
                BY <1>2, <4>1
            <4> HIDE DEF after
            <4> QED BY <2>3, <4>1, <4>2, <4>3
        <3> QED BY <3>1, <3>2
    <2>5. after = [i \in 0..k |-> after[i]]
        OBVIOUS
    <2>6. Adds(list, subjects, after, k)
        <3> HIDE DEF after
        <3> QED BY <2>4, <2>5 DEF Adds
    <2> QED BY <1>2, <2>6
<1> QED BY <1>3, <1>4

LEMMA MergingIs ==
    ASSUME NEW list, NEW subjects, NEW n \in Nat, Len(subjects) = n
    PROVE  \A i \in 0..n :
              Merging(list, subjects)[i] =
                  IF i = 0 THEN list ELSE Add(Merging(list, subjects)[i - 1], subjects[i])
<1>1. Merging(list, subjects) = CHOOSE after : Adds(list, subjects, after, n)
    BY DEF Merging, Adds
<1>2. Adds(list, subjects, Merging(list, subjects), n)
    BY <1>1, MergingExists
<1> QED BY <1>2 DEF Adds

LEMMA GreatestIn ==
    ASSUME NEW n \in Nat, NEW S \in SUBSET (1..n), S # {}
    PROVE  Max(S) \in S /\ \A k \in S : k <= Max(S)
<1> DEFINE Distances == {j \in Nat : n - j \in S}
<1>1. ASSUME NEW k \in S
      PROVE  k \in 1..n /\ n - k \in Nat /\ n - (n - k) = k
    OBVIOUS
<1>2. \A k \in S : n - k \in Distances
    <2> TAKE k \in S
    <2>1. n - k \in Nat /\ n - (n - k) \in S
        BY <1>1
    <2> QED BY <2>1
<1>3. PICK m \in Distances : \A j \in Distances : m <= j
    <2>1. Distances \in SUBSET Nat /\ Distances # {}
        BY <1>2
    <2> HIDE DEF Distances
    <2> QED BY <2>1, LeastNat
<1>4. m \in Nat /\ n - m \in S
    BY <1>3
<1>5. \A k \in S : k <= n - m
    <2> TAKE k \in S
    <2>1. m <= n - k
        BY <1>2, <1>3
    <2> QED BY <1>1, <1>4, <2>1
<1> QED BY <1>4, <1>5 DEF Max

\* merge() keeps a list in the order of <, without levels that equal 0 and in step
\* with its keys, and gives every price the quantity of its last pair: for lists and
\* batches of any length, of numbers or of strings (SequencedList.merge, of snapshots
\* and diffs, asks and bids alike).
THEOREM MergeIsRight ==
    ASSUME NEW list, WellFormed(list), NEW subjects \in Seq(Pair)
    PROVE  /\ WellFormed(Merge(list, subjects))
           /\ \A price \in Prices :
                 At(Merge(list, subjects), price) = Latest(subjects, price, At(list, price))
<1> DEFINE n == Len(subjects)
           after == Merging(list, subjects)
           those(i, price) == {k \in 1..i : subjects[k].price = price}
           Right(i) ==
              /\ WellFormed(after[i])
              /\ \A price \in Prices :
                    /\ those(i, price) = {} => At(after[i], price) = At(list, price)
                    /\ \A k \in those(i, price) :
                          (\A l \in those(i, price) : l <= k) =>
                              At(after[i], price) = subjects[k].quantity
           Wrong == {i \in Nat : i <= n /\ ~Right(i)}
<1>1. n \in Nat /\ DOMAIN subjects = 1..n /\ \A i \in 1..n : subjects[i] \in Pair
    BY ElementOfSeq
<1>2. \A i \in 0..n : after[i] = IF i = 0 THEN list ELSE Add(after[i - 1], subjects[i])
    BY <1>1, MergingIs
<1> HIDE DEF after
<1>3. Wrong = {}
    <2> SUFFICES ASSUME Wrong # {} PROVE FALSE
        OBVIOUS
    <2>1. PICK i \in Wrong : \A k \in Wrong : i <= k
        <3>1. Wrong \in SUBSET Nat
            OBVIOUS
        <3> HIDE DEF Wrong
        <3> QED BY <3>1, LeastNat
    <2>2. i \in 0..n /\ ~Right(i)
        BY <1>1, <2>1
    <2>3. CASE i = 0
        <3>1. after[0] = list
            BY <1>2, <2>2, <2>3
        <3>2. \A price \in Prices : those(0, price) = {}
            OBVIOUS
        <3> QED BY <2>2, <2>3, <3>1, <3>2
    <2>4. CASE i # 0
        <3>1. i - 1 \in Nat /\ i - 1 <= n /\ ~(i <= i - 1) /\ i \in 1..n
            BY <1>1, <2>2, <2>4
        <3>2. Right(i - 1)
            BY <2>1, <3>1
        <3>3. after[i] = Add(after[i - 1], subjects[i]) /\ subjects[i] \in Pair
            BY <1>1, <1>2, <2>2, <2>4, <3>1
        <3>4. PICK before : before = after[i - 1]
            OBVIOUS
        <3>5. PICK subject \in Pair : subject = subjects[i]
            BY <3>3
        <3>6. /\ WellFormed(after[i])
              /\ \A price \in Prices :
                    At(after[i], price) = IF price = subject.price THEN subject.quantity
                                                                   ELSE At(before, price)
            <4>1. WellFormed(before)
                BY <3>2, <3>4
            <4>2. after[i] = Add(before, subject)
                BY <3>3, <3>4, <3>5
            <4> QED BY <4>1, <4>2, AddIsRight
        <3>7. ASSUME NEW price \in Prices
              PROVE  /\ those(i, price) = {} => At(after[i], price) = At(list, price)
                     /\ \A k \in those(i, price) :
                          (\A l \in those(i, price) : l <= k) =>
                              At(after[i], price) = subjects[k].quantity
            <4>1. those(i, price) = those(i - 1, price) \cup (IF price = subject.price THEN {i} ELSE {})
                BY <3>1, <3>5
            <4>2. CASE price = subject.price
                <5>1. i \in those(i, price) /\ \A l \in those(i, price) : l <= i
                    BY <3>1, <4>1, <4>2
                <5>2. \A k \in those(i, price) : (\A l \in those(i, price) : l <= k) => k = i
                    BY <3>1, <5>1
                <5> QED BY <3>5, <3>6, <4>2, <5>1, <5>2
            <4>3. CASE price # subject.price
                <5>1. those(i, price) = those(i - 1, price)
                    BY <4>1, <4>3
                <5>2. At(after[i], price) = At(after[i - 1], price)
                    BY <3>4, <3>6, <4>3
                <5> HIDE DEF those
                <5> QED BY <3>2, <5>1, <5>2
            <4> QED BY <4>2, <4>3
        <3> HIDE DEF those
        <3> QED BY <2>2, <3>6, <3>7
    <2> QED BY <2>3, <2>4
<1>4. Right(n)
    BY <1>1, <1>3
<1>5. Merge(list, subjects) = after[n]
    BY DEF Merge, after
<1>6. ASSUME NEW price \in Prices
      PROVE  At(after[n], price) = Latest(subjects, price, At(list, price))
    <2>1. Latest(subjects, price, At(list, price)) =
              IF those(n, price) = {} THEN At(list, price) ELSE subjects[Max(those(n, price))].quantity
        BY <1>1 DEF Latest
    <2>2. CASE those(n, price) = {}
        BY <1>4, <2>1, <2>2
    <2>3. CASE those(n, price) # {}
        <3>1. PICK S : S = those(n, price)
            OBVIOUS
        <3>2. S \in SUBSET (1..n) /\ S # {}
            BY <2>3, <3>1
        <3>3. Max(S) \in S /\ \A k \in S : k <= Max(S)
            BY <1>1, <3>2, GreatestIn
        <3>4. At(after[n], price) = subjects[Max(S)].quantity
            BY <1>4, <3>1, <3>3
        <3> QED BY <2>1, <2>3, <3>1, <3>4
    <2> QED BY <2>2, <2>3
<1> QED BY <1>4, <1>5, <1>6

-----------------------------------------------------------------------------
(* What the strings of a payload make of it *)

\* A price is listed exactly when its quantity does not equal 0.
LEMMA ListedIs ==
    ASSUME NEW list, WellFormed(list), NEW price
    PROVE  price \in Listed(list) <=> At(list, price) # Zero
<1>1. CASE price \in Listed(list)
    <2>1. PICK i \in 1..Len(list.pairs) : list.pairs[i].price = price
        BY <1>1 DEF Listed
    <2>2. At(list, price) = list.pairs[i].quantity /\ list.pairs[i].quantity # Zero
        BY <2>1, AtPair DEF WellFormed
    <2> QED BY <1>1, <2>2
<1>2. CASE price \notin Listed(list)
    <2>1. \A i \in 1..Len(list.pairs) : list.pairs[i].price # price
        BY <1>2 DEF Listed
    <2> QED BY <1>2, <2>1, AtNothing
<1> QED BY <1>1, <1>2

\* No string equals 0: of levels given as in the payloads merge() removes none, and
\* a price stays listed once it has been given (sequenced_list.py: quantity == 0).
THEOREM NothingRemoved ==
    ASSUME Zero \notin Quantities,
           NEW list, WellFormed(list), NEW subjects \in Seq(Pair)
    PROVE  Listed(Merge(list, subjects)) =
               Listed(list) \cup {subjects[i].price : i \in 1..Len(subjects)}
<1> DEFINE merged == Merge(list, subjects)
           given == {subjects[i].price : i \in 1..Len(subjects)}
<1>1. /\ WellFormed(merged)
      /\ \A price \in Prices : At(merged, price) = Latest(subjects, price, At(list, price))
    BY MergeIsRight
<1>0. /\ Len(subjects) \in Nat /\ DOMAIN subjects = 1..Len(subjects)
      /\ \A i \in 1..Len(subjects) :
            subjects[i].price \in Prices /\ subjects[i].quantity \in Quantities
    <2>1. \A i \in 1..Len(subjects) : subjects[i] \in Pair
        BY ElementOfSeq
    <2> QED BY <2>1, LenProperties DEF Pair
<1>2. Listed(merged) \subseteq Prices /\ Listed(list) \subseteq Prices /\ given \subseteq Prices
    <2>1. \A any : WellFormed(any) => Listed(any) \subseteq Prices
        BY DEF WellFormed, List, Pair, Listed
    <2>2. given \subseteq Prices
        BY <1>0
    <2> QED BY <1>1, <2>1, <2>2
<1> HIDE DEF merged
<1>3. ASSUME NEW price \in Prices
      PROVE  price \in Listed(merged) <=> price \in Listed(list) \/ price \in given
    <2> DEFINE those == {i \in DOMAIN subjects : subjects[i].price = price}
    <2>2. CASE those = {}
        <3>1. At(merged, price) = At(list, price)
            BY <1>1, <2>2 DEF Latest
        <3>2. price \notin given
            BY <1>0, <2>2
        <3> QED BY <1>1, <3>1, <3>2, ListedIs
    <2>3. CASE those # {}
        <3>1. PICK S : S = those
            OBVIOUS
        <3>2. S \in SUBSET (1..Len(subjects)) /\ S # {}
            BY <1>0, <2>3, <3>1
        <3>3. Max(S) \in 1..Len(subjects)
            BY <1>0, <3>2, GreatestIn
        <3>4. At(merged, price) = subjects[Max(S)].quantity
            BY <1>1, <2>3, <3>1 DEF Latest
        <3>5. At(merged, price) # Zero
            BY <1>0, <3>3, <3>4
        <3>6. price \in given
            BY <1>0, <2>3
        <3> QED BY <1>1, <3>5, <3>6, ListedIs
    <2> QED BY <2>2, <2>3
<1> QED BY <1>2, <1>3 DEF merged

=============================================================================

--------------------------- MODULE DeliveryProofs ---------------------------
(***************************************************************************)
(* What close() leaves behind, and when two threads may update one book,   *)
(* for any number of symbols, messages, connections and workers, and any   *)
(* queue limit.                                                            *)
(***************************************************************************)
EXTENDS Delivery, SequenceTheorems, TLAPS

\* A dispatcher that an overflow has replaced comes to rest: its queue is gone
\* once the task has started, its handlers once the task goes on to recycle.
OldRests ==
    /\ overflow \in {"none", "recycling", "draining"} => stale = << >>
    /\ overflow \in {"none", "recycling"} => \A m \in old : where[m] \notin Busy
    /\ overflow = "draining" =>
          \A m \in old : where[m] \in Busy => where[m] = "cancelling"

\* Who called close() waits for it, and the connection is gone.
CallWaits ==
    /\ \A m \in Messages : where[m] = "closing" => m = from /\ closing \in {"called", "waiting"}
    /\ closing \in {"called", "waiting"} /\ from \in Messages => where[from] = "closing"
    /\ closing = "no" => overflow # "orphaned"
    /\ closing # "no" => ~up /\ overflow \notin {"scheduled", "recycling"}

\* What is left of the dispatcher when close() returns.
Rests ==
    /\ closing \in {"waiting", "closed"} => queue = << >>
    /\ closing = "closed" =>
          /\ overflow \in {"none", "orphaned"}
          /\ overflow = "none" => \A m \in Messages : where[m] \in Busy => m = from

Typed ==
    /\ where \in [Messages -> Busy \cup Settled \cup {"new", "queued"}]
    /\ old \subseteq Messages
    /\ overflow \in {"none", "scheduled", "draining", "recycling", "orphaned"}
    /\ closing \in {"no", "called", "waiting", "closed"}
    /\ from \in Messages \cup {0}
    /\ 0 \notin Messages

\* A queue holds messages nobody has taken, each once.
Untaken(q) ==
    /\ q \in Seq(Messages)
    /\ \A i \in 1..Len(q) : where[q[i]] = "queued"
    /\ \A i, j \in 1..Len(q) : q[i] = q[j] => i = j

QueuesOK ==
    /\ Untaken(queue) /\ \A i \in 1..Len(queue) : queue[i] \notin old
    /\ Untaken(stale) /\ \A i \in 1..Len(stale) : stale[i] \in old
    /\ \A m \in old : where[m] # "new"

AtLock(m) == where[m] \in {"waiting", "updating"}

\* Of two messages at the lock of one symbol, one is ahead of the other; the
\* one whose update() is awaited is first in line, and a thread that runs without
\* being awaited is that of a message that was given up.
LocksOK ==
    /\ symbol \in [Messages -> Symbols]
    /\ line \in [Messages -> SUBSET Messages]
    /\ threads \subseteq Messages
    /\ \A m \in threads : where[m] \in {"updating", "ended"}
    /\ \A m \in Messages : AtLock(m) => m \in line[m]
    /\ \A m \in Messages : where[m] = "updating" => line[m] = {m}
    /\ \A m, n \in Messages :
          m # n /\ symbol[m] = symbol[n] /\ AtLock(m) /\ AtLock(n)
            => m \in line[n] \/ n \in line[m]

IInv == Typed /\ OldRests /\ CallWaits /\ Rests /\ QueuesOK

-----------------------------------------------------------------------------
LEMMA InitHolds == Init => IInv
<1> SUFFICES ASSUME Init PROVE IInv
    OBVIOUS
<1>1. 0 \notin Messages
    BY DeliveryAssumption DEF Messages
<1> QED BY <1>1 DEF Init, IInv, Typed, OldRests, CallWaits, Rests, Busy, QueuesOK, Untaken

LEMMA TypePreserved ==
    ASSUME Typed, [Next]_vars
    PROVE  Typed'
<1> USE DEF Typed, message, connection, close, Busy, Settled, Move
<1>1. ASSUME NEW m \in Messages, Arrive(m) \/ Take(m) \/ TakeStale(m) \/ Handle(m)
      PROVE  Typed'
    BY <1>1 DEF Arrive, Reads, Ignore, Submit, Overflow, Refuse, Take, TakeStale, Handle,
       Ask, Lock, Updated, Finish, End
<1>2. \A m \in Messages : Stopped(where[m]) \in Busy \cup Settled \cup {"new", "queued"}
    BY DEF Stopped
<1>3. ASSUME NEW m \in Messages, NEW who \in Callers, CloseByHandler(who, m)
      PROVE  Typed'
    BY <1>2, <1>3 DEF CloseByHandler, Call
<1>4. CASE DiscardStale \/ Recycle \/ Lose \/ Reconnect
    BY <1>2, <1>4 DEF DiscardStale, Discard, Recycle, Lose, Reconnect
<1>5. CASE CloseByClient \/ CloseDispatcher \/ Return
    BY <1>2, <1>5 DEF CloseByClient, Call, CloseDispatcher, Discard, Return
<1>6. CASE UNCHANGED vars
    BY <1>6 DEF vars
<1> QED BY <1>1, <1>3, <1>4, <1>5, <1>6 DEF Next

LEMMA UntakenStays ==
    ASSUME NEW q, Untaken(q), \A i \in 1..Len(q) : where'[q[i]] = where[q[i]]
    PROVE  /\ q \in Seq(Messages)
           /\ \A i \in 1..Len(q) : where'[q[i]] = "queued"
           /\ \A i, j \in 1..Len(q) : q[i] = q[j] => i = j
BY DEF Untaken

LEMMA UntakenTail ==
    ASSUME IInv, NEW q, Untaken(q), q # << >>,
           where' = [where EXCEPT ![Head(q)] = "calling"]
    PROVE  /\ Head(q) \in Messages /\ where[Head(q)] = "queued"
           /\ Tail(q) \in Seq(Messages)
           /\ \A i \in 1..Len(Tail(q)) : where'[Tail(q)[i]] = "queued"
           /\ \A i, j \in 1..Len(Tail(q)) : Tail(q)[i] = Tail(q)[j] => i = j
           /\ \A i \in 1..Len(Tail(q)) : \E j \in 1..Len(q) : Tail(q)[i] = q[j]
           /\ \E j \in 1..Len(q) : Head(q) = q[j]
<1>1. /\ q \in Seq(Messages) /\ Len(q) \in Nat /\ Len(q) > 0
    BY DEF Untaken
<1>2. /\ Head(q) = q[1] /\ Tail(q) \in Seq(Messages) /\ Len(Tail(q)) = Len(q) - 1
      /\ \A i \in 1..Len(Tail(q)) : Tail(q)[i] = q[i + 1]
    BY <1>1, HeadTailProperties
<1>3. 1 \in 1..Len(q) /\ \A i \in 1..Len(Tail(q)) : i + 1 \in 1..Len(q) /\ i + 1 # 1
    BY <1>1, <1>2
<1>4. q[1] \in Messages /\ \A i \in 1..Len(q) : q[i] \in Messages
    BY <1>1, <1>3, ElementOfSeq
<1>5. \A i \in 1..Len(Tail(q)) : q[i + 1] # q[1] /\ where[q[i + 1]] = "queued"
    BY <1>3 DEF Untaken
<1>6. \A i \in 1..Len(Tail(q)) : where'[Tail(q)[i]] = "queued"
    BY <1>2, <1>3, <1>4, <1>5 DEF IInv, Typed
<1>7. \A i, j \in 1..Len(Tail(q)) : Tail(q)[i] = Tail(q)[j] => i = j
    <2>1. ASSUME NEW i \in 1..Len(Tail(q)), NEW j \in 1..Len(Tail(q)), Tail(q)[i] = Tail(q)[j]
          PROVE  i = j
        <3>1. i + 1 = j + 1
            BY <1>2, <1>3, <2>1 DEF Untaken
        <3> QED BY <1>1, <1>2, <3>1
    <2> QED BY <2>1
<1> QED BY <1>2, <1>3, <1>4, <1>6, <1>7 DEF Untaken

\* The reader of the socket puts a message into the queue or drops it.
LEMMA ArrivalPreserves ==
    ASSUME IInv, NEW m \in Messages, Arrive(m)
    PROVE  OldRests' /\ CallWaits' /\ Rests' /\ QueuesOK'
<1> USE DEF IInv, Typed, message, connection, close, Move
<1>1. where[m] = "new" /\ up /\ closing = "no"
    BY DEF Arrive, Ignore, Submit, Overflow, Refuse, Reads, Newest, CallWaits
<1>2. PICK step \in {"ignored", "queued", "overflowed", "refused"} :
        where' = [where EXCEPT ![m] = step]
    BY DEF Arrive, Ignore, Submit, Overflow, Refuse
<1>3. where'[m] = step /\ \A n \in Messages \ {m} : where'[n] = where[n]
    BY <1>2
<1>4. step \notin Busy /\ "new" \notin Busy /\ "queued" \notin Busy
    BY <1>2 DEF Busy
<1>5. UNCHANGED <<closing, from>> /\ overflow' \in {overflow, "scheduled"}
    BY DEF Arrive, Ignore, Submit, Overflow, Refuse
<1>6. CallWaits' /\ Rests'
    BY <1>1, <1>2, <1>3, <1>5 DEF CallWaits, Rests
<1>7. m \notin old
    BY <1>1 DEF QueuesOK
<1>8. \A n \in Messages : where[n] = "queued" => where'[n] = where[n]
    BY <1>1, <1>3
<1>9. CASE UNCHANGED <<stale, old, overflow>> /\ queue' = queue
    <2>1. OldRests'
        BY <1>3, <1>4, <1>9 DEF OldRests
    <2>2. QueuesOK'
        BY <1>3, <1>7, <1>8, <1>9, UntakenStays DEF QueuesOK, Untaken
    <2> QED BY <1>6, <2>1, <2>2
<1>10. CASE Submit(m)
    <2>1. UNCHANGED <<stale, old, overflow>> /\ queue' = Append(queue, m) /\ where'[m] = "queued"
        BY <1>10 DEF Submit
    <2>2. OldRests'
        BY <1>3, <1>4, <2>1 DEF OldRests
    <2>3. queue \in Seq(Messages) /\ Len(queue) \in Nat
        BY DEF QueuesOK, Untaken
    <2>4. /\ queue' \in Seq(Messages) /\ Len(queue') = Len(queue) + 1
          /\ \A i \in 1..Len(queue) : queue'[i] = queue[i]
          /\ queue'[Len(queue) + 1] = m
        BY <2>1, <2>3, AppendProperties
    <2>5. \A i \in 1..Len(queue') : i \in 1..Len(queue) \/ i = Len(queue) + 1
        BY <2>3, <2>4
    <2>6. \A i \in 1..Len(queue) : /\ queue[i] \in Messages /\ where[queue[i]] = "queued"
                                   /\ queue[i] # m /\ queue[i] \notin old
        BY <1>1, <2>3, ElementOfSeq DEF QueuesOK, Untaken
    <2>7. \A i \in 1..Len(queue') : where'[queue'[i]] = "queued" /\ queue'[i] \notin old
        BY <1>3, <1>7, <2>1, <2>4, <2>5, <2>6
    <2>8. \A i, j \in 1..Len(queue') : queue'[i] = queue'[j] => i = j
        BY <2>4, <2>5, <2>6 DEF QueuesOK, Untaken
    <2>9. Untaken(queue)'
        BY <2>4, <2>7, <2>8 DEF Untaken
    <2>10. Untaken(stale)'
        BY <1>8, <2>1, UntakenStays DEF QueuesOK, Untaken
    <2> QED BY <1>3, <1>6, <1>7, <2>1, <2>2, <2>7, <2>9, <2>10 DEF QueuesOK
<1>11. CASE Overflow(m)
    <2>1. /\ overflow' = "scheduled" /\ stale' = queue /\ queue' = << >> /\ where'[m] = "overflowed"
          /\ old' = {n \in Messages : where[n] \in Busy \cup {"queued"}}
        BY <1>11 DEF Overflow
    <2>2. OldRests'
        BY <2>1 DEF OldRests
    <2>3. Untaken(stale)' /\ Untaken(queue)'
        BY <1>8, <2>1, UntakenStays DEF QueuesOK, Untaken
    <2>4. \A i \in 1..Len(queue) : queue[i] \in Messages /\ where[queue[i]] = "queued"
        BY ElementOfSeq DEF QueuesOK, Untaken
    <2>5. \A n \in old' : where'[n] # "new"
        BY <1>3, <1>4, <2>1
    <2> QED BY <1>6, <2>1, <2>2, <2>3, <2>4, <2>5 DEF QueuesOK
<1> QED
    BY <1>9, <1>10, <1>11 DEF Arrive, Ignore, Refuse

\* A worker, or a thread, carries a message on.
LEMMA HandlingPreserves ==
    ASSUME IInv, NEW m \in Messages, Handle(m)
    PROVE  OldRests' /\ CallWaits' /\ Rests' /\ QueuesOK'
<1> USE DEF IInv, Typed, message, connection, close, Move
<1>1. UNCHANGED <<old, overflow, closing, from, stale, queue, up>>
    BY DEF Handle, Ask, Lock, Updated, Finish, End
<1>2. \/ where' = where
      \/ \E step \in Busy \cup Settled :
            /\ where' = [where EXCEPT ![m] = step]
            /\ step # "closing" /\ where[m] # "closing" /\ where[m] \in Busy
            /\ where[m] = "cancelling" => step \notin Busy
    BY DEF Handle, Ask, Lock, Updated, Finish, End, Busy, Settled
<1>3. CASE where' = where
    BY <1>1, <1>3 DEF OldRests, CallWaits, Rests, QueuesOK, Untaken
<1>4. ASSUME NEW step \in Busy \cup Settled, where' = [where EXCEPT ![m] = step],
             step # "closing", where[m] # "closing", where[m] \in Busy,
             where[m] = "cancelling" => step \notin Busy
      PROVE  OldRests' /\ CallWaits' /\ Rests' /\ QueuesOK'
    <2>1. where'[m] = step /\ \A n \in Messages \ {m} : where'[n] = where[n]
        BY <1>4
    <2>2. OldRests' /\ CallWaits' /\ Rests'
        BY <1>1, <1>4, <2>1 DEF OldRests, CallWaits, Rests
    <2>3. \A n \in Messages : where[n] = "queued" => where'[n] = where[n]
        BY <1>4, <2>1 DEF Busy
    <2>4. step # "new"
        BY DEF Busy, Settled
    <2> QED BY <1>1, <2>1, <2>2, <2>3, <2>4, UntakenStays DEF QueuesOK, Untaken
<1> QED BY <1>2, <1>3, <1>4

\* A worker takes the next message of its dispatcher's queue.
LEMMA TakingPreserves ==
    ASSUME IInv, NEW m \in Messages, Take(m) \/ TakeStale(m)
    PROVE  OldRests' /\ CallWaits' /\ Rests' /\ QueuesOK'
<1> USE DEF IInv, Typed, message, connection, close, Move
<1>1. UNCHANGED <<old, overflow, closing, from, up>> /\ where' = [where EXCEPT ![m] = "calling"]
    BY DEF Take, TakeStale
<1>2. where'[m] = "calling" /\ \A n \in Messages \ {m} : where'[n] = where[n]
    BY <1>1
<1>3. CASE Take(m)
    <2>1. m = Head(queue) /\ queue # << >> /\ queue' = Tail(queue) /\ stale' = stale /\ closing = "no"
        BY <1>3 DEF Take
    <2>2. /\ m \notin old /\ where[m] = "queued" /\ queue' \in Seq(Messages)
          /\ \A i \in 1..Len(queue') : where'[queue'[i]] = "queued" /\ queue'[i] \notin old
          /\ \A i, j \in 1..Len(queue') : queue'[i] = queue'[j] => i = j
        <3>1. Untaken(queue) /\ where' = [where EXCEPT ![Head(queue)] = "calling"]
            BY <1>1, <2>1 DEF QueuesOK
        <3>2. /\ where[m] = "queued" /\ queue' \in Seq(Messages)
              /\ \A i \in 1..Len(queue') : where'[queue'[i]] = "queued"
              /\ \A i, j \in 1..Len(queue') : queue'[i] = queue'[j] => i = j
              /\ \A i \in 1..Len(queue') : \E j \in 1..Len(queue) : queue'[i] = queue[j]
              /\ \E j \in 1..Len(queue) : m = queue[j]
            <4>1. PICK q : q = queue
                OBVIOUS
            <4>2. /\ Untaken(q) /\ where' = [where EXCEPT ![Head(q)] = "calling"] /\ q # << >>
                  /\ m = Head(q) /\ queue' = Tail(q)
                BY <2>1, <3>1, <4>1
            <4>3. /\ where[Head(q)] = "queued" /\ Tail(q) \in Seq(Messages)
                  /\ \A i \in 1..Len(Tail(q)) : where'[Tail(q)[i]] = "queued"
                  /\ \A i, j \in 1..Len(Tail(q)) : Tail(q)[i] = Tail(q)[j] => i = j
                  /\ \A i \in 1..Len(Tail(q)) : \E j \in 1..Len(q) : Tail(q)[i] = q[j]
                  /\ \E j \in 1..Len(q) : Head(q) = q[j]
                BY <4>2, UntakenTail
            <4> QED BY <4>1, <4>2, <4>3
        <3>3. \A i \in 1..Len(queue) : queue[i] \notin old
            BY DEF QueuesOK
        <3> QED BY <3>2, <3>3
    <2>3. \A i \in 1..Len(stale) : stale[i] # m /\ stale[i] \in Messages
        BY <2>2 DEF QueuesOK
    <2>4. Untaken(stale)'
        BY <1>2, <2>1, <2>3, UntakenStays DEF QueuesOK, Untaken
    <2>5. Untaken(queue)'
        BY <2>2 DEF Untaken
    <2>6. QueuesOK'
        BY <1>1, <1>2, <2>1, <2>2, <2>4, <2>5 DEF QueuesOK
    <2>7. OldRests' /\ CallWaits' /\ Rests'
        BY <1>1, <1>2, <2>1, <2>2 DEF OldRests, CallWaits, Rests
    <2> QED BY <2>6, <2>7
<1>4. CASE TakeStale(m)
    <2>1. m = Head(stale) /\ stale # << >> /\ stale' = Tail(stale) /\ queue' = queue
        BY <1>4 DEF TakeStale
    <2>2. /\ m \in old /\ where[m] = "queued" /\ stale' \in Seq(Messages)
          /\ \A i \in 1..Len(stale') : where'[stale'[i]] = "queued" /\ stale'[i] \in old
          /\ \A i, j \in 1..Len(stale') : stale'[i] = stale'[j] => i = j
        <3>1. Untaken(stale) /\ where' = [where EXCEPT ![Head(stale)] = "calling"]
            BY <1>1, <2>1 DEF QueuesOK
        <3>2. /\ where[m] = "queued" /\ stale' \in Seq(Messages)
              /\ \A i \in 1..Len(stale') : where'[stale'[i]] = "queued"
              /\ \A i, j \in 1..Len(stale') : stale'[i] = stale'[j] => i = j
              /\ \A i \in 1..Len(stale') : \E j \in 1..Len(stale) : stale'[i] = stale[j]
              /\ \E j \in 1..Len(stale) : m = stale[j]
            <4>1. PICK q : q = stale
                OBVIOUS
            <4>2. /\ Untaken(q) /\ where' = [where EXCEPT ![Head(q)] = "calling"] /\ q # << >>
                  /\ m = Head(q) /\ stale' = Tail(q)
                BY <2>1, <3>1, <4>1
            <4>3. /\ where[Head(q)] = "queued" /\ Tail(q) \in Seq(Messages)
                  /\ \A i \in 1..Len(Tail(q)) : where'[Tail(q)[i]] = "queued"
                  /\ \A i, j \in 1..Len(Tail(q)) : Tail(q)[i] = Tail(q)[j] => i = j
                  /\ \A i \in 1..Len(Tail(q)) : \E j \in 1..Len(q) : Tail(q)[i] = q[j]
                  /\ \E j \in 1..Len(q) : Head(q) = q[j]
                BY <4>2, UntakenTail
            <4> QED BY <4>1, <4>2, <4>3
        <3>3. \A i \in 1..Len(stale) : stale[i] \in old
            BY DEF QueuesOK
        <3> QED BY <3>2, <3>3
    <2>3. \A i \in 1..Len(queue) : queue[i] # m /\ queue[i] \in Messages
        BY <2>2, ElementOfSeq DEF QueuesOK, Untaken
    <2>4. Untaken(queue)'
        BY <1>2, <2>1, <2>3, UntakenStays DEF QueuesOK, Untaken
    <2>5. Untaken(stale)'
        BY <2>2 DEF Untaken
    <2>6. QueuesOK'
        BY <1>1, <1>2, <2>1, <2>2, <2>4, <2>5 DEF QueuesOK
    <2>7. overflow \notin {"none", "recycling", "draining"}
        BY <2>1 DEF OldRests
    <2>8. OldRests' /\ CallWaits' /\ Rests'
        BY <1>1, <1>2, <2>1, <2>2, <2>7 DEF OldRests, CallWaits, Rests
    <2> QED BY <2>6, <2>8
<1> QED BY <1>3, <1>4

LEMMA StoppedIs ==
    ASSUME IInv, NEW m \in Messages
    PROVE  /\ Stopped(where[m]) \in Busy =>
                 Stopped(where[m]) = "cancelling" \/ (Stopped(where[m]) = "closing" /\ where[m] = "closing")
           /\ where[m] = "closing" => Stopped(where[m]) = "closing"
           /\ where[m] = "queued" => Stopped(where[m]) = "queued"
           /\ where[m] # "new" => Stopped(where[m]) # "new"
           /\ where[m] \notin Busy => Stopped(where[m]) \notin Busy
BY DEF Stopped, Busy, Settled, IInv, Typed

\* The task that an overflow started, and the connection.
LEMMA OverflowPreserves ==
    ASSUME IInv, DiscardStale \/ Recycle \/ Lose \/ Reconnect
    PROVE  OldRests' /\ CallWaits' /\ Rests' /\ QueuesOK'
<1> USE DEF IInv, Typed, message, connection, close, Move
<1>1. CASE DiscardStale
    <2>1. /\ overflow = "scheduled" /\ overflow' = "draining" /\ stale' = << >>
          /\ UNCHANGED <<old, closing, from, queue, up>>
        BY <1>1 DEF DiscardStale
    <2>2. closing = "no" /\ \A n \in Messages : where[n] # "closing"
        BY <2>1 DEF CallWaits
    <2>3. \A n \in Messages : where'[n] = IF n \in ToSet(stale) THEN "drained"
                                          ELSE IF n \in old THEN Stopped(where[n]) ELSE where[n]
        BY <1>1 DEF DiscardStale, Discard
    <2>4. \A n \in old : where'[n] \in Busy => where'[n] = "cancelling"
        BY <2>2, <2>3, StoppedIs DEF Busy
    <2>5. \A n \in Messages : where'[n] # "closing"
        BY <2>2, <2>3, StoppedIs DEF Busy
    <2>6. OldRests' /\ CallWaits' /\ Rests'
        BY <2>1, <2>2, <2>4, <2>5 DEF OldRests, CallWaits, Rests
    <2>7. ToSet(stale) \subseteq old
        BY DEF ToSet, QueuesOK
    <2>8. \A i \in 1..Len(queue) : where'[queue[i]] = where[queue[i]]
        BY <2>3, <2>7, ElementOfSeq DEF QueuesOK, Untaken
    <2>9. Untaken(queue)' /\ Untaken(stale)'
        BY <2>1, <2>8, UntakenStays DEF QueuesOK, Untaken
    <2>10. \A n \in old : where'[n] # "new"
        BY <2>3, StoppedIs DEF QueuesOK
    <2>11. \A i \in 1..Len(stale') : stale'[i] \in old'
        BY <2>1
    <2> QED BY <2>1, <2>6, <2>9, <2>10, <2>11 DEF QueuesOK
<1>2. CASE Recycle
    BY <1>2 DEF Recycle, InFlight, OldRests, CallWaits, Rests, QueuesOK, Untaken
<1>3. CASE Lose
    BY <1>3 DEF Lose, OldRests, CallWaits, Rests, QueuesOK, Untaken
<1>4. CASE Reconnect
    BY <1>4 DEF Reconnect, OldRests, CallWaits, Rests, QueuesOK, Untaken
<1> QED BY <1>1, <1>2, <1>3, <1>4

\* Once close() is called, messages leave the dispatcher for good.
LEMMA ClosePreserves ==
    ASSUME IInv,
           \/ \E m \in Messages, who \in Callers : CloseByHandler(who, m)
           \/ CloseByClient \/ CloseDispatcher \/ Return
    PROVE  OldRests' /\ CallWaits' /\ Rests' /\ QueuesOK'
<1> USE DEF IInv, Typed, message, connection, close, Move
<1>1. ASSUME NEW m \in Messages \cup {0}, NEW who, Call(who, m),
             m \in Messages => where[m] = "receiving",
             \A n \in Messages :
               where'[n] = IF n = m THEN "closing" ELSE IF n \in old THEN where[n] ELSE Stopped(where[n])
      PROVE  OldRests' /\ CallWaits' /\ Rests' /\ QueuesOK'
    <2>1. /\ closing = "no" /\ closing' = "called" /\ from' = m /\ ~up'
          /\ UNCHANGED <<old, queue, stale>>
          /\ overflow' = CASE overflow = "scheduled" -> "orphaned"
                           [] overflow = "draining" -> "draining"
                           [] OTHER -> "none"
        BY <1>1 DEF Call
    <2>2. \A n \in Messages : where[n] # "closing"
        BY <2>1 DEF CallWaits
    <2>3. m \in old => overflow \notin {"none", "recycling", "draining"}
        BY <1>1 DEF OldRests, Busy
    <2>4. OldRests'
        <3>0. overflow # "orphaned"
            BY <2>1 DEF CallWaits
        <3>1. CASE overflow = "scheduled"
            <4>1. overflow' = "orphaned"
                BY <2>1, <3>1
            <4> QED BY <4>1 DEF OldRests
        <3>2. CASE overflow \in {"none", "recycling", "draining"}
            <4>1. \A n \in old : where'[n] = where[n]
                BY <1>1, <2>3, <3>2
            <4>2. stale = << >> /\ overflow' \in {"none", "draining"}
                    /\ (overflow' = "draining" => overflow = "draining")
                BY <2>1, <3>2 DEF OldRests
            <4> QED BY <2>1, <3>2, <4>1, <4>2 DEF OldRests
        <3> QED BY <3>0, <3>1, <3>2
    <2>5. CallWaits'
        BY <1>1, <2>1, <2>2, StoppedIs DEF CallWaits, Busy
    <2>6. Rests'
        BY <2>1 DEF Rests
    <2>7. \A n \in Messages : where[n] = "queued" => where'[n] = where[n]
        BY <1>1, StoppedIs
    <2>8. Untaken(queue)' /\ Untaken(stale)'
        BY <2>1, <2>7, ElementOfSeq, UntakenStays DEF QueuesOK, Untaken
    <2>9. \A n \in old' : where'[n] # "new"
        BY <1>1, <2>1 DEF QueuesOK
    <2> QED BY <2>1, <2>4, <2>5, <2>6, <2>8, <2>9 DEF QueuesOK
<1>2. ASSUME NEW m \in Messages, NEW who \in Callers, CloseByHandler(who, m)
      PROVE  OldRests' /\ CallWaits' /\ Rests' /\ QueuesOK'
    BY <1>1, <1>2 DEF CloseByHandler
<1>3. CASE CloseByClient
    <2>1. Call("client", 0)
        BY <1>3 DEF CloseByClient
    <2>2. \A n \in Messages :
            where'[n] = IF n = 0 THEN "closing" ELSE IF n \in old THEN where[n] ELSE Stopped(where[n])
        BY <1>3 DEF CloseByClient
    <2> QED BY <1>1, <2>1, <2>2
<1>4. CASE CloseDispatcher
    <2>1. /\ closing = "called" /\ closing' = "waiting" /\ queue' = << >>
          /\ UNCHANGED <<old, overflow, from, stale, up>>
        BY <1>4 DEF CloseDispatcher
    <2>2. \A n \in Messages : where'[n] = IF n \in ToSet(queue) THEN "drained"
                                          ELSE IF n \in old THEN where[n] ELSE Stopped(where[n])
        BY <1>4 DEF CloseDispatcher, Discard
    <2>3. \A n \in ToSet(queue) : n \notin old /\ where[n] = "queued"
        BY DEF ToSet, QueuesOK, Untaken
    <2>4. \A n \in old : where'[n] = where[n]
        BY <2>2, <2>3
    <2>5. OldRests' /\ Rests'
        BY <2>1, <2>4 DEF OldRests, Rests
    <2>6. CallWaits'
        BY <2>1, <2>2, <2>3, StoppedIs DEF CallWaits, Busy
    <2>7. Untaken(queue)' /\ Untaken(stale)'
        BY <2>1, <2>4, UntakenStays DEF QueuesOK, Untaken
    <2>8. \A i \in 1..Len(queue') : queue'[i] \notin old'
        BY <2>1
    <2> QED BY <2>1, <2>4, <2>5, <2>6, <2>7, <2>8 DEF QueuesOK
<1>5. CASE Return
    <2>1. /\ closing = "waiting" /\ closing' = "closed" /\ overflow \in {"none", "orphaned"}
          /\ UNCHANGED <<old, overflow, from, stale, queue, up>>
          /\ \A n \in Messages : where'[n] = IF n = from THEN "receiving" ELSE where[n]
          /\ \A n \in Messages \ (old \cup {from}) : where[n] \notin Busy
        BY <1>5 DEF Return, InFlight
    <2>2. from \in Messages => where[from] = "closing"
        BY <2>1 DEF CallWaits
    <2>3. overflow = "none" => from \notin old
        BY <2>2 DEF OldRests, Busy
    <2>4. OldRests'
        BY <2>1, <2>3 DEF OldRests
    <2>5. CallWaits'
        BY <2>1 DEF CallWaits
    <2>6. Rests'
        BY <2>1, <2>3 DEF Rests, OldRests
    <2>7. \A n \in Messages : where[n] = "queued" => where'[n] = where[n]
        BY <2>1, <2>2
    <2>8. Untaken(queue)' /\ Untaken(stale)'
        BY <2>1, <2>7, ElementOfSeq, UntakenStays DEF QueuesOK, Untaken
    <2> QED BY <2>1, <2>4, <2>5, <2>6, <2>8 DEF QueuesOK
<1> QED BY <1>2, <1>3, <1>4, <1>5

-----------------------------------------------------------------------------
LEMMA Inductive == Spec => []IInv
<1>1. IInv /\ [Next]_vars => IInv'
    <2> SUFFICES ASSUME IInv, [Next]_vars
                 PROVE  IInv'
        OBVIOUS
    <2>1. Typed'
        BY TypePreserved DEF IInv
    <2>2. CASE UNCHANGED vars
        BY <2>2 DEF vars, message, connection, close, IInv, Typed, OldRests, CallWaits, Rests,
           QueuesOK, Untaken
    <2>3. ASSUME NEW m \in Messages, Arrive(m) \/ Take(m) \/ TakeStale(m) \/ Handle(m)
          PROVE  IInv'
        BY <2>1, <2>3, ArrivalPreserves, TakingPreserves, HandlingPreserves DEF IInv
    <2>4. CASE DiscardStale \/ Recycle \/ Lose \/ Reconnect
        BY <2>1, <2>4, OverflowPreserves DEF IInv
    <2>5. CASE \/ \E m \in Messages, who \in Callers : CloseByHandler(who, m)
               \/ CloseByClient \/ CloseDispatcher \/ Return
        BY <2>1, <2>5, ClosePreserves DEF IInv
    <2> QED BY <2>2, <2>3, <2>4, <2>5 DEF Next
<1> QED BY <1>1, InitHolds, PTL DEF Spec

\* When close() has returned, no queued message is left and no handler runs but
\* the one that called it, unless it cancelled an overflow task that had not
\* started (stream.py close, event_dispatcher.py close).
THEOREM QuietOnceClosed == Spec => []QuietAfterClose
<1>1. IInv => QuietAfterClose
    <2> SUFFICES ASSUME IInv, closing = "closed", overflow # "orphaned"
                 PROVE  queue = << >> /\ stale = << >> /\ InFlight(Messages \ {from}) = {}
        BY DEF QuietAfterClose
    <2>1. overflow = "none"
        BY DEF IInv, Rests
    <2> QED BY <2>1 DEF IInv, Rests, OldRests, InFlight
<1> QED BY <1>1, Inductive, PTL

-----------------------------------------------------------------------------
LEMMA InitLocks == Init => LocksOK
BY DEF Init, LocksOK, AtLock

\* A step that brings nobody to a lock and leaves the threads alone keeps the
\* locks, whoever leaves them.
LEMMA LocksStay ==
    ASSUME LocksOK, UNCHANGED <<symbol, threads>>,
           line' \in [Messages -> SUBSET Messages],
           \A m \in Messages : where'[m] \in {"waiting", "updating"} => where'[m] = where[m],
           \A m \in threads : where'[m] \in {"updating", "ended"},
           \A n \in Messages : line'[n] \subseteq line[n],
           \A m, n \in Messages :
             m \in line[n] /\ where'[m] \in {"waiting", "updating"} => m \in line'[n]
    PROVE  LocksOK'
<1>1. \A m \in Messages : AtLock(m)' => AtLock(m)
    BY DEF AtLock
<1>2. ASSUME NEW m \in Messages, where'[m] = "updating"
      PROVE  line'[m] = {m}
    <2>1. where[m] = "updating"
        BY <1>2
    <2>2. line[m] = {m}
        BY <2>1 DEF LocksOK
    <2>3. m \in line'[m] /\ line'[m] \subseteq {m}
        BY <1>2, <2>2
    <2> QED BY <2>3
<1>3. ASSUME NEW m \in Messages, NEW n \in Messages, m # n, symbol'[m] = symbol'[n],
             AtLock(m)', AtLock(n)'
      PROVE  m \in line'[n] \/ n \in line'[m]
    <2>1. AtLock(m) /\ AtLock(n) /\ symbol[m] = symbol[n]
        BY <1>1, <1>3
    <2>2. m \in line[n] \/ n \in line[m]
        BY <1>3, <2>1 DEF LocksOK
    <2>3. where'[m] \in {"waiting", "updating"} /\ where'[n] \in {"waiting", "updating"}
        BY <1>3 DEF AtLock
    <2> QED BY <2>2, <2>3
<1>4. /\ symbol' \in [Messages -> Symbols] /\ threads' \subseteq Messages
      /\ \A m \in threads' : where'[m] \in {"updating", "ended"}
    BY DEF LocksOK
<1>5. ASSUME NEW m \in Messages, AtLock(m)'
      PROVE  m \in line'[m]
    <2>1. AtLock(m) /\ where'[m] \in {"waiting", "updating"}
        BY <1>1, <1>5 DEF AtLock
    <2> QED BY <2>1 DEF LocksOK
<1> QED BY <1>2, <1>3, <1>4, <1>5 DEF LocksOK

\* The reader, a worker that takes a message, a handler that ends, the overflow
\* task once it has closed the dispatcher, the connection and the end of close().
LEMMA OthersKeepLocks ==
    ASSUME IInv, LocksOK,
           \/ \E m \in Messages : Arrive(m) \/ Take(m) \/ TakeStale(m) \/ Finish(m) \/ End(m)
           \/ Recycle \/ Lose \/ Reconnect \/ Return \/ UNCHANGED vars
    PROVE  LocksOK'
<1> USE DEF message, connection, close, Move
<1>1. UNCHANGED <<symbol, threads, line>>
    BY DEF Arrive, Ignore, Submit, Overflow, Refuse, Reads, Take, TakeStale, Finish, End,
       Recycle, Lose, Reconnect, Return, vars
<1>2. where \in [Messages -> Busy \cup Settled \cup {"new", "queued"}]
    BY DEF IInv, Typed
<1>3. ASSUME NEW m \in Messages, NEW step, where' = [where EXCEPT ![m] = step],
             step \notin {"waiting", "updating"}, where[m] \notin {"updating", "ended"}
      PROVE  LocksOK'
    <2>1. \A n \in Messages : where'[n] \in {"waiting", "updating"} => where'[n] = where[n]
        BY <1>2, <1>3
    <2>2. \A n \in threads : where'[n] \in {"updating", "ended"}
        BY <1>2, <1>3 DEF LocksOK
    <2> QED BY <1>1, <2>1, <2>2, LocksStay DEF LocksOK
<1>4. CASE where' = where
    BY <1>1, <1>4 DEF LocksOK, AtLock
<1>5. ASSUME NEW m \in Messages, Arrive(m)
      PROVE  LocksOK'
    <2>1. PICK step \in {"ignored", "queued", "overflowed", "refused"} :
            where[m] = "new" /\ where' = [where EXCEPT ![m] = step]
        BY <1>5 DEF Arrive, Ignore, Submit, Overflow, Refuse, Reads, Newest
    <2> QED BY <1>3, <2>1
<1>6. ASSUME NEW m \in Messages, Take(m)
      PROVE  LocksOK'
    <2>1. where[m] = "queued" /\ where' = [where EXCEPT ![m] = "calling"]
        <3>1. Untaken(queue) /\ queue # << >> /\ m = Head(queue)
              /\ where' = [where EXCEPT ![m] = "calling"]
            BY <1>6 DEF Take, IInv, QueuesOK
        <3>2. Len(queue) \in Nat /\ Len(queue) > 0 /\ Head(queue) = queue[1]
            BY <3>1 DEF Untaken
        <3> QED BY <3>1, <3>2 DEF Untaken
    <2> QED BY <1>3, <2>1
<1>7. ASSUME NEW m \in Messages, TakeStale(m)
      PROVE  LocksOK'
    <2>1. where[m] = "queued" /\ where' = [where EXCEPT ![m] = "calling"]
        <3>1. Untaken(stale) /\ stale # << >> /\ m = Head(stale)
              /\ where' = [where EXCEPT ![m] = "calling"]
            BY <1>7 DEF TakeStale, IInv, QueuesOK
        <3>2. Len(stale) \in Nat /\ Len(stale) > 0 /\ Head(stale) = stale[1]
            BY <3>1 DEF Untaken
        <3> QED BY <3>1, <3>2 DEF Untaken
    <2> QED BY <1>3, <2>1
<1>8. ASSUME NEW m \in Messages, Finish(m) \/ End(m)
      PROVE  LocksOK'
    <2>1. PICK step \in {"done", "ended"} :
            where[m] \in {"receiving", "cancelling"} /\ where' = [where EXCEPT ![m] = step]
        BY <1>8 DEF Finish, End
    <2> QED BY <1>3, <2>1
<1>9. CASE Return
    <2>1. \A m \in Messages : where'[m] = IF m = from THEN "receiving" ELSE where[m]
        BY <1>9 DEF Return
    <2>2. from \in Messages => where[from] = "closing"
        BY <1>9 DEF Return, IInv, CallWaits
    <2>3. \A n \in Messages : where'[n] \in {"waiting", "updating"} => where'[n] = where[n]
        BY <2>1
    <2>4. \A n \in threads : where'[n] \in {"updating", "ended"}
        BY <2>1, <2>2 DEF LocksOK
    <2> QED BY <1>1, <2>3, <2>4, LocksStay DEF LocksOK
<1>10. CASE Recycle \/ Lose \/ Reconnect \/ UNCHANGED vars
    <2>1. where' = where
        BY <1>10 DEF Recycle, Lose, Reconnect, vars
    <2> QED BY <1>4, <2>1
<1> QED BY <1>5, <1>6, <1>7, <1>8, <1>9, <1>10

\* A message asks for the lock, takes it, or its thread returns.
LEMMA LockingKeepsLocks ==
    ASSUME IInv, LocksOK, NEW m \in Messages, Ask(m) \/ Lock(m) \/ Updated(m)
    PROVE  LocksOK'
<1> USE DEF message, connection, close, Move
<1>1. /\ symbol \in [Messages -> Symbols] /\ line \in [Messages -> SUBSET Messages]
      /\ threads \subseteq Messages
      /\ where \in [Messages -> Busy \cup Settled \cup {"new", "queued"}]
    BY DEF IInv, Typed, LocksOK
<1>2. CASE Ask(m)
    <2>1. /\ where[m] = "calling" /\ where' = [where EXCEPT ![m] = "waiting"]
          /\ line' = [line EXCEPT ![m] = {n \in Messages : symbol[n] = symbol[m] /\ n \in line[n]} \cup {m}]
          /\ UNCHANGED <<symbol, threads>>
        BY <1>2 DEF Ask, AtLock
    <2>2. line' \in [Messages -> SUBSET Messages]
        BY <1>1, <2>1
    <2>3. \A n \in threads : where'[n] \in {"updating", "ended"}
        BY <1>1, <2>1 DEF LocksOK
    <2>4. \A n \in Messages : where'[n] = "updating" => line'[n] = {n}
        BY <1>1, <2>1 DEF LocksOK
    <2>5. ASSUME NEW n \in Messages, NEW o \in Messages, n # o, symbol'[n] = symbol'[o],
                 AtLock(n)', AtLock(o)'
          PROVE  n \in line'[o] \/ o \in line'[n]
        <3>1. CASE n # m /\ o # m
            <4>1. AtLock(n) /\ AtLock(o) /\ line'[n] = line[n] /\ line'[o] = line[o]
                BY <1>1, <2>1, <2>5, <3>1 DEF AtLock
            <4> QED BY <2>1, <2>5, <4>1 DEF LocksOK
        <3>2. CASE n = m
            <4>1. AtLock(o)
                BY <1>1, <2>1, <2>5, <3>2 DEF AtLock
            <4>2. o \in line[o] /\ symbol[o] = symbol[m]
                BY <2>1, <2>5, <3>2, <4>1 DEF LocksOK
            <4> QED BY <1>1, <2>1, <3>2, <4>2
        <3>3. CASE o = m
            <4>1. AtLock(n)
                BY <1>1, <2>1, <2>5, <3>3 DEF AtLock
            <4>2. n \in line[n] /\ symbol[n] = symbol[m]
                BY <2>1, <2>5, <3>3, <4>1 DEF LocksOK
            <4> QED BY <1>1, <2>1, <3>3, <4>2
        <3> QED BY <3>1, <3>2, <3>3
    <2>6. symbol' \in [Messages -> Symbols] /\ threads' \subseteq Messages
        BY <1>1, <2>1
    <2>7. \A n \in threads' : where'[n] \in {"updating", "ended"}
        BY <2>1, <2>3
    <2>8. ASSUME NEW n \in Messages, AtLock(n)'
          PROVE  n \in line'[n]
        <3>1. n = m \/ AtLock(n)
            BY <1>1, <2>1, <2>8 DEF AtLock
        <3>2. n = m \/ (n \in line[n] /\ n # m)
            BY <3>1 DEF LocksOK
        <3> QED BY <1>1, <2>1, <3>2
    <2> QED BY <2>2, <2>4, <2>5, <2>6, <2>7, <2>8 DEF LocksOK
<1>3. CASE Lock(m)
    <2>1. /\ where[m] = "waiting" /\ where' = [where EXCEPT ![m] = "updating"]
          /\ line[m] = {m} /\ threads' = threads \cup {m} /\ UNCHANGED <<symbol, line>>
        BY <1>3 DEF Lock, Holds
    <2>2. \A n \in Messages : AtLock(n)' => AtLock(n)
        BY <1>1, <2>1 DEF AtLock
    <2>3. \A n \in threads' : where'[n] \in {"updating", "ended"}
        BY <1>1, <2>1 DEF LocksOK
    <2>4. \A n \in Messages : where'[n] = "updating" => line'[n] = {n}
        BY <1>1, <2>1 DEF LocksOK
    <2> QED BY <1>1, <2>1, <2>2, <2>3, <2>4 DEF LocksOK
<1>4. CASE Updated(m)
    <2>1. m \in threads /\ threads' = threads \ {m} /\ UNCHANGED symbol
        BY <1>4 DEF Updated
    <2>2. CASE where[m] = "updating"
        <3>1. /\ where' = [where EXCEPT ![m] = "receiving"]
              /\ line' = [n \in Messages |-> line[n] \ {m}]
            BY <1>4, <2>2 DEF Updated, Release
        <3>2. \A n \in Messages : AtLock(n)' => AtLock(n) /\ n # m /\ where'[n] = where[n]
            BY <1>1, <3>1 DEF AtLock
        <3>3. \A n \in threads' : where'[n] \in {"updating", "ended"}
            BY <1>1, <2>1, <3>1 DEF LocksOK
        <3>4. ASSUME NEW n \in Messages, where'[n] = "updating"
              PROVE  line'[n] = {n}
            <4>1. where[n] = "updating" /\ n # m
                BY <3>2, <3>4 DEF AtLock
            <4>2. line[n] = {n}
                BY <4>1 DEF LocksOK
            <4> QED BY <3>1, <4>1, <4>2
        <3>5. ASSUME NEW n \in Messages, NEW o \in Messages, n # o, symbol'[n] = symbol'[o],
                     AtLock(n)', AtLock(o)'
              PROVE  n \in line'[o] \/ o \in line'[n]
            <4>1. AtLock(n) /\ AtLock(o) /\ n # m /\ o # m /\ symbol[n] = symbol[o]
                BY <2>1, <3>2, <3>5
            <4>2. n \in line[o] \/ o \in line[n]
                BY <3>5, <4>1 DEF LocksOK
            <4> QED BY <3>1, <4>1, <4>2
        <3>6. /\ symbol' \in [Messages -> Symbols] /\ threads' \subseteq Messages
              /\ line' \in [Messages -> SUBSET Messages]
            BY <1>1, <2>1, <3>1
        <3>7. \A n \in Messages : AtLock(n)' => n \in line'[n]
            BY <3>1, <3>2 DEF LocksOK
        <3> QED BY <3>3, <3>4, <3>5, <3>6, <3>7 DEF LocksOK
    <2>3. CASE where[m] # "updating"
        <3>1. UNCHANGED <<where, line, symbol>>
            BY <1>4, <2>3 DEF Updated
        <3> QED BY <1>1, <2>1, <3>1 DEF LocksOK, AtLock
    <2> QED BY <2>2, <2>3
<1> QED BY <1>2, <1>3, <1>4

\* A cancelled coroutine gives up the lock it holds and its place in the queue
\* for it; its thread, if it has one, goes on.
LEMMA CancellingKeepsLocks ==
    ASSUME IInv, LocksOK, NEW cancelled \in SUBSET Messages, UNCHANGED <<symbol, threads>>,
           Release(cancelled),
           \A m \in Messages :
             \/ where[m] \in {"queued", "receiving"} /\ where'[m] \in {"drained", "closing"}
             \/ m \in cancelled /\ where'[m] = Stopped(where[m])
             \/ m \notin cancelled /\ where'[m] = where[m]
    PROVE  LocksOK'
<1>1. /\ line \in [Messages -> SUBSET Messages]
      /\ threads \subseteq Messages
      /\ \A m \in Messages : where[m] \in Busy \cup Settled \cup {"new", "queued"}
    BY DEF IInv, Typed, LocksOK
<1>2. line' = [n \in Messages |-> line[n] \ cancelled]
    BY DEF Release
<1>3. \A m \in Messages : Stopped(where[m]) \notin {"waiting", "updating"}
    BY <1>1 DEF Stopped, Busy, Settled
<1>4. \A m \in Messages :
        where'[m] \in {"waiting", "updating"} => m \notin cancelled /\ where'[m] = where[m]
    BY <1>3
<1>5. \A m \in threads : where'[m] \in {"updating", "ended"}
    BY <1>1 DEF Stopped, LocksOK
<1>6. \A n \in Messages : line'[n] \subseteq line[n]
    BY <1>2
<1>7. \A m, n \in Messages :
        m \in line[n] /\ where'[m] \in {"waiting", "updating"} => m \in line'[n]
    BY <1>2, <1>4
<1>8. line' \in [Messages -> SUBSET Messages]
    BY <1>1, <1>2
<1> QED BY <1>4, <1>5, <1>6, <1>7, <1>8, LocksStay

\* What closes a dispatcher: the overflow task and the two parts of close().
LEMMA ClosingKeepsLocks ==
    ASSUME IInv, LocksOK,
           \/ \E m \in Messages, who \in Callers : CloseByHandler(who, m)
           \/ CloseByClient \/ CloseDispatcher \/ DiscardStale
    PROVE  LocksOK'
<1> USE DEF message, connection, close, Move
<1>1. old \subseteq Messages
    BY DEF IInv, Typed
<1>2. PICK fresh : fresh = Messages \ old
    OBVIOUS
<1>3. ASSUME NEW m \in Messages, NEW who \in Callers, CloseByHandler(who, m)
      PROVE  LocksOK'
    <2>1. /\ where[m] = "receiving" /\ Release(fresh) /\ UNCHANGED <<symbol, threads>>
          /\ \A n \in Messages : where'[n] =
               IF n = m THEN "closing" ELSE IF n \in old THEN where[n] ELSE Stopped(where[n])
        BY <1>2, <1>3 DEF CloseByHandler, Call
    <2> QED BY <1>2, <2>1, CancellingKeepsLocks
<1>4. CASE CloseByClient
    <2>1. /\ Release(fresh) /\ UNCHANGED <<symbol, threads>>
          /\ \A n \in Messages : where'[n] = IF n \in old THEN where[n] ELSE Stopped(where[n])
        BY <1>2, <1>4 DEF CloseByClient, Call
    <2> QED BY <1>2, <2>1, CancellingKeepsLocks
<1>5. CASE CloseDispatcher
    <2>1. /\ Release(fresh) /\ UNCHANGED <<symbol, threads>>
          /\ \A n \in Messages : where'[n] =
               IF n \in ToSet(queue) THEN "drained"
               ELSE IF n \in fresh THEN Stopped(where[n]) ELSE where[n]
        BY <1>2, <1>5 DEF CloseDispatcher, Discard
    <2>2. \A n \in ToSet(queue) : where[n] = "queued"
        BY DEF ToSet, IInv, QueuesOK, Untaken
    <2> QED BY <1>2, <2>1, <2>2, CancellingKeepsLocks
<1>6. CASE DiscardStale
    <2>1. /\ Release(old) /\ UNCHANGED <<symbol, threads>>
          /\ \A n \in Messages : where'[n] =
               IF n \in ToSet(stale) THEN "drained"
               ELSE IF n \in old THEN Stopped(where[n]) ELSE where[n]
        BY <1>6 DEF DiscardStale, Discard
    <2>2. \A n \in ToSet(stale) : where[n] = "queued"
        BY DEF ToSet, IInv, QueuesOK, Untaken
    <2> QED BY <1>1, <2>1, <2>2, CancellingKeepsLocks
<1> QED BY <1>3, <1>4, <1>5, <1>6

\* Two threads update the book of one symbol at a time only where a worker was
\* cancelled and left its thread behind (handlers/orderbook.py receiveDispatch).
THEOREM UpdatesNeverMeet == Spec => []UpdatesExclude
<1>1. IInv /\ LocksOK /\ [Next]_vars => LocksOK'
    <2> SUFFICES ASSUME IInv, LocksOK, [Next]_vars
                 PROVE  LocksOK'
        OBVIOUS
    <2>1. ASSUME NEW m \in Messages, Arrive(m) \/ Take(m) \/ TakeStale(m) \/ Handle(m)
          PROVE  LocksOK'
        BY <2>1, OthersKeepLocks, LockingKeepsLocks DEF Handle
    <2>2. CASE \/ \E m \in Messages, who \in Callers : CloseByHandler(who, m)
               \/ CloseByClient \/ CloseDispatcher \/ DiscardStale
        BY <2>2, ClosingKeepsLocks
    <2>3. CASE Recycle \/ Lose \/ Reconnect \/ Return \/ UNCHANGED vars
        BY <2>3, OthersKeepLocks
    <2> QED BY <2>1, <2>2, <2>3 DEF Next
<1>2. LocksOK => UpdatesExclude
    <2> SUFFICES ASSUME LocksOK, NEW m \in threads, NEW n \in threads,
                        m # n, symbol[m] = symbol[n], "ended" \notin {where[m], where[n]}
                 PROVE  FALSE
        BY DEF UpdatesExclude
    <2>1. m \in Messages /\ n \in Messages /\ where[m] = "updating" /\ where[n] = "updating"
        BY DEF LocksOK
    <2>2. line[m] = {m} /\ line[n] = {n} /\ (m \in line[n] \/ n \in line[m])
        BY <2>1 DEF LocksOK, AtLock
    <2> QED BY <2>2
<1> QED BY <1>1, <1>2, InitLocks, Inductive, PTL DEF Spec
=============================================================================

---------------------------- MODULE ApiCallsProofs ----------------------------
(***************************************************************************)
(* Proofs about module ApiCalls, for any number of callers, markets,       *)
(* faults and arguments: a caller is refused once, and not again, for a    *)
(* clock that was off (-1021) and for a session that ended (-2015); and    *)
(* what it is charged covers what the exchange counts for its request.     *)
(*                                                                         *)
(* On refusals, the invariant says what a caller who was refused has to    *)
(* show for it.  Either its answer is still on the way, and then nothing   *)
(* it sent can be refused once more; or the client was told, and then      *)
(* _time_synced is down until some call has put the clock right, or        *)
(* _ws_api_authenticated is down until a logon that the server has         *)
(* accepted is answered.  On weights, every row of the tables is one of a  *)
(* few kinds, each with an argument of its own, and a call that is past    *)
(* its validation was passed by them.                                      *)
(***************************************************************************)
EXTENDS ApiCalls, TLAPS, SequenceTheorems, FiniteSetTheorems

\* Every call there is; what of it the proofs look at is one security tier.
Whats == UNION {SpotCalls, UmCalls, CmCalls, SignedCalls, SessionCalls, {NoCall}}
CallRecord == [at : Stages, what : Whats, timing : BOOLEAN, auth : Auths, stamp : Stamps,
               raised : Raised]

\* The variables the proofs look at, and their types.

Typed ==
    /\ synced \in BOOLEAN /\ skewed \in BOOLEAN /\ authenticated \in BOOLEAN
    /\ session \in BOOLEAN
    /\ market \in Clients /\ key \in Keys
    /\ call \in [Callers -> CallRecord]
    /\ hookStamp \in Stamps /\ wire \in Seq(Frames) /\ refused \in [Codes -> Nat]

Mine == call[Watched]
Signed == RequiresSignature(Mine.what.row.security)

\* The watched caller has one frame on the wire at most, and it is what it sent.
FramesOK ==
    /\ Mine.at = "idle" => Mine.stamp = "none" /\ ~Mine.timing
    /\ Mine.timing => Mine.stamp = "none" /\ Mine.auth = "none"
    /\ \A i \in 1..Len(wire) :
          /\ wire[i].from = Logon => ~wire[i].logout
          /\ wire[i].from = Watched =>
                Mine.at = "sent" /\ wire[i].stamp = Mine.stamp /\ wire[i].auth = Mine.auth
    /\ \A i, j \in 1..Len(wire) :
          /\ wire[i].from = Watched /\ wire[j].from = Watched => i = j
          /\ i < j /\ wire[i].answer = "none" => wire[j].answer = "none"

\* The refusal is on its way to the watched caller.
Told(code) ==
    /\ Mine.at = "sent" /\ ~Mine.timing
    /\ \A i \in 1..Len(wire) : wire[i].from = Watched => wire[i].answer = code

ClockOK ==
    /\ refused["-1021"] <= 1
    /\ refused["-1021"] = 1 =>
          \/ Told("-1021")
          \/ Mine.stamp # "wrong" /\ (~skewed \/ (~synced /\ (Mine.at = "idle" \/ Mine.timing \/ ~Signed)))

Accepted(i) == wire[i].from = Logon /\ wire[i].answer = "ok"

SessionOK ==
    /\ refused["-2015"] <= 1
    /\ refused["-2015"] = 1 =>
          \/ session
          \/ /\ Told("-2015")
             /\ \A i, j \in 1..Len(wire) : wire[i].from = Watched /\ Accepted(j) => j < i
          \/ ~authenticated /\ Mine.auth # "session" /\ \A i \in 1..Len(wire) : ~Accepted(i)

Good == FramesOK /\ ClockOK /\ SessionOK
IInv == Typed /\ Good

-----------------------------------------------------------------------------
(* Building a request *)

LEMMA Names ==
    /\ Watched \in Callers /\ Logon \notin Callers /\ Nobody \notin Callers
    /\ Logon # Watched /\ Nobody # Watched /\ Logon # Nobody
BY ApiCallsAssumption DEF Watched, Logon, Nobody

LEMMA IdleTyped ==
    /\ Idle \in CallRecord /\ Idle.at = "idle" /\ ~Idle.timing /\ Idle.stamp = "none" /\ Idle.auth = "none"
    /\ \A e \in Raised : /\ Raise(e) \in CallRecord /\ Raise(e).at = "idle" /\ ~Raise(e).timing
                         /\ Raise(e).stamp = "none" /\ Raise(e).auth = "none"
BY DEF Idle, CallRecord, Stages, Auths, Stamps, Raised, Raise, Whats

LEMMA OfferedIs == ASSUME Typed, NEW c \in Callers PROVE Offered(c) \subseteq Whats
<1>1. market \in {"spot", "um", "cm"}
    BY ApiCallsAssumption DEF Typed, Markets, Registry
<1> QED BY <1>1 DEF Offered, Whats

\* What has no signature has no timestamp either.
LEMMA AuthIs ==
    ASSUME NEW row, NEW s \in Stamps
    PROVE  /\ Auth(row) \in Auths
           /\ (IF Auth(row) \in {"session", "signature"} THEN s ELSE "none") \in {s, "none"}
           /\ ~RequiresSignature(row.security) => Auth(row) \in {"none", "api_key"}
           /\ ~authenticated => Auth(row) # "session"
BY DEF Auth, Auths

LEMMA ComposedIs ==
    ASSUME NEW x \in CallRecord, NEW s \in Stamps
    PROVE  LET y == Composed(x, s)
           IN  /\ y \in CallRecord /\ y.at = x.at /\ y.timing = x.timing /\ y.what = x.what
               /\ y.stamp \in {s, "none"}
               /\ ~RequiresSignature(x.what.row.security) => y.stamp = "none"
               /\ ~authenticated => y.auth # "session"
<1>1. Auth(x.what.row) \in Auths
    BY AuthIs
<1>2. "none" \in Stamps
    BY DEF Stamps
<1> QED BY <1>1, <1>2, AuthIs DEF Composed, CallRecord

LEMMA ToLimiterIs ==
    ASSUME NEW x \in CallRecord, NEW s \in Stamps, x.stamp = "none", x.auth = "none"
    PROVE  LET y == ToLimiter(x, s)
           IN  /\ y \in CallRecord /\ y.at = "limiter" /\ ~y.timing /\ y.what = x.what
               /\ y.stamp \in {s, "none"}
               /\ ~RequiresSignature(x.what.row.security) => y.stamp = "none"
               /\ ~authenticated => y.auth # "session"
<1> DEFINE z == [x EXCEPT !.at = "limiter", !.timing = FALSE]
<1>1. /\ z \in CallRecord /\ z.at = "limiter" /\ ~z.timing /\ z.what = x.what
      /\ z.stamp = "none" /\ z.auth = "none"
    BY DEF CallRecord, Stages
<1>2. ToLimiter(x, s) \in {z, Composed(z, s)}
    BY DEF ToLimiter
<1> HIDE DEF z
<1> QED BY <1>1, <1>2, ComposedIs

\* A call that starts raises, asks for the time, or is on its way to the limiter;
\* a signed one goes there without asking only while the clock is taken to be right.
LEMMA StartedIs ==
    ASSUME NEW d \in Whats, Typed
    PROVE  LET y == Started(d)
           IN  /\ y \in CallRecord /\ (~authenticated => y.auth # "session")
               /\ \/ y.at = "idle" /\ ~y.timing /\ y.stamp = "none"
                  \/ y.at = "limiter" /\ y.timing /\ y.stamp = "none" /\ y.auth = "none"
                  \/ /\ y.at = "limiter" /\ ~y.timing /\ y.stamp \in {Stamp, "none"}
                     /\ RequiresSignature(y.what.row.security) => synced
                     /\ ~RequiresSignature(y.what.row.security) => y.stamp = "none"
<1> DEFINE x == [Idle EXCEPT !.what = d]
           t == [x EXCEPT !.at = "limiter", !.timing = TRUE]
<1>1. x \in CallRecord /\ x.stamp = "none" /\ x.auth = "none" /\ x.what = d
    BY IdleTyped DEF CallRecord, Idle
<1>2. t \in CallRecord /\ t.at = "limiter" /\ t.timing /\ t.stamp = "none" /\ t.auth = "none"
    BY <1>1 DEF CallRecord, Stages
<1>3. Stamp \in Stamps
    BY DEF Stamp, Stamps
<1>4. \/ \E e \in Raised : Started(d) = Raise(e)
      \/ Started(d) = t
      \/ Started(d) = ToLimiter(x, Stamp) /\ (RequiresSignature(d.row.security) => synced)
    BY DEF Started, Raised
<1> HIDE DEF x, t
<1> QED BY <1>1, <1>2, <1>3, <1>4, IdleTyped, ToLimiterIs

LEMMA FrameIs ==
    ASSUME NEW c \in Callers, call[c] \in CallRecord
    PROVE  /\ Frame(c) \in Frames /\ Frame(c).from = c /\ Frame(c).answer = "none"
           /\ IF call[c].timing THEN Frame(c).stamp = "none" /\ Frame(c).auth = "none"
              ELSE Frame(c).stamp = call[c].stamp /\ Frame(c).auth = call[c].auth
BY DEF Frame, Frames, CallRecord, Auths, Stamps

-----------------------------------------------------------------------------
(* Typing *)

LEMMA Answers == "ok" \in {"none", "ok", "-1021", "-2015"} /\ \A f : ServerAnswer(f) \in {"ok", "-1021", "-2015"}
BY DEF ServerAnswer

LEMMA CallMoves ==
    ASSUME Typed, NEW c \in Callers, NEW y \in CallRecord, call' = [call EXCEPT ![c] = y]
    PROVE  /\ call' \in [Callers -> CallRecord] /\ call'[c] = y
           /\ \A d \in Callers : d # c => call'[d] = call[d]
BY DEF Typed

LEMMA PlaceMoves ==
    ASSUME Typed, NEW c \in Callers, NEW place \in Stages, call' = [call EXCEPT ![c].at = place]
    PROVE  /\ call' \in [Callers -> CallRecord]
           /\ call'[c].at = place /\ call'[c].stamp = call[c].stamp /\ call'[c].auth = call[c].auth
           /\ call'[c].timing = call[c].timing /\ call'[c].what = call[c].what
           /\ \A d \in Callers : d # c => call'[d] = call[d]
BY DEF Typed, CallRecord

LEMMA Refusals ==
    ASSUME Typed
    PROVE  /\ \A from, answer, stamp : NoteRefusal(from, answer, stamp) =>
                /\ refused' \in [Codes -> Nat]
                /\ \A code \in Codes :
                      refused'[code] = IF from = Watched /\ stamp # "late" /\ answer = code
                                       THEN refused[code] + 1 ELSE refused[code]
           /\ \A callers, codes : Forgive(callers, codes) =>
                /\ refused' \in [Codes -> Nat]
                /\ \A code \in Codes :
                      refused'[code] = IF Watched \in callers \/ code \in codes THEN 0 ELSE refused[code]
BY DEF Typed, NoteRefusal, Forgive, Codes

LEMMA OrphanIs ==
    ASSUME Typed, NEW who
    PROVE  /\ Orphan(who) \in Seq(Frames) /\ Len(Orphan(who)) = Len(wire)
           /\ \A i \in 1..Len(wire) :
                 /\ Orphan(who)[i].from = (IF wire[i].from = who THEN Nobody ELSE wire[i].from)
                 /\ Orphan(who)[i].stamp = wire[i].stamp /\ Orphan(who)[i].auth = wire[i].auth
                 /\ Orphan(who)[i].answer = wire[i].answer /\ Orphan(who)[i].logout = wire[i].logout
<1>1. wire \in Seq(Frames) /\ Len(wire) \in Nat /\ DOMAIN wire = 1..Len(wire)
    BY LenProperties DEF Typed
<1>2. \A i \in 1..Len(wire) : wire[i] \in Frames
    BY <1>1, ElementOfSeq
<1>3. \A i \in 1..Len(wire) : [wire[i] EXCEPT !.from = Nobody] \in Frames
    BY <1>2 DEF Frames
<1>4. Orphan(who) = [i \in 1..Len(wire) |-> IF wire[i].from = who THEN [wire[i] EXCEPT !.from = Nobody]
                                            ELSE wire[i]]
    BY <1>1 DEF Orphan
<1>5. Orphan(who) \in [1..Len(wire) -> Frames]
    BY <1>2, <1>3, <1>4
<1>6. Orphan(who) \in Seq(Frames) /\ Len(Orphan(who)) = Len(wire)
    BY <1>1, <1>5
<1>7. ASSUME NEW i \in 1..Len(wire)
      PROVE  /\ Orphan(who)[i].from = (IF wire[i].from = who THEN Nobody ELSE wire[i].from)
             /\ Orphan(who)[i].stamp = wire[i].stamp /\ Orphan(who)[i].auth = wire[i].auth
             /\ Orphan(who)[i].answer = wire[i].answer /\ Orphan(who)[i].logout = wire[i].logout
    <2>1. wire[i] \in Frames
        BY <1>2
    <2>2. Orphan(who)[i] = IF wire[i].from = who THEN [wire[i] EXCEPT !.from = Nobody] ELSE wire[i]
        BY <1>4
    <2> QED BY <2>1, <2>2 DEF Frames
<1> QED BY <1>6, <1>7

\* A frame is put at the end.
LEMMA AppendIs ==
    ASSUME Typed, NEW f \in Frames, wire' = Append(wire, f)
    PROVE  /\ wire' \in Seq(Frames) /\ Len(wire) \in Nat /\ Len(wire') = Len(wire) + 1
           /\ wire'[Len(wire) + 1] = f /\ \A i \in 1..Len(wire) : wire'[i] = wire[i]
<1>1. PICK S : S = Frames
    OBVIOUS
<1>2. wire \in Seq(S) /\ f \in S
    BY <1>1 DEF Typed
<1> QED BY <1>1, <1>2, AppendProperties, LenProperties

\* The first frame is taken off.
LEMMA TailIs ==
    ASSUME Typed, wire # <<>>, wire' = Tail(wire)
    PROVE  /\ wire' \in Seq(Frames) /\ Len(wire) \in Nat /\ Len(wire) >= 1 /\ Len(wire') = Len(wire) - 1
           /\ Head(wire) = wire[1] /\ \A i \in 1..Len(wire') : wire'[i] = wire[i + 1]
<1>1. PICK S : S = Frames
    OBVIOUS
<1>2. wire \in Seq(S)
    BY <1>1 DEF Typed
<1> QED BY <1>1, <1>2, HeadTailProperties, LenProperties

LEMMA CallerTyped ==
    ASSUME Typed, NEW c \in Callers,
           \/ Call(c) \/ PassLimiter(c) \/ LimiterRaises(c) \/ HeldUp(c) \/ PassRestLimiter(c)
           \/ ResponseTimeout(c) \/ RestAnswer(c) \/ RestFails(c)
    PROVE  Typed'
<1>1. call[c] \in CallRecord /\ Stamp \in Stamps
    BY DEF Typed, Stamp, Stamps
<1>2. Idle \in CallRecord /\ \A e \in Raised : Raise(e) \in CallRecord
    BY IdleTyped
<1>3. CASE Call(c)
    <2>1. PICK d \in Offered(c) : call' = [call EXCEPT ![c] = Started(d)]
        BY <1>3 DEF Call
    <2>2. Started(d) \in CallRecord
        BY OfferedIs, StartedIs
    <2>3. call' \in [Callers -> CallRecord]
        BY <2>1, <2>2, CallMoves
    <2> QED BY <1>3, <2>3 DEF Call, Typed, fixedVars, clockVars, connVars
<1>4. CASE PassLimiter(c)
    <2>1. Frame(c) \in Frames /\ {"sent", "socket"} \subseteq Stages
        BY <1>1, FrameIs DEF Stages
    <2>2. wire' \in Seq(Frames)
        BY <1>4, <2>1, AppendIs DEF PassLimiter, Typed
    <2>3. \/ \E place \in {"sent", "socket"} : call' = [call EXCEPT ![c].at = place]
          \/ call' = [call EXCEPT ![c] = Idle]
        BY <1>4 DEF PassLimiter
    <2>4. call' \in [Callers -> CallRecord]
        BY <1>2, <2>1, <2>3, CallMoves, PlaceMoves
    <2> QED BY <1>4, <2>2, <2>4 DEF PassLimiter, Typed, fixedVars, clockVars
<1>5. CASE LimiterRaises(c)
    <2>1. "RateLimitReached" \in Raised
        BY DEF Raised
    <2>2. call' \in [Callers -> CallRecord]
        BY <1>2, <1>5, <2>1, CallMoves DEF LimiterRaises
    <2> QED BY <1>5, <2>2 DEF LimiterRaises, Typed, fixedVars, clockVars, connVars
<1>6. CASE HeldUp(c)
    <2>1. call' \in [Callers -> CallRecord]
        BY <1>1, <1>6 DEF HeldUp, Typed, CallRecord, Stamps
    <2> QED BY <1>6, <2>1 DEF HeldUp, Typed, fixedVars, clockVars, connVars
<1>7. CASE PassRestLimiter(c)
    <2> DEFINE y == Composed(call[c], Stamp)
    <2>1. y \in CallRecord
        BY <1>1, ComposedIs
    <2>2. [y EXCEPT !.at = "http"] \in CallRecord
        BY <2>1 DEF CallRecord, Stages
    <2>3. call' = [call EXCEPT ![c] = Raise("ValueError")] \/ call' = [call EXCEPT ![c] = [y EXCEPT !.at = "http"]]
        BY <1>7 DEF PassRestLimiter
    <2>4. "ValueError" \in Raised
        BY DEF Raised
    <2> HIDE DEF y
    <2>5. call' \in [Callers -> CallRecord]
        BY <1>2, <2>2, <2>3, <2>4, CallMoves
    <2> QED BY <1>7, <2>5 DEF PassRestLimiter, Typed, fixedVars, clockVars, connVars
<1>8. CASE ResponseTimeout(c)
    <2>1. call' \in [Callers -> CallRecord]
        BY <1>2, <1>8, CallMoves DEF ResponseTimeout
    <2>2. wire' \in Seq(Frames) /\ refused' \in [Codes -> Nat]
        BY <1>8, OrphanIs, Refusals DEF ResponseTimeout
    <2> QED BY <1>8, <2>1, <2>2 DEF ResponseTimeout, Typed, fixedVars, clockVars
<1>9. CASE RestAnswer(c)
    <2>1. call' \in [Callers -> CallRecord]
        BY <1>2, <1>9, CallMoves DEF RestAnswer
    <2>2. refused' \in [Codes -> Nat] /\ synced' \in BOOLEAN
        BY <1>9, Refusals DEF RestAnswer, Typed
    <2> QED BY <1>9, <2>1, <2>2 DEF RestAnswer, Typed, fixedVars, connVars
<1>10. CASE RestFails(c)
    <2>1. call' \in [Callers -> CallRecord]
        BY <1>2, <1>10, CallMoves DEF RestFails
    <2> QED BY <1>10, <2>1 DEF RestFails, Typed, fixedVars, clockVars, connVars
<1> QED BY <1>3, <1>4, <1>5, <1>6, <1>7, <1>8, <1>9, <1>10

LEMMA OpenIs ==
    ASSUME Typed, Open
    PROVE  /\ wire' \in Seq(Frames) /\ Len(wire') \in Nat /\ call' \in [Callers -> CallRecord]
           /\ \A i \in 1..Len(wire') : \E c \in Callers : call[c].at = "socket" /\ wire'[i] = Frame(c)
           /\ \A i, j \in 1..Len(wire') : wire'[i].from = wire'[j].from => i = j
           /\ \A c \in Callers : call'[c] = IF call[c].at = "socket" THEN [call[c] EXCEPT !.at = "sent"]
                                            ELSE call[c]
<1> DEFINE parked == {c \in Callers : call[c].at = "socket"}
<1>1. PICK order \in SetToSeqs(parked) : wire' = [i \in DOMAIN order |-> Frame(order[i])]
    BY DEF Open
<1>2. PICK n : n = Cardinality(parked)
    OBVIOUS
<1>3. n \in Nat
    BY <1>2, ApiCallsAssumption, FS_Subset, FS_CardinalityType
<1>4. order \in [1..n -> parked] /\ \A i, j \in 1..n : i # j => order[i] # order[j]
    BY <1>1, <1>2 DEF SetToSeqs
<1>5. \A i \in 1..n : order[i] \in Callers /\ call[order[i]].at = "socket" /\ call[order[i]] \in CallRecord
    BY <1>4 DEF Typed
<1>6. wire' = [i \in 1..n |-> Frame(order[i])]
    BY <1>1, <1>4
<1>7. \A i \in 1..n : /\ wire'[i] = Frame(order[i]) /\ wire'[i] \in Frames /\ wire'[i].from = order[i]
    BY <1>5, <1>6, FrameIs
<1>8. wire' \in [1..n -> Frames]
    BY <1>6, <1>7
<1>9. wire' \in Seq(Frames) /\ Len(wire') = n
    BY <1>3, <1>8
<1>10. /\ \A i \in 1..Len(wire') : \E c \in Callers : call[c].at = "socket" /\ wire'[i] = Frame(c)
       /\ \A i, j \in 1..Len(wire') : wire'[i].from = wire'[j].from => i = j
    BY <1>4, <1>5, <1>7, <1>9
<1>11. call' = [c \in Callers |-> IF c \in parked THEN [call[c] EXCEPT !.at = "sent"] ELSE call[c]]
    BY DEF Open
<1>12. \A c \in Callers : /\ call[c] \in CallRecord /\ [call[c] EXCEPT !.at = "sent"] \in CallRecord
    BY DEF Typed, CallRecord, Stages
<1>13. /\ call' \in [Callers -> CallRecord]
       /\ \A c \in Callers : call'[c] = IF call[c].at = "socket" THEN [call[c] EXCEPT !.at = "sent"]
                                        ELSE call[c]
    BY <1>11, <1>12
<1> QED BY <1>3, <1>9, <1>10, <1>13

LEMMA LostIs ==
    ASSUME Typed, Lost
    PROVE  /\ wire' = <<>> /\ Len(wire') = 0 /\ session' = FALSE /\ call' \in [Callers -> CallRecord]
           /\ Mine' = IF Mine.at = "sent" THEN Idle ELSE Mine
           /\ refused' \in [Codes -> Nat] /\ refused'["-2015"] = 0
           /\ refused'["-1021"] = IF Mine.at = "sent" THEN 0 ELSE refused["-1021"]
           /\ UNCHANGED <<fixedVars, clockVars, authenticated>> /\ hookStamp' = "none"
<1>1. call' = [c \in Callers |-> IF call[c].at = "sent" THEN Idle ELSE call[c]]
    BY DEF Lost
<1>2. call' \in [Callers -> CallRecord] /\ Mine' = IF Mine.at = "sent" THEN Idle ELSE Mine
    BY <1>1, IdleTyped, Names DEF Typed, Mine
<1>3. /\ refused' \in [Codes -> Nat] /\ refused'["-2015"] = 0
      /\ refused'["-1021"] = IF Mine.at = "sent" THEN 0 ELSE refused["-1021"]
    BY Refusals, Names DEF Lost, Codes, Mine
<1> QED BY <1>2, <1>3 DEF Lost

LEMMA ToLimiterTyped ==
    ASSUME NEW x \in CallRecord, NEW s \in Stamps PROVE ToLimiter(x, s) \in CallRecord
<1> DEFINE z == [x EXCEPT !.at = "limiter", !.timing = FALSE]
<1>1. z \in CallRecord
    BY DEF CallRecord, Stages
<1>2. ToLimiter(x, s) \in {z, Composed(z, s)}
    BY DEF ToLimiter
<1> HIDE DEF z
<1> QED BY <1>1, <1>2, ComposedIs

\* An answer reaches the hook, a caller, or nobody.
LEMMA DeliverIs ==
    ASSUME Typed, Deliver
    PROVE  /\ wire # <<>> /\ wire' = Tail(wire) /\ wire[1] \in Frames /\ wire[1].answer # "none"
           /\ UNCHANGED <<fixedVars, hookStamp, session, refused>>
           /\ \/ /\ wire[1].from = Logon /\ call' = call /\ UNCHANGED clockVars
                 /\ authenticated' = IF wire[1].answer = "ok" THEN TRUE ELSE authenticated
              \/ wire[1].from = Nobody /\ call' = call /\ UNCHANGED <<clockVars, authenticated>>
              \/ /\ wire[1].from \in Callers /\ call[wire[1].from].timing
                 /\ synced' = TRUE /\ skewed' = FALSE /\ authenticated' = authenticated
                 /\ call' = [call EXCEPT ![wire[1].from] = ToLimiter(call[wire[1].from], "right")]
              \/ /\ wire[1].from \in Callers /\ ~call[wire[1].from].timing
                 /\ synced' = (synced /\ wire[1].answer # "-1021") /\ skewed' = skewed
                 /\ authenticated' \in BOOLEAN
                 /\ authenticated' => authenticated /\ wire[1].answer # "-2015"
                 /\ call' = [call EXCEPT ![wire[1].from] = Idle]
<1>1. wire \in Seq(Frames) /\ wire # <<>>
    BY DEF Deliver, Typed
<1>2. Head(wire) = wire[1] /\ wire[1] \in Frames
    BY <1>1, ElementOfSeq, LenProperties
<1>3. wire[1].from \in Callers \union {Logon, Nobody}
    BY <1>2 DEF Frames
<1>4. wire' = Tail(wire) /\ wire[1].answer # "none" /\ UNCHANGED <<fixedVars, hookStamp, session, refused>>
    BY <1>2 DEF Deliver
<1>5. CASE wire[1].from = Logon
    BY <1>1, <1>2, <1>4, <1>5, Names DEF Deliver, LogonAnswered
<1>6. CASE wire[1].from = Nobody
    BY <1>1, <1>2, <1>4, <1>6, Names DEF Deliver, clockVars
<1>7. CASE wire[1].from \in Callers
    <2>1. Answered(wire[1].from, wire[1].answer)
        BY <1>2, <1>7, Names DEF Deliver
    <2> QED BY <1>1, <1>2, <1>4, <1>7, <2>1 DEF Answered
<1> QED BY <1>3, <1>5, <1>6, <1>7

\* One frame is answered, the oldest that is not.
LEMMA ServeIs ==
    ASSUME Typed, Serve
    PROVE  /\ wire' \in Seq(Frames) /\ Len(wire') = Len(wire) /\ Len(wire) \in Nat
           /\ UNCHANGED <<fixedVars, clockVars, authenticated, call, hookStamp>>
           /\ session' \in BOOLEAN /\ refused' \in [Codes -> Nat]
           /\ \E i \in 1..Len(wire) :
                 /\ wire[i].answer = "none" /\ \A j \in 1..(i - 1) : wire[j].answer # "none"
                 /\ \A j \in 1..Len(wire) : j # i => wire'[j] = wire[j]
                 /\ wire'[i].from = wire[i].from /\ wire'[i].stamp = wire[i].stamp
                 /\ wire'[i].auth = wire[i].auth /\ wire'[i].logout = wire[i].logout
                 /\ wire'[i].answer \in {"ok", "-1021", "-2015"}
                 /\ wire'[i].answer = "-1021" => RejectsTimestamp(wire[i].stamp)
                 /\ wire'[i].answer = "-2015" => wire[i].from = Logon \/ (wire[i].auth = "session" /\ ~session)
                 /\ session' = ((session \/ Accepted(i)') /\ ~wire[i].logout)
                 /\ \/ ~wire[i].logout \/ ~session
                    \/ refused'["-2015"] = 0 /\ refused'["-1021"] = refused["-1021"]
                 /\ \A code \in Codes :
                       \/ refused'[code] = 0 /\ code = "-2015"
                       \/ refused'[code] = refused[code]
                       \/ /\ refused'[code] = refused[code] + 1 /\ wire[i].from = Watched
                          /\ wire[i].stamp # "late" /\ wire'[i].answer = code
<1>1. wire \in Seq(Frames) /\ Len(wire) \in Nat /\ DOMAIN wire = 1..Len(wire)
    BY LenProperties DEF Typed
<1>2. PICK i \in DOMAIN wire, denied \in BOOLEAN :
          /\ wire[i].answer = "none"
          /\ \A j \in 1..(i - 1) : wire[j].answer # "none"
          /\ LET f == wire[i]
                 answer == IF denied THEN "-2015" ELSE ServerAnswer(f)
             IN  /\ IF denied THEN Fault /\ f.auth = "signature" /\ f.from = Logon
                    ELSE UNCHANGED faults
                 /\ wire' = [wire EXCEPT ![i].answer = answer]
                 /\ session' = ((session \/ (f.from = Logon /\ answer = "ok")) /\ ~f.logout)
                 /\ IF f.logout /\ session THEN Forgive({}, {"-2015"})
                    ELSE NoteRefusal(f.from, answer, f.stamp)
          /\ UNCHANGED <<fixedVars, clockVars, authenticated, call, conn, hook, hookStamp,
                         recycling>>
    BY DEF Serve
<1>3. PICK answer : answer = IF denied THEN "-2015" ELSE ServerAnswer(wire[i])
    OBVIOUS
<1>4. wire[i] \in Frames /\ answer \in {"ok", "-1021", "-2015"}
    BY <1>1, <1>3, Answers, ElementOfSeq
<1>5. [wire[i] EXCEPT !.answer = answer] \in Frames
    BY <1>4 DEF Frames
<1>6. wire' = [wire EXCEPT ![i] = [wire[i] EXCEPT !.answer = answer]]
    BY <1>2, <1>3
<1>7. wire' \in Seq(Frames) /\ Len(wire') = Len(wire)
    BY <1>1, <1>5, <1>6, ExceptSeq
<1>8. /\ \A j \in 1..Len(wire) : j # i => wire'[j] = wire[j]
      /\ wire'[i] = [wire[i] EXCEPT !.answer = answer]
    BY <1>1, <1>6
<1>9. /\ wire'[i].from = wire[i].from /\ wire'[i].stamp = wire[i].stamp /\ wire'[i].auth = wire[i].auth
      /\ wire'[i].logout = wire[i].logout /\ wire'[i].answer = answer
    BY <1>4, <1>8 DEF Frames
<1>10. /\ answer = "-1021" => RejectsTimestamp(wire[i].stamp)
       /\ answer = "-2015" => wire[i].from = Logon \/ (wire[i].auth = "session" /\ ~session)
    BY <1>2, <1>3 DEF ServerAnswer
<1>11. session' = ((session \/ Accepted(i)') /\ ~wire[i].logout) /\ session' \in BOOLEAN
    BY <1>2, <1>3, <1>9 DEF Accepted
<1>12. IF wire[i].logout /\ session THEN Forgive({}, {"-2015"})
       ELSE NoteRefusal(wire[i].from, answer, wire[i].stamp)
    BY <1>2, <1>3
<1>13. /\ refused' \in [Codes -> Nat]
       /\ \/ ~wire[i].logout \/ ~session
          \/ refused'["-2015"] = 0 /\ refused'["-1021"] = refused["-1021"]
       /\ \A code \in Codes :
             \/ refused'[code] = 0 /\ code = "-2015"
             \/ refused'[code] = refused[code]
             \/ /\ refused'[code] = refused[code] + 1 /\ wire[i].from = Watched
                /\ wire[i].stamp # "late" /\ answer = code
    <2>1. CASE wire[i].logout /\ session
        BY <1>12, <2>1, Refusals DEF Codes
    <2>2. CASE ~(wire[i].logout /\ session)
        BY <1>12, <2>2, Refusals DEF Codes
    <2> QED BY <2>1, <2>2
<1>14. UNCHANGED <<fixedVars, clockVars, authenticated, call, hookStamp>>
    BY <1>2
<1>15. /\ wire[i].answer = "none" /\ \A j \in 1..(i - 1) : wire[j].answer # "none"
       /\ \A j \in 1..Len(wire) : j # i => wire'[j] = wire[j]
       /\ wire'[i].from = wire[i].from /\ wire'[i].stamp = wire[i].stamp
       /\ wire'[i].auth = wire[i].auth /\ wire'[i].logout = wire[i].logout
       /\ wire'[i].answer \in {"ok", "-1021", "-2015"}
       /\ wire'[i].answer = "-1021" => RejectsTimestamp(wire[i].stamp)
       /\ wire'[i].answer = "-2015" => wire[i].from = Logon \/ (wire[i].auth = "session" /\ ~session)
       /\ session' = ((session \/ Accepted(i)') /\ ~wire[i].logout)
       /\ \/ ~wire[i].logout \/ ~session
          \/ refused'["-2015"] = 0 /\ refused'["-1021"] = refused["-1021"]
       /\ \A code \in Codes :
             \/ refused'[code] = 0 /\ code = "-2015"
             \/ refused'[code] = refused[code]
             \/ /\ refused'[code] = refused[code] + 1 /\ wire[i].from = Watched
                /\ wire[i].stamp # "late" /\ wire'[i].answer = code
    <2>1. wire[i].answer = "none" /\ \A j \in 1..(i - 1) : wire[j].answer # "none"
        BY <1>2
    <2> QED BY <1>4, <1>8, <1>9, <1>10, <1>11, <1>13, <2>1
<1> QED BY <1>1, <1>7, <1>11, <1>13, <1>14, <1>15

LEMMA OthersTyped ==
    ASSUME Typed,
           \/ Open \/ Lost \/ StartHook \/ SendLogon \/ LogonTimeout \/ Deliver
           \/ Serve \/ SessionExpires \/ ClockSteps
    PROVE  Typed'
<1>1. Stamp \in Stamps /\ {"right", "none"} \subseteq Stamps
    BY DEF Stamp, Stamps
<1>2. CASE Open
    BY <1>2, OpenIs DEF Open, Typed, fixedVars, clockVars
<1>3. CASE Lost
    <2>1. UNCHANGED <<market, key, synced, skewed, authenticated>>
        BY <1>3, LostIs DEF fixedVars, clockVars
    <2>2. wire' \in Seq(Frames) /\ session' \in BOOLEAN /\ hookStamp' \in Stamps
        BY <1>1, <1>3, LostIs
    <2>3. call' \in [Callers -> CallRecord] /\ refused' \in [Codes -> Nat]
        BY <1>3, LostIs
    <2> QED BY <2>1, <2>2, <2>3 DEF Typed
<1>4. CASE StartHook
    BY <1>1, <1>4 DEF StartHook, Typed, fixedVars, clockVars
<1>5. CASE SendLogon
    <2>1. [from |-> Logon, logout |-> FALSE, auth |-> "signature", stamp |-> hookStamp, answer |-> "none"]
             \in Frames
        BY DEF Frames, Typed, Auths
    <2>2. wire' \in Seq(Frames)
        BY <1>5, <2>1, AppendIs DEF SendLogon
    <2> QED BY <1>5, <2>2 DEF SendLogon, Typed, fixedVars, clockVars
<1>6. CASE LogonTimeout
    BY <1>6, OrphanIs DEF LogonTimeout, LogonAnswered, Typed, fixedVars, clockVars
<1>7. CASE Deliver
    <2>1. wire' \in Seq(Frames)
        BY <1>7, DeliverIs, TailIs
    <2>2. call' \in [Callers -> CallRecord]
        <3>1. \A c \in Callers : ToLimiter(call[c], "right") \in CallRecord
            BY <1>1, ToLimiterTyped DEF Typed
        <3>2. \/ call' = call
              \/ \E c \in Callers : \/ call' = [call EXCEPT ![c] = ToLimiter(call[c], "right")]
                                    \/ call' = [call EXCEPT ![c] = Idle]
            BY <1>7, DeliverIs
        <3> QED BY <3>1, <3>2, CallMoves, IdleTyped DEF Typed
    <2>3. synced' \in BOOLEAN /\ skewed' \in BOOLEAN /\ authenticated' \in BOOLEAN
        BY <1>7, DeliverIs DEF Typed, clockVars
    <2> QED BY <1>7, <2>1, <2>2, <2>3, DeliverIs DEF Typed, fixedVars
<1>8. CASE Serve
    BY <1>8, ServeIs DEF Typed, fixedVars, clockVars
<1>9. CASE SessionExpires
    BY <1>9, Refusals DEF SessionExpires, Typed, fixedVars, clockVars, connVars
<1>10. CASE ClockSteps
    BY <1>10, Refusals DEF ClockSteps, Typed, fixedVars, connVars
<1> QED BY <1>2, <1>3, <1>4, <1>5, <1>6, <1>7, <1>8, <1>9, <1>10

-----------------------------------------------------------------------------
(* What happens beside the watched caller *)

\* Its frames stay where they are; frames of others are disowned, or put at the end.
Beside ==
    /\ Len(wire) \in Nat /\ Len(wire') \in Nat /\ Len(wire') >= Len(wire)
    /\ \A i \in 1..Len(wire) :
          /\ wire'[i].answer = wire[i].answer /\ wire'[i].stamp = wire[i].stamp
          /\ wire'[i].auth = wire[i].auth /\ wire'[i].logout = wire[i].logout
          /\ wire'[i].from \in {wire[i].from, Nobody}
    /\ \A i \in 1..Len(wire') : i > Len(wire) =>
          /\ wire'[i].from # Watched /\ wire'[i].answer = "none"
          /\ wire'[i].from = Logon => ~wire'[i].logout

\* Nothing is done to it, and nothing that makes the next refusal likelier.
Aside ==
    /\ Mine' = Mine /\ Beside
    /\ \/ refused'["-1021"] = 0
       \/ refused'["-1021"] = refused["-1021"] /\ (skewed' => skewed) /\ (synced' => synced)
    /\ \/ refused'["-2015"] = 0
       \/ refused'["-2015"] = refused["-2015"] /\ session' = session /\ (authenticated' => authenticated)

LEMMA AsideKeeps == ASSUME Good, Aside PROVE Good'
<1>1. \A i \in 1..Len(wire') : wire'[i].from = Watched => i \in 1..Len(wire) /\ wire[i].from = Watched
    BY Names DEF Aside, Beside
<1>2. \A i \in 1..Len(wire') : Accepted(i)' => i \in 1..Len(wire) /\ Accepted(i)
    BY Names DEF Aside, Beside, Accepted
<1>3. FramesOK'
    <2>1. (Mine.at = "idle" => Mine.stamp = "none" /\ ~Mine.timing)'
        BY DEF Good, FramesOK, Aside
    <2>2. (Mine.timing => Mine.stamp = "none" /\ Mine.auth = "none")'
        BY DEF Good, FramesOK, Aside
    <2>3. ASSUME NEW i \in 1..Len(wire')
          PROVE  /\ wire'[i].from = Logon => ~wire'[i].logout
                 /\ wire'[i].from = Watched =>
                       Mine'.at = "sent" /\ wire'[i].stamp = Mine'.stamp /\ wire'[i].auth = Mine'.auth
        <3>1. CASE i \in 1..Len(wire)
            BY <3>1, <1>1, Names DEF Good, FramesOK, Aside, Beside
        <3>2. CASE i \notin 1..Len(wire)
            BY <3>2, <1>1 DEF Aside, Beside
        <3> QED BY <3>1, <3>2
    <2>4. ASSUME NEW i \in 1..Len(wire'), NEW j \in 1..Len(wire')
          PROVE  /\ wire'[i].from = Watched /\ wire'[j].from = Watched => i = j
                 /\ i < j /\ wire'[i].answer = "none" => wire'[j].answer = "none"
        <3>1. wire'[i].from = Watched /\ wire'[j].from = Watched => i = j
            BY <1>1 DEF Good, FramesOK
        <3>2. i < j /\ wire'[i].answer = "none" => wire'[j].answer = "none"
            BY DEF Good, FramesOK, Aside, Beside
        <3> QED BY <3>1, <3>2
    <2> QED BY <2>1, <2>2, <2>3, <2>4 DEF FramesOK
<1>4. ASSUME NEW code, Told(code) PROVE Told(code)'
    BY <1>1, <1>4 DEF Told, Aside, Beside
<1>5. ClockOK'
    <2>1. Signed' = Signed
        BY DEF Signed, Aside
    <2> QED BY <1>4, <2>1 DEF Good, ClockOK, Aside
<1>6. SessionOK'
    <2>1. CASE refused'["-2015"] = 0
        BY <2>1 DEF SessionOK
    <2>2. CASE refused'["-2015"] # 0
        BY <1>1, <1>2, <1>4, <2>2 DEF Good, SessionOK, Aside
    <2> QED BY <2>1, <2>2
<1> QED BY <1>3, <1>5, <1>6 DEF Good

\* The wire as it was, or with one more frame.
LEMMA BesideIs ==
    ASSUME Typed
    PROVE  /\ wire' = wire => Beside
           /\ \A f \in Frames : /\ wire' = Append(wire, f) /\ f.from # Watched /\ f.answer = "none"
                                /\ f.from = Logon => ~f.logout
                                => Beside
           /\ \A who : wire' = Orphan(who) /\ who # Watched => Beside
<1>1. Len(wire) \in Nat
    BY LenProperties DEF Typed
<1>2. wire' = wire => Beside
    BY <1>1 DEF Beside
<1>3. ASSUME NEW f \in Frames, wire' = Append(wire, f), f.from # Watched, f.answer = "none",
             f.from = Logon => ~f.logout
      PROVE  Beside
    BY <1>3, AppendIs DEF Beside
<1>4. ASSUME NEW who, wire' = Orphan(who), who # Watched
      PROVE  Beside
    BY <1>1, <1>4, OrphanIs DEF Beside
<1> QED BY <1>2, <1>3, <1>4

\* Another caller's steps.
LEMMA OtherCallers ==
    ASSUME Typed, NEW c \in Callers, c # Watched,
           \/ Call(c) \/ PassLimiter(c) \/ LimiterRaises(c) \/ HeldUp(c) \/ PassRestLimiter(c)
           \/ ResponseTimeout(c) \/ RestAnswer(c) \/ RestFails(c)
    PROVE  Aside
<1>1. \A y : call' = [call EXCEPT ![c] = y] => Mine' = Mine
    BY Names DEF Typed, Mine
<1>2. CASE Call(c) \/ LimiterRaises(c) \/ PassRestLimiter(c) \/ RestFails(c)
    <2>1. \E y : call' = [call EXCEPT ![c] = y]
        BY <1>2 DEF Call, LimiterRaises, PassRestLimiter, RestFails
    <2>2. UNCHANGED <<synced, skewed, authenticated, session, refused, wire>>
        BY <1>2 DEF Call, LimiterRaises, PassRestLimiter, RestFails, clockVars, connVars
    <2> QED BY <1>1, <2>1, <2>2, BesideIs DEF Aside
<1>3. CASE HeldUp(c)
    <2>1. \E y : call' = [call EXCEPT ![c] = y]
        BY <1>3 DEF HeldUp
    <2>2. UNCHANGED <<synced, skewed, authenticated, session, refused, wire>>
        BY <1>3 DEF HeldUp, clockVars, connVars
    <2> QED BY <1>1, <2>1, <2>2, BesideIs DEF Aside
<1>4. CASE PassLimiter(c)
    <2>1. \E y : call' = [call EXCEPT ![c] = y]
        BY <1>4 DEF PassLimiter
    <2>2. UNCHANGED <<synced, skewed, authenticated, session, refused>>
        BY <1>4 DEF PassLimiter, clockVars
    <2>3. Frame(c) \in Frames /\ Frame(c).from = c /\ Frame(c).answer = "none" /\ c # Logon
        BY FrameIs, Names DEF Typed
    <2>4. wire' = wire \/ wire' = Append(wire, Frame(c))
        BY <1>4 DEF PassLimiter
    <2>5. Beside
        BY <2>3, <2>4, BesideIs
    <2> QED BY <1>1, <2>1, <2>2, <2>5 DEF Aside
<1>5. CASE ResponseTimeout(c)
    <2>1. Mine' = Mine
        BY <1>1, <1>5 DEF ResponseTimeout
    <2>2. UNCHANGED <<synced, skewed, authenticated, session>> /\ Beside
        BY <1>5, BesideIs DEF ResponseTimeout, clockVars
    <2>3. \A code \in Codes : refused'[code] \in {0, refused[code]}
        BY <1>5, Refusals DEF ResponseTimeout
    <2> QED BY <2>1, <2>2, <2>3 DEF Aside, Codes
<1>6. CASE RestAnswer(c)
    <2>1. Mine' = Mine
        BY <1>1, <1>6 DEF RestAnswer
    <2>2. UNCHANGED <<skewed, authenticated, session, wire>> /\ (synced' => synced)
        BY <1>6 DEF RestAnswer, connVars
    <2>3. \A code \in Codes : refused'[code] = refused[code]
        BY <1>6, Refusals DEF RestAnswer
    <2> QED BY <2>1, <2>2, <2>3, BesideIs DEF Aside, Codes
<1> QED BY <1>2, <1>3, <1>4, <1>5, <1>6

\* Steps of the hook, of the server and of the clock that concern no caller.
LEMMA NoCaller ==
    ASSUME Typed, StartHook \/ SendLogon \/ LogonTimeout \/ SessionExpires \/ ClockSteps
    PROVE  Aside
<1>1. CASE StartHook
    BY <1>1, BesideIs DEF StartHook, Aside, Mine, clockVars
<1>2. CASE SendLogon
    <2> DEFINE f == [from |-> Logon, logout |-> FALSE, auth |-> "signature", stamp |-> hookStamp,
                     answer |-> "none"]
    <2>1. f \in Frames /\ f.from # Watched /\ f.answer = "none" /\ ~f.logout
        BY Names DEF Frames, Typed, Auths
    <2>2. wire' = Append(wire, f)
        BY <1>2 DEF SendLogon
    <2> HIDE DEF f
    <2>3. Beside
        BY <2>1, <2>2, BesideIs
    <2> QED BY <1>2, <2>3 DEF SendLogon, Aside, Mine, clockVars
<1>3. CASE LogonTimeout
    <2>1. Beside
        BY <1>3, BesideIs, Names DEF LogonTimeout
    <2>2. Mine' = Mine /\ UNCHANGED <<synced, skewed, refused, session, authenticated>>
        BY <1>3 DEF LogonTimeout, LogonAnswered, Mine, clockVars
    <2> QED BY <2>1, <2>2 DEF Aside
<1>4. CASE SessionExpires
    <2>1. Mine' = Mine /\ UNCHANGED <<synced, skewed, wire>>
        BY <1>4 DEF SessionExpires, Mine, clockVars, connVars
    <2>2. refused'["-2015"] = 0 /\ refused'["-1021"] = refused["-1021"]
        BY <1>4, Refusals DEF SessionExpires, Codes
    <2> QED BY <2>1, <2>2, BesideIs DEF Aside
<1>5. CASE ClockSteps
    <2>1. Mine' = Mine /\ UNCHANGED <<session, authenticated, wire>>
        BY <1>5 DEF ClockSteps, Mine, connVars
    <2>2. refused'["-1021"] = 0 /\ refused'["-2015"] = refused["-2015"]
        BY <1>5, Refusals DEF ClockSteps, Codes
    <2> QED BY <2>1, <2>2, BesideIs DEF Aside
<1> QED BY <1>1, <1>2, <1>3, <1>4, <1>5

-----------------------------------------------------------------------------
(* The watched caller's own steps *)

\* What the client knows about the clock is enough for a call like this one.
Aware(x, s, k) ==
    /\ x.stamp # "wrong"
    /\ ~k \/ (~s /\ (x.at = "idle" \/ x.timing \/ ~RequiresSignature(x.what.row.security)))

\* A step of a call that awaits no answer on the wire.
Own ==
    /\ Mine.at # "sent"
    /\ \/ wire' = wire
       \/ \E f \in Frames : /\ wire' = Append(wire, f) /\ f.from = Watched /\ f.answer = "none"
                            /\ Mine'.at = "sent" /\ f.stamp = Mine'.stamp /\ f.auth = Mine'.auth
    /\ Mine'.at = "idle" => Mine'.stamp = "none" /\ ~Mine'.timing
    /\ Mine'.timing => Mine'.stamp = "none" /\ Mine'.auth = "none"
    /\ UNCHANGED <<session, authenticated>> /\ refused'["-2015"] = refused["-2015"]
    /\ ~authenticated /\ Mine.auth # "session" => Mine'.auth # "session"

LEMMA OwnKeeps ==
    ASSUME Typed, Good, Own,
           \/ /\ refused'["-1021"] = refused["-1021"]
              /\ Aware(Mine, synced, skewed) => Aware(Mine', synced', skewed')
           \/ refused["-1021"] = 0 /\ refused'["-1021"] = 1 /\ Aware(Mine', synced', skewed')
    PROVE  Good'
<1>1. Len(wire) \in Nat /\ \A i \in 1..Len(wire) : wire[i].from # Watched
    BY LenProperties DEF Typed, Good, FramesOK, Own
<1>2. /\ Len(wire') \in {Len(wire), Len(wire) + 1} /\ \A i \in 1..Len(wire) : wire'[i] = wire[i]
      /\ Len(wire') = Len(wire) + 1 =>
            /\ wire'[Len(wire')].from = Watched /\ wire'[Len(wire')].answer = "none"
            /\ Mine'.at = "sent" /\ wire'[Len(wire')].stamp = Mine'.stamp
            /\ wire'[Len(wire')].auth = Mine'.auth
    <2>1. CASE wire' = wire
        BY <1>1, <2>1
    <2>2. CASE wire' # wire
        <3>1. PICK f \in Frames : /\ wire' = Append(wire, f) /\ f.from = Watched /\ f.answer = "none"
                                  /\ Mine'.at = "sent" /\ f.stamp = Mine'.stamp /\ f.auth = Mine'.auth
            BY <2>2 DEF Own
        <3>2. /\ Len(wire') = Len(wire) + 1 /\ wire'[Len(wire) + 1] = f
              /\ \A i \in 1..Len(wire) : wire'[i] = wire[i]
            BY <3>1, AppendIs
        <3> QED BY <3>1, <3>2
    <2> QED BY <2>1, <2>2
<1>3. FramesOK'
    <2>1. ASSUME NEW i \in 1..Len(wire')
          PROVE  i \in 1..Len(wire) \/ (i = Len(wire') /\ Len(wire') = Len(wire) + 1)
        BY <1>1, <1>2
    <2>2. ASSUME NEW i \in 1..Len(wire')
          PROVE  /\ wire'[i].from = Logon => ~wire'[i].logout
                 /\ wire'[i].from = Watched =>
                       Mine'.at = "sent" /\ wire'[i].stamp = Mine'.stamp /\ wire'[i].auth = Mine'.auth
        BY <1>1, <1>2, <2>1, Names DEF Good, FramesOK
    <2>3. ASSUME NEW i \in 1..Len(wire'), NEW j \in 1..Len(wire')
          PROVE  /\ wire'[i].from = Watched /\ wire'[j].from = Watched => i = j
                 /\ i < j /\ wire'[i].answer = "none" => wire'[j].answer = "none"
        BY <1>1, <1>2, <2>1 DEF Good, FramesOK
    <2> QED BY <2>2, <2>3 DEF FramesOK, Own
<1>4. \A code : ~Told(code)
    BY DEF Told, Own
<1>5. ClockOK'
    <2>1. refused["-1021"] = 1 => Aware(Mine, synced, skewed)
        BY <1>4 DEF Good, ClockOK, Aware, Signed
    <2>2. refused'["-1021"] <= 1 /\ (refused'["-1021"] = 1 => Aware(Mine', synced', skewed'))
        BY <2>1 DEF Good, ClockOK
    <2> QED BY <2>2 DEF ClockOK, Aware, Signed
<1>6. SessionOK'
    <2>1. \A i \in 1..Len(wire') : Accepted(i)' => i \in 1..Len(wire) /\ Accepted(i)
        BY <1>1, <1>2, Names DEF Accepted
    <2> QED BY <1>4, <2>1 DEF Good, SessionOK, Own
<1> QED BY <1>3, <1>5, <1>6 DEF Good

LEMMA OwnSteps ==
    ASSUME Typed, Good,
           \/ Call(Watched) \/ PassLimiter(Watched) \/ LimiterRaises(Watched) \/ HeldUp(Watched)
           \/ PassRestLimiter(Watched) \/ RestAnswer(Watched) \/ RestFails(Watched)
    PROVE  Good'
<1>1. Mine \in CallRecord /\ Stamp \in Stamps /\ Watched \in Callers
    BY Names DEF Typed, Stamp, Stamps, Mine
<1>2. ASSUME NEW y, call' = [call EXCEPT ![Watched] = y]
      PROVE  Mine' = y
    BY <1>2, Names DEF Mine, Typed
<1>3. ASSUME NEW y, Mine' = y, y.at = "idle", ~y.timing, y.stamp = "none", y.auth = "none",
             Mine.at # "sent", UNCHANGED <<clockVars, wire, session, authenticated, refused>>
      PROVE  Good'
    <2>1. Own
        BY <1>3 DEF Own
    <2>2. Aware(Mine, synced, skewed) => Aware(Mine', synced', skewed')
        BY <1>3 DEF Aware, clockVars
    <2> QED BY <1>3, <2>1, <2>2, OwnKeeps
<1>4. CASE Call(Watched)
    <2>1. PICK d \in Offered(Watched) : call' = [call EXCEPT ![Watched] = Started(d)]
        BY <1>4 DEF Call
    <2>2. Mine' = Started(d) /\ d \in Whats
        BY <1>1, <1>2, <2>1, OfferedIs
    <2>3. /\ Mine.at = "idle" /\ UNCHANGED <<clockVars, wire, session, authenticated, refused>>
        BY <1>4 DEF Call, connVars, Mine
    <2>4. Own
        BY <2>2, <2>3, StartedIs DEF Own
    <2>5. Aware(Mine, synced, skewed) => Aware(Mine', synced', skewed')
        BY <2>2, <2>3, StartedIs DEF Aware, clockVars, Stamp
    <2> QED BY <2>3, <2>4, <2>5, OwnKeeps
<1>5. CASE LimiterRaises(Watched)
    <2>1. Mine' = Raise("RateLimitReached") /\ "RateLimitReached" \in Raised
        BY <1>2, <1>5 DEF LimiterRaises, Raised
    <2> QED BY <1>3, <1>5, <2>1, IdleTyped DEF LimiterRaises, connVars, Mine
<1>6. CASE RestFails(Watched)
    <2>1. Mine' = Idle
        BY <1>2, <1>6 DEF RestFails
    <2> QED BY <1>3, <1>6, <2>1, IdleTyped DEF RestFails, connVars, Mine
<1>7. CASE HeldUp(Watched)
    <2>1. /\ Mine'.at = Mine.at /\ Mine'.stamp = "late" /\ Mine'.auth = Mine.auth
          /\ Mine'.timing = Mine.timing /\ Mine'.what = Mine.what
        BY <1>1, <1>7 DEF HeldUp, Mine, CallRecord, Typed
    <2>2. /\ Mine.at # "sent" /\ Mine.at # "idle" /\ Mine.stamp = "right"
          /\ UNCHANGED <<clockVars, wire, session, authenticated, refused>>
        BY <1>7 DEF HeldUp, connVars, Mine
    <2>3. Own
        BY <2>1, <2>2 DEF Own, Good, FramesOK
    <2>4. Aware(Mine, synced, skewed) => Aware(Mine', synced', skewed')
        BY <2>1, <2>2 DEF Aware, clockVars
    <2> QED BY <2>2, <2>3, <2>4, OwnKeeps
<1>8. CASE PassRestLimiter(Watched)
    <2>1. Mine.at = "limiter" /\ ~Mine.timing
          /\ UNCHANGED <<clockVars, wire, session, authenticated, refused>>
        BY <1>8 DEF PassRestLimiter, OverWsApi, connVars, Mine
    <2>2. CASE Mine' = Raise("ValueError")
        <3>1. "ValueError" \in Raised
            BY DEF Raised
        <3> QED BY <1>3, <2>1, <2>2, <3>1, IdleTyped
    <2>3. CASE Mine' = [Composed(Mine, Stamp) EXCEPT !.at = "http"]
        <3>1. PICK y : y = Composed(Mine, Stamp)
            OBVIOUS
        <3>2. /\ y \in CallRecord /\ y.at = Mine.at /\ y.timing = Mine.timing /\ y.what = Mine.what
              /\ y.stamp \in {Stamp, "none"} /\ (~authenticated => y.auth # "session")
              /\ ~RequiresSignature(Mine.what.row.security) => y.stamp = "none"
            BY <1>1, <3>1, ComposedIs
        <3>3. /\ Mine'.at = "http" /\ Mine'.timing = y.timing /\ Mine'.what = y.what
              /\ Mine'.stamp = y.stamp /\ Mine'.auth = y.auth
            BY <2>3, <3>1, <3>2 DEF CallRecord
        <3>4. Own
            BY <2>1, <3>2, <3>3 DEF Own
        <3>5. Aware(Mine, synced, skewed) => Aware(Mine', synced', skewed')
            BY <2>1, <3>2, <3>3 DEF Aware, clockVars, Stamp
        <3> QED BY <2>1, <3>4, <3>5, OwnKeeps
    <2>4. Mine' = Raise("ValueError") \/ Mine' = [Composed(Mine, Stamp) EXCEPT !.at = "http"]
        BY <1>2, <1>8 DEF PassRestLimiter, Mine
    <2> QED BY <2>2, <2>3, <2>4
<1>9. CASE PassLimiter(Watched)
    <2>1. Mine.at = "limiter" /\ UNCHANGED <<clockVars, session, authenticated, refused>>
        BY <1>9 DEF PassLimiter, Mine
    <2>2. CASE Mine' = Idle /\ wire' = wire
        BY <1>3, <2>1, <2>2, IdleTyped
    <2>3. ASSUME NEW place \in {"sent", "socket"}, call' = [call EXCEPT ![Watched].at = place],
                 IF place = "sent" THEN wire' = Append(wire, Frame(Watched)) ELSE wire' = wire
          PROVE  Good'
        <3>1. place \in Stages
            BY DEF Stages
        <3>2. /\ Mine'.at = place /\ Mine'.timing = Mine.timing /\ Mine'.what = Mine.what
              /\ Mine'.stamp = Mine.stamp /\ Mine'.auth = Mine.auth
            BY <1>1, <2>3, <3>1, PlaceMoves DEF Mine
        <3>3. /\ Frame(Watched) \in Frames /\ Frame(Watched).from = Watched /\ Frame(Watched).answer = "none"
              /\ Frame(Watched).stamp = Mine.stamp /\ Frame(Watched).auth = Mine.auth
            BY <1>1, FrameIs DEF Mine, Good, FramesOK
        <3>4. Own
            BY <2>1, <2>3, <3>2, <3>3 DEF Own, Good, FramesOK
        <3>5. Aware(Mine, synced, skewed) => Aware(Mine', synced', skewed')
            BY <2>1, <2>3, <3>2 DEF Aware, clockVars
        <3> QED BY <2>1, <3>4, <3>5, OwnKeeps
    <2>4. \/ Mine' = Idle /\ wire' = wire
          \/ call' = [call EXCEPT ![Watched].at = "sent"] /\ wire' = Append(wire, Frame(Watched))
          \/ call' = [call EXCEPT ![Watched].at = "socket"] /\ wire' = wire
        BY <1>2, <1>9 DEF PassLimiter
    <2> QED BY <2>2, <2>3, <2>4
<1>10. CASE RestAnswer(Watched)
    <2>1. Mine' = Idle /\ Mine.at = "http" /\ UNCHANGED <<skewed, wire, session, authenticated>>
        BY <1>2, <1>10 DEF RestAnswer, connVars, Mine
    <2>2. Own /\ refused'["-2015"] = refused["-2015"]
        <3>1. refused'["-2015"] = refused["-2015"]
            BY <1>10, Refusals DEF RestAnswer, Codes
        <3> QED BY <2>1, <3>1, IdleTyped DEF Own
    <2>3. CASE RejectsTimestamp(Mine.stamp)
        <3>1. synced' = FALSE
            BY <1>10, <2>3 DEF RestAnswer, Mine
        <3>2. Aware(Mine', synced', skewed')
            BY <2>1, <3>1, IdleTyped DEF Aware
        <3>3. CASE Mine.stamp = "late"
            <4>1. refused'["-1021"] = refused["-1021"]
                BY <1>10, <3>3, Refusals DEF RestAnswer, Codes, Mine
            <4> QED BY <2>2, <3>2, <4>1, OwnKeeps
        <3>4. CASE Mine.stamp = "wrong"
            <4>1. refused["-1021"] = 0
                BY <2>1, <3>4 DEF Good, ClockOK, Told, Typed, Codes
            <4>2. refused'["-1021"] = 1
                BY <1>10, <2>3, <3>4, <4>1, Refusals DEF RestAnswer, Codes, Mine
            <4> QED BY <2>2, <3>2, <4>1, <4>2, OwnKeeps
        <3> QED BY <2>3, <3>3, <3>4 DEF RejectsTimestamp
    <2>4. CASE ~RejectsTimestamp(Mine.stamp)
        <3>1. refused'["-1021"] = refused["-1021"] /\ synced' = synced
            BY <1>10, <2>4, Refusals DEF RestAnswer, Codes, Mine, Typed
        <3>2. Aware(Mine, synced, skewed) => Aware(Mine', synced', skewed')
            BY <2>1, <3>1, IdleTyped DEF Aware
        <3> QED BY <2>2, <3>1, <3>2, OwnKeeps
    <2> QED BY <2>3, <2>4
<1> QED BY <1>4, <1>5, <1>6, <1>7, <1>8, <1>9, <1>10

-----------------------------------------------------------------------------
(* The wire is answered, delivered, lost *)

LEMMA TimeoutKeeps ==
    ASSUME Typed, Good, ResponseTimeout(Watched) PROVE Good'
<1>1. Mine' = Idle /\ wire' = Orphan(Watched)
    BY Names DEF ResponseTimeout, Typed, Mine
<1>2. refused'["-1021"] = 0 /\ refused'["-2015"] = 0
    BY Refusals DEF ResponseTimeout, Codes
<1>3. /\ Len(wire') = Len(wire)
      /\ \A i \in 1..Len(wire) :
            /\ wire'[i].from = (IF wire[i].from = Watched THEN Nobody ELSE wire[i].from)
            /\ wire'[i].answer = wire[i].answer /\ wire'[i].logout = wire[i].logout
    BY <1>1, OrphanIs
<1>4. FramesOK'
    <2>1. \A i \in 1..Len(wire') : /\ wire'[i].from # Watched
                                   /\ wire'[i].from = Logon => ~wire'[i].logout
        BY <1>3, Names DEF Good, FramesOK
    <2>2. \A i, j \in 1..Len(wire') : i < j /\ wire'[i].answer = "none" => wire'[j].answer = "none"
        BY <1>3 DEF Good, FramesOK
    <2> QED BY <1>1, <2>1, <2>2, IdleTyped DEF FramesOK
<1> QED BY <1>2, <1>4 DEF Good, ClockOK, SessionOK

LEMMA OpenKeeps ==
    ASSUME Typed, Good, Open PROVE Good'
<1>1. UNCHANGED <<clockVars, authenticated, session, refused>>
    BY DEF Open
<1>2. Mine \in CallRecord /\ Mine' = IF Mine.at = "socket" THEN [Mine EXCEPT !.at = "sent"] ELSE Mine
    BY OpenIs, Names DEF Typed, Mine
<1>3. /\ Mine'.at = (IF Mine.at = "socket" THEN "sent" ELSE Mine.at) /\ Mine'.timing = Mine.timing
      /\ Mine'.what = Mine.what /\ Mine'.stamp = Mine.stamp /\ Mine'.auth = Mine.auth
    BY <1>2 DEF CallRecord
<1>4. ASSUME NEW i \in 1..Len(wire')
      PROVE  /\ wire'[i].from # Logon /\ wire'[i].answer = "none"
             /\ wire'[i].from = Watched =>
                   Mine.at = "socket" /\ wire'[i].stamp = Mine.stamp /\ wire'[i].auth = Mine.auth
    <2>1. PICK c \in Callers : call[c].at = "socket" /\ wire'[i] = Frame(c)
        BY OpenIs
    <2>2. call[c] \in CallRecord
        BY DEF Typed
    <2> QED BY <2>1, <2>2, FrameIs, Names DEF Good, FramesOK, Mine
<1>5. FramesOK'
    <2>1. \A i, j \in 1..Len(wire') : wire'[i].from = wire'[j].from => i = j
        BY OpenIs
    <2>2. \A i \in 1..Len(wire') :
             /\ wire'[i].from = Logon => ~wire'[i].logout
             /\ wire'[i].from = Watched =>
                   Mine'.at = "sent" /\ wire'[i].stamp = Mine'.stamp /\ wire'[i].auth = Mine'.auth
        BY <1>3, <1>4
    <2>3. \A i, j \in 1..Len(wire') :
             /\ wire'[i].from = Watched /\ wire'[j].from = Watched => i = j
             /\ i < j /\ wire'[i].answer = "none" => wire'[j].answer = "none"
        BY <1>4, <2>1
    <2>4. /\ Mine'.at = "idle" => Mine'.stamp = "none" /\ ~Mine'.timing
          /\ Mine'.timing => Mine'.stamp = "none" /\ Mine'.auth = "none"
        BY <1>3 DEF Good, FramesOK
    <2> QED BY <2>2, <2>3, <2>4 DEF FramesOK
<1>6. ASSUME NEW code, Told(code) PROVE Told(code)'
    BY <1>3, <1>4, <1>6 DEF Told
<1>7. ClockOK'
    <2>1. Signed' = Signed
        BY <1>3 DEF Signed
    <2> QED BY <1>1, <1>3, <1>6, <2>1 DEF Good, ClockOK, clockVars
<1>8. SessionOK'
    <2>1. \A i \in 1..Len(wire') : ~Accepted(i)'
        BY <1>4 DEF Accepted
    <2> QED BY <1>1, <1>3, <1>6, <2>1 DEF Good, SessionOK
<1> QED BY <1>5, <1>7, <1>8 DEF Good

LEMMA LostKeeps ==
    ASSUME Typed, Good, Lost PROVE Good'
<1>1. /\ Len(wire') = 0 /\ Mine' = (IF Mine.at = "sent" THEN Idle ELSE Mine)
      /\ refused'["-2015"] = 0
      /\ refused'["-1021"] = (IF Mine.at = "sent" THEN 0 ELSE refused["-1021"])
      /\ synced' = synced /\ skewed' = skewed
    BY LostIs DEF clockVars
<1>2. FramesOK'
    BY <1>1, IdleTyped DEF Good, FramesOK
<1>3. ClockOK'
    <2>1. CASE Mine.at = "sent"
        BY <1>1, <2>1 DEF ClockOK
    <2>2. CASE Mine.at # "sent"
        BY <1>1, <2>2 DEF Good, ClockOK, Told, Signed
    <2> QED BY <2>1, <2>2
<1>4. SessionOK'
    BY <1>1 DEF SessionOK
<1> QED BY <1>2, <1>3, <1>4 DEF Good

LEMMA DeliverKeeps ==
    ASSUME Typed, Good, Deliver PROVE Good'
<1>1. /\ Len(wire) \in Nat /\ Len(wire) >= 1 /\ Len(wire') = Len(wire) - 1
      /\ \A i \in 1..Len(wire') : i + 1 \in 1..Len(wire) /\ wire'[i] = wire[i + 1]
      /\ 1 \in 1..Len(wire)
    BY DeliverIs, TailIs
<1>2. session' = session /\ refused' = refused
    BY DeliverIs
<1>3. \A i \in 1..Len(wire') : Accepted(i)' <=> Accepted(i + 1)
    BY <1>1 DEF Accepted
<1>4. /\ \A i \in 1..Len(wire') : wire'[i].from = Logon => ~wire'[i].logout
      /\ \A i, j \in 1..Len(wire') :
            /\ wire'[i].from = Watched /\ wire'[j].from = Watched => i = j
            /\ i < j /\ wire'[i].answer = "none" => wire'[j].answer = "none"
    <2>1. \A i \in 1..Len(wire') : wire'[i].from = Logon => ~wire'[i].logout
        BY <1>1 DEF Good, FramesOK
    <2>2. ASSUME NEW i \in 1..Len(wire'), NEW j \in 1..Len(wire')
          PROVE  /\ wire'[i].from = Watched /\ wire'[j].from = Watched => i = j
                 /\ i < j /\ wire'[i].answer = "none" => wire'[j].answer = "none"
        <3>1. /\ i + 1 \in 1..Len(wire) /\ j + 1 \in 1..Len(wire)
              /\ wire'[i] = wire[i + 1] /\ wire'[j] = wire[j + 1]
            BY <1>1
        <3>2. wire'[i].from = Watched /\ wire'[j].from = Watched => i + 1 = j + 1
            BY <3>1 DEF Good, FramesOK
        <3>3. i + 1 < j + 1 /\ wire'[i].answer = "none" => wire'[j].answer = "none"
            BY <3>1 DEF Good, FramesOK
        <3> QED BY <3>2, <3>3
    <2> QED BY <2>1, <2>2
<1>5. CASE wire[1].from # Watched
    <2>1. Mine' = Mine
        BY <1>5, DeliverIs, Names DEF Typed, Mine
    <2>2. (skewed' => skewed) /\ (skewed' /\ synced' => synced)
        <3>1. \/ synced' = synced /\ skewed' = skewed
              \/ skewed' = FALSE
              \/ skewed' = skewed /\ synced' = (synced /\ wire[1].answer # "-1021")
            BY DeliverIs DEF clockVars
        <3>2. CASE synced' = synced /\ skewed' = skewed
            BY <3>2
        <3>3. CASE skewed' = FALSE
            BY <3>3
        <3>4. CASE skewed' = skewed /\ synced' = (synced /\ wire[1].answer # "-1021")
            <4>1. synced' => synced
                BY <3>4
            <4>2. skewed' => skewed
                BY <3>4
            <4> QED BY <4>1, <4>2
        <3> QED BY <3>1, <3>2, <3>3, <3>4
    <2>3. FramesOK'
        <3>1. \A i \in 1..Len(wire') : wire'[i].from = Watched =>
                 Mine'.at = "sent" /\ wire'[i].stamp = Mine'.stamp /\ wire'[i].auth = Mine'.auth
            BY <1>1, <2>1 DEF Good, FramesOK
        <3> QED BY <1>4, <2>1, <3>1 DEF Good, FramesOK
    <2>4. ASSUME NEW code, Told(code) PROVE Told(code)'
        BY <1>1, <2>1, <2>4 DEF Told
    <2>5. ClockOK'
        <3>1. Signed' = Signed
            BY <2>1 DEF Signed
        <3> QED BY <1>2, <2>1, <2>2, <2>4, <3>1 DEF Good, ClockOK
    <2>6. SessionOK'
        <3>1. ASSUME Told("-2015"), \A i, j \in 1..Len(wire) : wire[i].from = Watched /\ Accepted(j) => j < i
              PROVE  Told("-2015")' /\ \A i, j \in 1..Len(wire') : wire'[i].from = Watched /\ Accepted(j)' => j < i
            <4>1. ASSUME NEW i \in 1..Len(wire'), NEW j \in 1..Len(wire'), wire'[i].from = Watched, Accepted(j)'
                  PROVE  j < i
                <5>1. j + 1 < i + 1
                    BY <1>1, <1>3, <3>1, <4>1
                <5> QED BY <5>1
            <4> QED BY <2>4, <3>1, <4>1
        <3>2. ASSUME ~authenticated, \A i \in 1..Len(wire) : ~Accepted(i)
              PROVE  ~authenticated' /\ \A i \in 1..Len(wire') : ~Accepted(i)'
            <4>1. ~(wire[1].from = Logon /\ wire[1].answer = "ok")
                BY <1>1, <3>2 DEF Accepted
            <4>2. ~authenticated'
                BY <3>2, <4>1, DeliverIs
            <4> QED BY <1>1, <1>3, <3>2, <4>2
        <3>3. Mine'.auth = Mine.auth
            BY <2>1
        <3> QED BY <1>2, <3>1, <3>2, <3>3 DEF Good, SessionOK
    <2> QED BY <2>3, <2>5, <2>6 DEF Good
<1>6. CASE wire[1].from = Watched
    <2>1. \A i \in 1..Len(wire') : wire'[i].from # Watched
        BY <1>1, <1>6 DEF Good, FramesOK
    <2>2. CASE Mine.timing
        <3>1. /\ synced' = TRUE /\ skewed' = FALSE /\ authenticated' = authenticated
              /\ Mine' = ToLimiter(Mine, "right")
            BY <1>6, <2>2, DeliverIs, Names DEF Typed, Mine
        <3>2. Mine \in CallRecord /\ "right" \in Stamps /\ Mine.stamp = "none" /\ Mine.auth = "none"
            BY <2>2, Names DEF Typed, Good, FramesOK, Mine, Stamps
        <3>3. /\ Mine'.at = "limiter" /\ ~Mine'.timing /\ Mine'.stamp \in {"right", "none"}
              /\ ~authenticated => Mine'.auth # "session"
            BY <3>1, <3>2, ToLimiterIs
        <3>4. FramesOK'
            BY <1>4, <2>1, <3>3 DEF FramesOK
        <3>5. ClockOK'
            BY <1>2, <3>1, <3>3 DEF Good, ClockOK
        <3>6. SessionOK'
            BY <1>1, <1>2, <1>3, <2>2, <3>1, <3>3 DEF Good, SessionOK, Told
        <3> QED BY <3>4, <3>5, <3>6 DEF Good
    <2>3. CASE ~Mine.timing
        <3>1. /\ synced' = (synced /\ wire[1].answer # "-1021") /\ skewed' = skewed
              /\ authenticated' => authenticated /\ wire[1].answer # "-2015"
              /\ Mine' = Idle
            BY <1>6, <2>3, DeliverIs, Names DEF Typed, Mine
        <3>2. FramesOK'
            BY <1>4, <2>1, <3>1, IdleTyped DEF FramesOK
        <3>3. ASSUME NEW code, Told(code) PROVE wire[1].answer = code
            BY <1>1, <1>6, <3>3 DEF Told
        <3>4. ClockOK'
            BY <1>2, <3>1, <3>3, IdleTyped DEF Good, ClockOK
        <3>5. SessionOK'
            <4>1. Mine'.auth # "session"
                BY <3>1, IdleTyped
            <4>2. ASSUME Told("-2015"), \A i, j \in 1..Len(wire) : wire[i].from = Watched /\ Accepted(j) => j < i
                  PROVE  ~authenticated' /\ \A i \in 1..Len(wire') : ~Accepted(i)'
                <5>1. \A j \in 1..Len(wire) : ~Accepted(j)
                    BY <1>1, <1>6, <4>2
                <5> QED BY <1>1, <1>3, <3>1, <3>3, <4>2, <5>1
            <4>3. ASSUME ~authenticated, \A i \in 1..Len(wire) : ~Accepted(i)
                  PROVE  ~authenticated' /\ \A i \in 1..Len(wire') : ~Accepted(i)'
                BY <1>1, <1>3, <3>1, <4>3
            <4> QED BY <1>2, <4>1, <4>2, <4>3 DEF Good, SessionOK
        <3> QED BY <3>2, <3>4, <3>5 DEF Good
    <2> QED BY <2>2, <2>3
<1> QED BY <1>5, <1>6

\* The server answers one frame.
LEMMA ServeKeeps ==
    ASSUME Typed, Good, Serve PROVE Good'
<1>1. /\ Len(wire') = Len(wire) /\ Len(wire) \in Nat
      /\ UNCHANGED <<clockVars, authenticated, call>>
    BY ServeIs
<1>2. Mine' = Mine /\ Signed' = Signed
    BY <1>1 DEF Mine, Signed
<1>3. PICK i \in 1..Len(wire) :
         /\ wire[i].answer = "none" /\ \A j \in 1..(i - 1) : wire[j].answer # "none"
         /\ \A j \in 1..Len(wire) : j # i => wire'[j] = wire[j]
         /\ wire'[i].from = wire[i].from /\ wire'[i].stamp = wire[i].stamp
         /\ wire'[i].auth = wire[i].auth /\ wire'[i].logout = wire[i].logout
         /\ wire'[i].answer \in {"ok", "-1021", "-2015"}
         /\ wire'[i].answer = "-1021" => RejectsTimestamp(wire[i].stamp)
         /\ wire'[i].answer = "-2015" => wire[i].from = Logon \/ (wire[i].auth = "session" /\ ~session)
         /\ session' = ((session \/ Accepted(i)') /\ ~wire[i].logout)
         /\ \/ ~wire[i].logout \/ ~session
            \/ refused'["-2015"] = 0 /\ refused'["-1021"] = refused["-1021"]
         /\ \A code \in Codes :
               \/ refused'[code] = 0 /\ code = "-2015"
               \/ refused'[code] = refused[code]
               \/ /\ refused'[code] = refused[code] + 1 /\ wire[i].from = Watched
                  /\ wire[i].stamp # "late" /\ wire'[i].answer = code
    BY ServeIs
<1>4. \A j \in 1..Len(wire) : /\ wire'[j].from = wire[j].from /\ wire'[j].stamp = wire[j].stamp
                              /\ wire'[j].auth = wire[j].auth /\ wire'[j].logout = wire[j].logout
                              /\ wire'[j].answer = wire[j].answer \/ j = i
    BY <1>3
<1>5. wire[i].from = Watched =>
         /\ Mine.at = "sent" /\ wire[i].stamp = Mine.stamp /\ wire[i].auth = Mine.auth
         /\ \A j \in 1..Len(wire) : wire[j].from = Watched => j = i
    BY DEF Good, FramesOK
<1>6. FramesOK'
    <2>1. \A j \in 1..Len(wire') :
             /\ wire'[j].from = Logon => ~wire'[j].logout
             /\ wire'[j].from = Watched =>
                   Mine'.at = "sent" /\ wire'[j].stamp = Mine'.stamp /\ wire'[j].auth = Mine'.auth
        BY <1>1, <1>2, <1>4 DEF Good, FramesOK
    <2>2. \A j, k \in 1..Len(wire') : wire'[j].from = Watched /\ wire'[k].from = Watched => j = k
        BY <1>1, <1>4 DEF Good, FramesOK
    <2>3. ASSUME NEW j \in 1..Len(wire), NEW k \in 1..Len(wire), j < k, wire'[j].answer = "none"
          PROVE  wire'[k].answer = "none"
        <3>1. j # i /\ wire[j].answer = "none"
            BY <1>3, <2>3
        <3>2. ~(j \in 1..(i - 1))
            BY <1>3, <3>1
        <3>3. k # i /\ wire[k].answer = "none"
            BY <2>3, <3>1, <3>2 DEF Good, FramesOK
        <3> QED BY <1>3, <3>3
    <2> QED BY <1>1, <1>2, <2>1, <2>2, <2>3 DEF Good, FramesOK
    \* What the watched caller was told stays told: the frame answered is another's.
<1>7. ASSUME NEW code, code # "none", Told(code) PROVE wire[i].from # Watched /\ Told(code)'
    <2>1. wire[i].from # Watched
        BY <1>3, <1>7 DEF Told
    <2> QED BY <1>1, <1>2, <1>3, <1>4, <1>7, <2>1 DEF Told
<1>8. ASSUME NEW code \in Codes, wire[i].from = Watched, wire'[i].answer = code, ~Mine.timing
      PROVE  Told(code)'
    BY <1>1, <1>2, <1>4, <1>5, <1>8 DEF Told
<1>9. ClockOK'
    <2>1. CASE refused'["-1021"] = refused["-1021"]
        BY <1>1, <1>2, <1>7, <2>1 DEF Good, ClockOK, clockVars
    <2>2. CASE /\ refused'["-1021"] = refused["-1021"] + 1 /\ wire[i].from = Watched
               /\ wire[i].stamp # "late" /\ wire'[i].answer = "-1021"
        <3>1. Mine.stamp = "wrong"
            BY <1>3, <1>5, <2>2 DEF RejectsTimestamp
        <3>2. refused["-1021"] \in Nat /\ refused["-1021"] # 1
            BY <1>7, <2>2, <3>1 DEF Good, ClockOK, Typed, Codes
        <3>3. Told("-1021")'
            BY <1>8, <2>2, <3>1 DEF Good, FramesOK, Codes
        <3> QED BY <2>2, <3>2, <3>3 DEF Good, ClockOK
    <2> QED BY <1>3, <2>1, <2>2 DEF Codes
<1>10. SessionOK'
    <2>1. CASE refused'["-2015"] = 0
        BY <2>1 DEF SessionOK
    <2>2. CASE refused'["-2015"] # 0 /\ refused'["-2015"] = refused["-2015"]
        <3>1. refused'["-2015"] <= 1
            BY <2>2 DEF Good, SessionOK
        <3>2. CASE session
            BY <1>3, <2>2, <3>1, <3>2 DEF SessionOK
        <3>3. CASE Accepted(i)'
            <4>1. session'
                BY <1>3, <3>3 DEF Accepted, Good, FramesOK
            <4> QED BY <3>1, <4>1 DEF SessionOK
        <3>4. CASE ~session /\ ~Accepted(i)'
            <4>1. \A j \in 1..Len(wire) : Accepted(j)' => Accepted(j)
                BY <1>4, <3>4 DEF Accepted
            <4>2. CASE Told("-2015") /\ \A k, j \in 1..Len(wire) : wire[k].from = Watched /\ Accepted(j) => j < k
                <5>1. \A k, j \in 1..Len(wire') : wire'[k].from = Watched /\ Accepted(j)' => j < k
                    BY <1>1, <1>4, <4>1, <4>2
                <5> QED BY <1>7, <3>1, <4>2, <5>1 DEF SessionOK
            <4>3. CASE ~authenticated /\ Mine.auth # "session" /\ \A j \in 1..Len(wire) : ~Accepted(j)
                BY <1>1, <1>2, <3>1, <4>1, <4>3 DEF SessionOK
            <4>4. refused["-2015"] = 1
                BY <2>2, <3>1 DEF Typed, Codes
            <4> QED BY <3>4, <4>2, <4>3, <4>4 DEF Good, SessionOK
        <3> QED BY <3>2, <3>3, <3>4
    <2>3. CASE /\ refused'["-2015"] = refused["-2015"] + 1 /\ wire[i].from = Watched
               /\ wire[i].stamp # "late" /\ wire'[i].answer = "-2015"
        <3>1. Mine.auth = "session" /\ ~session
            BY <1>3, <1>5, <2>3, Names
        <3>2. refused["-2015"] \in Nat /\ refused["-2015"] # 1
            BY <1>7, <2>3, <3>1 DEF Good, SessionOK, Typed, Codes
        <3>3. Told("-2015")'
            BY <1>8, <2>3, <3>1 DEF Good, FramesOK, Codes
        <3>4. ASSUME NEW k \in 1..Len(wire), NEW j \in 1..Len(wire), wire'[k].from = Watched, Accepted(j)'
              PROVE  j < k
            <4>1. k = i
                BY <1>4, <1>5, <2>3, <3>4
            <4>2. j # i /\ wire[j].answer = "ok"
                BY <1>4, <2>3, <3>4, Names DEF Accepted
            <4>3. ~(i < j)
                BY <1>3, <4>2 DEF Good, FramesOK
            <4> QED BY <4>1, <4>2, <4>3
        <3> QED BY <1>1, <2>3, <3>2, <3>3, <3>4 DEF Good, SessionOK
    <2> QED BY <1>3, <2>1, <2>2, <2>3 DEF Codes
<1> QED BY <1>6, <1>9, <1>10 DEF Good

-----------------------------------------------------------------------------
(* The theorems *)

\* The invariant holds at first and is kept by every step.
LEMMA InitInvariant == Init => IInv
<1> SUFFICES ASSUME Init PROVE IInv
    OBVIOUS
<1>1. call \in [Callers -> CallRecord] /\ Mine = Idle
    BY IdleTyped, Names DEF Init, Mine
<1>2. wire \in Seq(Frames) /\ Len(wire) = 0
    BY DEF Init
<1>3. refused \in [Codes -> Nat] /\ refused["-1021"] = 0 /\ refused["-2015"] = 0
    BY DEF Init, Codes
<1>4. Typed
    <2>1. synced \in BOOLEAN
        <3>1. synced = (market \in Preset)
            BY DEF Init
        <3>2. CASE market \in Preset
            BY <3>1, <3>2
        <3>3. CASE market \notin Preset
            BY <3>1, <3>3
        <3> QED BY <3>2, <3>3
    <2>2. skewed \in BOOLEAN /\ authenticated \in BOOLEAN /\ session \in BOOLEAN
        BY DEF Init
    <2>3. market \in Clients /\ key \in Keys /\ hookStamp \in Stamps
        BY DEF Init, Stamps
    <2> QED BY <1>1, <1>2, <1>3, <2>1, <2>2, <2>3 DEF Typed
<1>5. FramesOK
    BY <1>1, <1>2, IdleTyped DEF FramesOK
<1>6. ClockOK /\ SessionOK
    BY <1>3 DEF ClockOK, SessionOK
<1> QED BY <1>4, <1>5, <1>6 DEF IInv, Good

LEMMA NextInvariant == IInv /\ [Next]_vars => IInv'
<1> SUFFICES ASSUME Typed, Good, [Next]_vars PROVE Typed' /\ Good'
    BY DEF IInv
<1>1. ASSUME NEW c \in Callers,
             \/ Call(c) \/ PassLimiter(c) \/ LimiterRaises(c) \/ HeldUp(c) \/ PassRestLimiter(c)
             \/ ResponseTimeout(c) \/ RestAnswer(c) \/ RestFails(c)
      PROVE  Typed' /\ Good'
    <2>1. Typed'
        BY <1>1, CallerTyped
    <2>2. CASE c # Watched
        BY <1>1, <2>1, <2>2, OtherCallers, AsideKeeps
    <2>3. CASE c = Watched
        BY <1>1, <2>1, <2>3, OwnSteps, TimeoutKeeps
    <2> QED BY <2>2, <2>3
<1>2. CASE StartHook \/ SendLogon \/ LogonTimeout \/ SessionExpires \/ ClockSteps
    BY <1>2, OthersTyped, NoCaller, AsideKeeps
<1>3. CASE Open
    BY <1>3, OthersTyped, OpenKeeps
<1>4. CASE Drop \/ Recycle
    BY <1>4, OthersTyped, LostKeeps DEF Drop, Recycle
<1>5. CASE Deliver
    BY <1>5, OthersTyped, DeliverKeeps
<1>6. CASE Serve
    BY <1>6, OthersTyped, ServeKeeps
<1>7. CASE UNCHANGED vars
    <2>1. Typed' /\ Mine' = Mine /\ UNCHANGED <<synced, skewed, authenticated, session, refused, wire>>
        BY <1>7 DEF Typed, Mine, vars, fixedVars, clockVars, connVars
    <2>2. Aside
        BY <2>1, BesideIs DEF Aside
    <2> QED BY <2>1, <2>2, AsideKeeps
<1> QED BY <1>1, <1>2, <1>3, <1>4, <1>5, <1>6, <1>7 DEF Next

LEMMA InvariantHolds == Spec => []IInv
BY InitInvariant, NextInvariant, PTL DEF Spec

\* A caller whom -1021 has told of a wrong clock syncs before it signs again, over
\* either transport, so that it is not refused for the same clock twice: the
\* re-arming of _time_synced wherever an answer is read, for every interleaving of
\* calls, late answers and lost connections.
THEOREM OneTimestampRefusal == Spec => []TimestampRefusalHeals
<1>1. IInv => TimestampRefusalHeals
    BY DEF IInv, Good, ClockOK, TimestampRefusalHeals
<1> QED BY <1>1, InvariantHolds, PTL

\* A caller whom -2015 has told of the end of the session signs for itself until a
\* logon of a later connection is answered: dropping _ws_api_authenticated is not
\* undone by an answer that was under way, since answers come in order.
THEOREM OneSessionRefusal == Spec => []SessionRefusalHeals
<1>1. IInv => SessionRefusalHeals
    BY DEF IInv, Good, SessionOK, SessionRefusalHeals
<1> QED BY <1>1, InvariantHolds, PTL

-----------------------------------------------------------------------------
(* The weight of a call *)

\* A row whose weight can be relied on: a method whose weight follows the truth
\* of an argument goes over the WS-API, where a None is dropped, and one that
\* passes no argument on has a flat weight.
Kinds == {"presence", "truth", "depth", "futures depth", "ticker 24hr", "per symbol",
          "execution rules"}
Sound(r) ==
    /\ r.transport \in {"ws_api", "rest"}
    /\ r.params \in BOOLEAN
    /\ r.weight.by \in Kinds
    /\ r.weight.given \in Nat /\ r.weight.else \in Nat
    /\ r.weight.by = "truth" => r.transport = "ws_api"
    /\ ~r.params => r.weight.by = "presence" /\ r.weight.given = r.weight.else

LEMMA WeightsAre ==
    /\ \A n : Flat(n).by = "presence" /\ Flat(n).given = n /\ Flat(n).else = n
    /\ \A name, n, m : Scoped(name, n, m).by = "presence"
    /\ \A name, n, m : Scoped(name, n, m).given = n /\ Scoped(name, n, m).else = m
    /\ \A by : Helper(by).by = by /\ Helper(by).given = 0 /\ Helper(by).else = 0
    /\ OrderTest.by = "truth" /\ OrderTest.given = 20 /\ OrderTest.else = 1
BY DEF Flat, Scoped, Helper, OrderTest

AllSound(rows) == \A r \in rows : Sound(r)

LEMMA Unions ==
    /\ \A R, S : AllSound(R) /\ AllSound(S) => AllSound(R \union S)
    /\ \A R, S : Bare(R \union S) = Bare(R) \union Bare(S)
    /\ \A R, S : Orders(R \union S) = Orders(R) \union Orders(S)
<1>1. \A R, S : AllSound(R) /\ AllSound(S) => AllSound(R \union S)
    BY DEF AllSound
<1>2. \A R, S : Bare(R \union S) = Bare(R) \union Bare(S)
    BY DEF Bare
<1>3. \A R, S : Orders(R \union S) = Orders(R) \union Orders(S)
    BY DEF Orders
<1> QED BY <1>1, <1>2, <1>3

\* A flat weight, one that depends on what is given, and the helpers.
LEMMA RowsSound ==
    ASSUME NEW names, NEW security
    PROVE  /\ \A n \in Nat : /\ AllSound(Ws(names, security, Flat(n)))
                     /\ AllSound(Rest(names, security, Flat(n)))
                     /\ AllSound(Bare(Ws(names, security, Flat(n))))
                     /\ AllSound(Orders(Ws(names, security, Flat(n))))
                     /\ AllSound(Orders(Rest(names, security, Flat(n))))
           /\ \A name : \A n, m \in Nat : /\ AllSound(Ws(names, security, Scoped(name, n, m)))
                              /\ AllSound(Rest(names, security, Scoped(name, n, m)))
           /\ AllSound(Ws(names, security, OrderTest))
           /\ \A by \in Kinds \ {"truth"} :
                /\ AllSound(Ws(names, security, Helper(by)))
                /\ AllSound(Rest(names, security, Helper(by)))
<1>1. ASSUME NEW weight, weight.by \in Kinds, weight.given \in Nat, weight.else \in Nat
      PROVE  /\ AllSound(Ws(names, security, weight))
             /\ weight.by # "truth" => AllSound(Rest(names, security, weight))
    <2>1. ASSUME NEW r \in Ws(names, security, weight)
          PROVE  Sound(r)
        <3>1. r.transport = "ws_api" /\ r.params = TRUE /\ r.weight = weight
            BY <2>1 DEF Ws
        <3> QED BY <1>1, <3>1 DEF Sound
    <2>2. ASSUME NEW r \in Rest(names, security, weight), weight.by # "truth"
          PROVE  Sound(r)
        <3>1. r.transport = "rest" /\ r.params = TRUE /\ r.weight = weight
            BY <2>2 DEF Rest
        <3> QED BY <1>1, <2>2, <3>1 DEF Sound
    <2> QED BY <2>1, <2>2 DEF AllSound
<1>2. ASSUME NEW weight, weight.by = "presence", weight.given = weight.else, weight.given \in Nat
      PROVE  /\ AllSound(Bare(Ws(names, security, weight)))
             /\ AllSound(Orders(Ws(names, security, weight)))
             /\ AllSound(Orders(Rest(names, security, weight)))
    BY <1>2 DEF Ws, Rest, Orders, Bare, AllSound, Sound, Kinds
<1>3. /\ \A n \in Nat : Flat(n).by \in Kinds /\ Flat(n).by # "truth"
      /\ \A name : \A n, m \in Nat : Scoped(name, n, m).by \in Kinds /\ Scoped(name, n, m).by # "truth"
      /\ \A by \in Kinds \ {"truth"} : Helper(by).by \in Kinds /\ Helper(by).by # "truth"
      /\ OrderTest.by \in Kinds
    <2>1. \A n \in Nat : Flat(n).by \in Kinds /\ Flat(n).by # "truth"
        BY DEF Kinds, Flat
    <2>2. \A name : \A n, m \in Nat : Scoped(name, n, m).by \in Kinds /\ Scoped(name, n, m).by # "truth"
        BY DEF Kinds, Scoped
    <2>3. \A by \in Kinds \ {"truth"} : Helper(by).by \in Kinds /\ Helper(by).by # "truth"
        BY DEF Helper
    <2>4. OrderTest.by \in Kinds
        BY DEF Kinds, OrderTest, Scoped
    <2> QED BY <2>1, <2>2, <2>3, <2>4
<1>4. \A n \in Nat : /\ AllSound(Ws(names, security, Flat(n)))
             /\ AllSound(Rest(names, security, Flat(n)))
             /\ AllSound(Bare(Ws(names, security, Flat(n))))
             /\ AllSound(Orders(Ws(names, security, Flat(n))))
             /\ AllSound(Orders(Rest(names, security, Flat(n))))
    BY <1>1, <1>2, <1>3, WeightsAre
<1>5. \A name : \A n, m \in Nat : /\ AllSound(Ws(names, security, Scoped(name, n, m)))
                      /\ AllSound(Rest(names, security, Scoped(name, n, m)))
    BY <1>1, <1>3, WeightsAre
<1>6. AllSound(Ws(names, security, OrderTest))
    BY <1>1, <1>3, WeightsAre
<1>7. \A by \in Kinds \ {"truth"} : /\ AllSound(Ws(names, security, Helper(by)))
                                    /\ AllSound(Rest(names, security, Helper(by)))
    BY <1>1, <1>3, WeightsAre
<1> QED BY <1>4, <1>5, <1>6, <1>7

LEMMA SpotSound == AllSound(Registry["spot"])
<1>1. AllSound(SpotGeneral)
    <2>1. PICK R, S : /\ R = Ws({"ping", "get_server_time"}, "NONE", Flat(1))
                      /\ S = Ws({"get_exchange_info"}, "NONE", Flat(20))
        OBVIOUS
    <2>2. AllSound(Bare(R)) /\ AllSound(Bare(S))
        BY <2>1, RowsSound
    <2>3. AllSound(Bare(R \union S))
        BY <2>2, Unions
    <2> QED BY <2>1, <2>3, RowsSound, Unions DEF SpotGeneral, Kinds
<1>2. AllSound(SpotMarketData)
    BY RowsSound, Unions, ZenonT(60) DEF SpotMarketData, Kinds, TickerPrice, TickerBook
<1>3. AllSound(SpotAccount)
    BY RowsSound, Unions, ZenonT(60) DEF SpotAccount, MyTrades, MyPreventedMatches
<1>4. AllSound(SpotOrders)
    BY RowsSound, Unions, ZenonT(60) DEF SpotOrders, OpenOrdersStatus
<1>5. AllSound(SpotOrderLists)
    BY RowsSound, Unions, ZenonT(60) DEF SpotOrderLists
<1> QED BY <1>1, <1>2, <1>3, <1>4, <1>5, Unions DEF Registry

LEMMA UmSound == AllSound(Registry["um"])
<1>1. AllSound(UmWsApi)
    BY RowsSound, Unions, ZenonT(60) DEF UmWsApi, Kinds, UmTickerPriceWs, UmTickerBookWs
<1>2. AllSound(UmMarketData)
    BY RowsSound, Unions, ZenonT(60) DEF UmMarketData, Kinds, UmPremiumIndex
<1>3. AllSound(UmTrading)
    BY RowsSound, Unions, ZenonT(60) DEF UmTrading, UmOpenOrders
<1>4. AllSound(UmAlgoOrders)
    BY RowsSound, Unions, ZenonT(60) DEF UmAlgoOrders, UmOpenAlgoOrders, UmForceOrders
<1>5. AllSound(UmAccount)
    BY RowsSound, Unions, ZenonT(60) DEF UmAccount
<1>6. AllSound(UmStatus)
    BY RowsSound, Unions, ZenonT(60) DEF UmStatus, UmApiTradingStatus, UmAssetIndex
<1> QED BY <1>1, <1>2, <1>3, <1>4, <1>5, <1>6, Unions DEF Registry

LEMMA CmSound == AllSound(Registry["cm"])
<1>1. AllSound(CmWsApi)
    <2>1. PICK R, S : /\ R = Ws({"create_order"}, "TRADE", Flat(0))
                      /\ S = Ws({"modify_order"}, "TRADE", Flat(1))
        OBVIOUS
    <2>2. AllSound(Orders(R)) /\ AllSound(Orders(S))
        BY <2>1, RowsSound
    <2>3. AllSound(Orders(R \union S))
        BY <2>2, Unions
    <2> QED BY <2>1, <2>3, RowsSound, Unions DEF CmWsApi
<1>2. AllSound(CmMarketData)
    BY RowsSound, Unions, ZenonT(60) DEF CmMarketData, Kinds
<1>3. AllSound(CmTrading)
    <2>1. PICK R : R = Rest({"create_batch_orders", "modify_batch_orders"}, "TRADE", Flat(5))
        OBVIOUS
    <2>2. AllSound(Orders(R))
        BY <2>1, RowsSound
    <2>3. PICK S : S =
            Rest({"cancel_all_orders", "cancel_batch_orders"}, "TRADE", Flat(1))
            \union Rest({"countdown_cancel_all_orders"}, "TRADE", Flat(10))
            \union Rest({"get_open_order", "get_order_modify_history"}, "USER_DATA", Flat(1))
            \union Rest({"get_open_orders"}, "USER_DATA", CmOpenOrders)
            \union Rest({"get_all_orders"}, "USER_DATA", CmAllOrders)
        OBVIOUS
    <2>4. AllSound(S)
        BY <2>3, RowsSound, Unions, ZenonT(60) DEF CmOpenOrders, CmAllOrders
    <2>5. PICK T : T = Rest({"get_force_orders"}, "USER_DATA", CmForceOrders) /\ AllSound(T)
        BY RowsSound DEF CmForceOrders
    <2>6. CmTrading = S \union Orders(R) \union T
        BY <2>1, <2>3, <2>5 DEF CmTrading
    <2>7. AllSound(S \union Orders(R))
        BY <2>2, <2>4, Unions
    <2> QED BY <2>5, <2>6, <2>7, Unions
<1>4. AllSound(CmAccount)
    BY RowsSound, Unions, ZenonT(60) DEF CmAccount, CmUserTrades
<1> QED BY <1>1, <1>2, <1>3, <1>4, Unions DEF Registry

\* A call is one of a sound row, with an integer in every argument.
CallSound(d) == Sound(d.row) /\ \A n \in DOMAIN d.args : d.args[n].n \in Nat

LEMMA CallsSound == \A d \in Whats : CallSound(d)
<1>1. \A s : Sound(EscapeHatch(s))
    <2>1. ASSUME NEW s, NEW w, w = Flat(1)
          PROVE  /\ EscapeHatch(s).transport = "rest" /\ EscapeHatch(s).params = TRUE
                 /\ EscapeHatch(s).weight = w
        BY <2>1 DEF EscapeHatch
    <2>2. Flat(1).by \in Kinds /\ Flat(1).by # "truth" /\ Flat(1).given \in Nat /\ Flat(1).else \in Nat
        BY DEF Flat, Kinds
    <2>3. ASSUME NEW s
          PROVE  Sound(EscapeHatch(s))
        <3>1. PICK w : w = Flat(1)
            OBVIOUS
        <3> QED BY <2>1, <2>2, <3>1 DEF Sound
    <2> QED BY <2>3
<1>2. Sound(SessionLogout)
    <2>1. PICK w : w = Flat(2)
        OBVIOUS
    <2>2. /\ SessionLogout.transport = "ws_api" /\ SessionLogout.params = FALSE
          /\ SessionLogout.weight = w
        BY <2>1 DEF SessionLogout
    <2>3. /\ w.by \in Kinds /\ w.by = "presence"
          /\ w.given \in Nat /\ w.else \in Nat /\ w.given = w.else
        BY <2>1 DEF Flat, Kinds
    <2> QED BY <2>2, <2>3 DEF Sound
<1>3. ASSUME NEW rows, AllSound(rows)
      PROVE  \A d \in CallsOf(rows) \union WithFloat(rows) : CallSound(d)
    <2>1. ASSUME NEW d \in CallsOf(rows)
          PROVE  CallSound(d)
        <3>0. PICK r \in rows : d \in [row : {r}, args : ArgsOf(r.weight), float : {FALSE}]
            BY <2>1 DEF CallsOf
        <3>1. PICK args : args \in ArgsOf(r.weight) /\ d.row = r /\ d.args = args
            BY <3>0
        <3>a. args = <<>> \/ \E n \in Chosen(r.weight) : args \in [{n} -> Values(n)]
            BY <3>1 DEF ArgsOf
        <3>2. \A n : \A v \in Values(n) : v.n \in Nat
            BY ApiCallsAssumption DEF Values, None, Number, Thing, False
        <3>3. \A n \in DOMAIN args : args[n].n \in Nat
            <4>1. CASE args = <<>>
                BY <4>1
            <4>2. ASSUME NEW n \in Chosen(r.weight), args \in [{n} -> Values(n)]
                  PROVE  \A o \in DOMAIN args : args[o].n \in Nat
                <5>1. DOMAIN args = {n} /\ args[n] \in Values(n)
                    BY <4>2
                <5> QED BY <3>2, <5>1
            <4> QED BY <3>a, <4>1, <4>2
        <3> QED BY <1>3, <3>1, <3>3 DEF CallSound, AllSound
    <2>2. ASSUME NEW d \in WithFloat(rows)
          PROVE  CallSound(d)
        <3>1. d.row \in rows /\ d.args = <<>>
            BY <2>2 DEF WithFloat
        <3> QED BY <1>3, <3>1 DEF CallSound, AllSound
    <2> QED BY <2>1, <2>2
<1>4. ASSUME NEW rows, AllSound(rows)
      PROVE  \A d \in AnyCall(rows) : CallSound(d)
    <2>1. PICK R : R = rows \union {EscapeHatch(s) : s \in {"NONE", "MARKET_DATA", "USER_DATA"}}
        OBVIOUS
    <2>2. AllSound(R)
        BY <1>1, <1>4, <2>1 DEF AllSound
    <2>3. AnyCall(rows) = CallsOf(R) \union WithFloat(R)
        BY <2>1 DEF AnyCall
    <2> QED BY <1>3, <2>2, <2>3
<1>5. AllSound(CancelOrder)
    <2>1. AllSound(SpotOrders)
        BY SpotSound DEF Registry, AllSound
    <2> QED BY <2>1 DEF CancelOrder, AllSound
<1>6. \A d \in SpotCalls \union UmCalls \union CmCalls : CallSound(d)
    BY <1>4, SpotSound, UmSound, CmSound DEF SpotCalls, UmCalls, CmCalls
<1>7. \A d \in SignedCalls : CallSound(d)
    <2>1. PICK R : R = CancelOrder \union {EscapeHatch("USER_DATA")}
        OBVIOUS
    <2>2. AllSound(R)
        BY <1>1, <1>5, <2>1 DEF AllSound
    <2> QED BY <1>3, <2>1, <2>2 DEF SignedCalls
<1>8. \A d \in SessionCalls : CallSound(d)
    <2>1. PICK R : R = CancelOrder \union {SessionLogout}
        OBVIOUS
    <2>2. AllSound(R)
        BY <1>2, <1>5, <2>1 DEF AllSound
    <2> QED BY <1>3, <2>1, <2>2 DEF SessionCalls
<1>9. CallSound(NoCall)
    BY <1>2 DEF CallSound, NoCall
<1> QED BY <1>6, <1>7, <1>8, <1>9 DEF Whats

\* The argument that narrows a request down.
Narrowing(weight) == IF weight.by = "presence" THEN weight.name ELSE "symbol"

LEMMA FlagWeights ==
    ASSUME NEW w, NEW args
    PROVE  /\ w.by = "presence" => Weight(w, args) = IF Given(args, w.name) THEN w.given ELSE w.else
           /\ w.by = "truth" => Weight(w, args) =
                IF Given(args, w.name) /\ args[w.name] \notin {None, False} THEN w.given ELSE w.else
BY DEF Weight

LEMMA DepthWeights ==
    ASSUME NEW w, NEW args, w.by = "depth"
    PROVE  /\ Given(args, "limit") => Weight(w, args) = DepthWeight(args["limit"].n)
           /\ ~Given(args, "limit") => Weight(w, args) = DepthWeight(100)
BY DEF Weight

LEMMA FuturesDepthGiven ==
    ASSUME NEW w, NEW args, w.by = "futures depth", Given(args, "limit")
    PROVE  Weight(w, args) = FuturesDepthWeight(args["limit"].n)
BY DEF Weight

LEMMA FuturesDepthLeft ==
    ASSUME NEW w, NEW args, w.by = "futures depth", ~Given(args, "limit")
    PROVE  Weight(w, args) = FuturesDepthWeight(500)
BY DEF Weight

LEMMA ListWeights ==
    ASSUME NEW w, NEW args
    PROVE  /\ w.by = "ticker 24hr" => Weight(w, args) = Ticker24hrWeight(args)
           /\ w.by = "per symbol" => Weight(w, args) = PerSymbolTickerWeight(args)
           /\ w.by = "execution rules" => Weight(w, args) = ExecutionRulesWeight(args)
BY DEF Weight

LEMMA DepthIsNumber == \A n : DepthWeight(n) \in Nat /\ FuturesDepthWeight(n) \in Nat
BY DEF DepthWeight, FuturesDepthWeight

LEMMA FuturesDepthKept ==
    ASSUME NEW w, NEW args, NEW sent, w.by = "futures depth",
           \/ Given(args, "limit") /\ Given(sent, "limit") /\ sent["limit"] = args["limit"]
           \/ ~Given(args, "limit") /\ ~Given(sent, "limit")
    PROVE  Weight(w, args) = Weight(w, sent) /\ Weight(w, args) \in Nat
<1>1. CASE Given(args, "limit") /\ Given(sent, "limit") /\ sent["limit"] = args["limit"]
    <2>1. Weight(w, args) = FuturesDepthWeight(args["limit"].n)
        BY <1>1, FuturesDepthGiven
    <2>2. Weight(w, sent) = FuturesDepthWeight(sent["limit"].n)
        BY <1>1, FuturesDepthGiven
    <2> QED BY <1>1, <2>1, <2>2, DepthIsNumber
<1>2. CASE ~Given(args, "limit") /\ ~Given(sent, "limit")
    <2>1. Weight(w, args) = FuturesDepthWeight(500)
        BY <1>2, FuturesDepthLeft
    <2>2. Weight(w, sent) = FuturesDepthWeight(500)
        BY <1>2, FuturesDepthLeft
    <2> QED BY <2>1, <2>2, DepthIsNumber
<1> QED BY <1>1, <1>2

LEMMA DepthKept ==
    ASSUME NEW w, NEW args, NEW sent, w.by = "depth",
           \/ Given(args, "limit") /\ Given(sent, "limit") /\ sent["limit"] = args["limit"]
           \/ ~Given(args, "limit") /\ ~Given(sent, "limit")
    PROVE  Weight(w, args) = Weight(w, sent) /\ Weight(w, args) \in Nat
<1>1. CASE Given(args, "limit") /\ Given(sent, "limit") /\ sent["limit"] = args["limit"]
    <2>1. Weight(w, args) = DepthWeight(args["limit"].n)
        BY <1>1, DepthWeights
    <2>2. Weight(w, sent) = DepthWeight(sent["limit"].n)
        BY <1>1, DepthWeights
    <2> QED BY <1>1, <2>1, <2>2, DepthIsNumber
<1>2. CASE ~Given(args, "limit") /\ ~Given(sent, "limit")
    <2>1. Weight(w, args) = DepthWeight(100) /\ Weight(w, sent) = DepthWeight(100)
        BY <1>2, DepthWeights
    <2> QED BY <2>1, DepthIsNumber
<1> QED BY <1>1, <1>2

\* What the request carries weighs no more than what the call was charged for,
\* unless the narrowing argument is a None that is dropped.
LEMMA WireWeighsLess ==
    ASSUME NEW d, CallSound(d), ~WeightRaises(d.row.weight, d.args),
           d.row.transport = "ws_api" /\ Narrowing(d.row.weight) \in DOMAIN d.args
             => d.args[Narrowing(d.row.weight)] # None
    PROVE  Weight(d.row.weight, d.args) >= Weight(d.row.weight, OnTheWire(d))
<1>0. PICK weight, sent : weight = d.row.weight /\ sent = OnTheWire(d)
    OBVIOUS
<1> DEFINE charged == Weight(weight, d.args)
           counted == Weight(weight, sent)
<1> SUFFICES charged >= counted
    BY <1>0
<1>a. \A n \in Nat : n >= n
    OBVIOUS
<1>1. /\ weight.by \in Kinds /\ weight.given \in Nat /\ weight.else \in Nat
      /\ d.row.transport \in {"ws_api", "rest"} /\ d.row.params \in BOOLEAN
      /\ weight.by = "truth" => d.row.transport = "ws_api"
      /\ ~d.row.params => weight.by = "presence" /\ weight.given = weight.else
      /\ \A n \in DOMAIN d.args : d.args[n].n \in Nat
    BY <1>0 DEF CallSound, Sound
<1>2. Thing # None /\ Thing.n = 0
    BY DEF Thing, None
<1>3. CASE ~d.row.params
    <2>1. charged = weight.given /\ counted = weight.given
        BY <1>1, <1>3, FlagWeights
    <2> HIDE DEF charged, counted
    <2> QED BY <1>1, <1>a, <2>1
<1>4. CASE d.row.params /\ d.row.transport = "ws_api"
    <2>1. \A a : a \in DOMAIN sent <=> a \in DOMAIN d.args /\ d.args[a] # None
        BY <1>0, <1>4 DEF OnTheWire
    <2>2. \A a \in DOMAIN sent : sent[a] = d.args[a]
        BY <1>0, <1>4 DEF OnTheWire
    <2>3. CASE weight.by = "presence"
        <3>1. Given(sent, weight.name) <=> Given(d.args, weight.name)
            BY <1>0, <1>4, <2>1, <2>3 DEF Given, Narrowing
        <3>2. charged = counted /\ charged \in {weight.given, weight.else}
            BY <2>3, <3>1, FlagWeights
        <3> HIDE DEF charged, counted
        <3> QED BY <1>1, <1>a, <3>2
    <2>4. CASE weight.by = "truth"
        <3>1. /\ Given(sent, weight.name) /\ sent[weight.name] \notin {None, False}
              <=> Given(d.args, weight.name) /\ d.args[weight.name] \notin {None, False}
            BY <2>1, <2>2 DEF Given
        <3>2. charged = counted /\ charged \in {weight.given, weight.else}
            BY <2>4, <3>1, FlagWeights
        <3> HIDE DEF charged, counted
        <3> QED BY <1>1, <1>a, <3>2
    <2>5. CASE weight.by \in {"depth", "futures depth"}
        <3>1. \/ "limit" \in DOMAIN d.args /\ "limit" \in DOMAIN sent /\ sent["limit"] = d.args["limit"]
              \/ "limit" \notin DOMAIN d.args /\ "limit" \notin DOMAIN sent
            BY <1>0, <2>1, <2>2, <2>5 DEF WeightRaises, Given
        <3>a. \/ Given(d.args, "limit") /\ Given(sent, "limit") /\ sent["limit"] = d.args["limit"]
              \/ ~Given(d.args, "limit") /\ ~Given(sent, "limit")
            BY <3>1 DEF Given
        <3>2. charged = counted /\ charged \in Nat
            <4>1. CASE weight.by = "depth"
                BY <3>a, <4>1, DepthKept
            <4>2. CASE weight.by = "futures depth"
                BY <3>a, <4>2, FuturesDepthKept
            <4> QED BY <2>5, <4>1, <4>2
        <3> HIDE DEF charged, counted
        <3> QED BY <1>a, <3>2
    <2>6. CASE weight.by \in {"ticker 24hr", "per symbol", "execution rules"}
        <3>1. Given(sent, "symbol") <=> Given(d.args, "symbol")
            BY <1>0, <1>4, <2>1, <2>6 DEF Narrowing, Given
        <3>2. \/ /\ Given(d.args, "symbols") /\ d.args["symbols"] # None
                 /\ Given(sent, "symbols") /\ sent["symbols"] = d.args["symbols"]
                 /\ d.args["symbols"].n \in Nat
              \/ ~Given(sent, "symbols") /\ (Given(d.args, "symbols") => d.args["symbols"] = None)
            BY <1>1, <2>1, <2>2 DEF Given
        <3>3. /\ Ticker24hrWeight(d.args) >= Ticker24hrWeight(sent)
              /\ PerSymbolTickerWeight(d.args) >= PerSymbolTickerWeight(sent)
              /\ ExecutionRulesWeight(d.args) >= ExecutionRulesWeight(sent)
            BY <3>1, <3>2 DEF Ticker24hrWeight, PerSymbolTickerWeight, ExecutionRulesWeight, Given
        <3> QED BY <2>6, <3>3, ListWeights
    <2> QED BY <1>1, <2>3, <2>4, <2>5, <2>6 DEF Kinds
<1>5. CASE d.row.params /\ d.row.transport = "rest"
    <2>1. DOMAIN sent = DOMAIN d.args
        BY <1>0, <1>5 DEF OnTheWire
    <2>2. \A a \in DOMAIN sent : sent[a] = IF d.args[a] = None THEN Thing ELSE d.args[a]
        BY <1>0, <1>5 DEF OnTheWire
    <2>3. CASE weight.by = "presence"
        <3>1. Given(sent, weight.name) <=> Given(d.args, weight.name)
            BY <2>1 DEF Given
        <3>2. charged = counted /\ charged \in {weight.given, weight.else}
            BY <2>3, <3>1, FlagWeights
        <3> HIDE DEF charged, counted
        <3> QED BY <1>1, <1>a, <3>2
    <2>4. weight.by # "truth"
        BY <1>1, <1>5
    <2>5. CASE weight.by \in {"depth", "futures depth"}
        <3>1. \/ "limit" \in DOMAIN d.args /\ "limit" \in DOMAIN sent /\ sent["limit"] = d.args["limit"]
              \/ "limit" \notin DOMAIN d.args /\ "limit" \notin DOMAIN sent
            BY <1>0, <2>1, <2>2, <2>5 DEF WeightRaises, Given
        <3>a. \/ Given(d.args, "limit") /\ Given(sent, "limit") /\ sent["limit"] = d.args["limit"]
              \/ ~Given(d.args, "limit") /\ ~Given(sent, "limit")
            BY <3>1 DEF Given
        <3>2. charged = counted /\ charged \in Nat
            <4>1. CASE weight.by = "depth"
                BY <3>a, <4>1, DepthKept
            <4>2. CASE weight.by = "futures depth"
                BY <3>a, <4>2, FuturesDepthKept
            <4> QED BY <2>5, <4>1, <4>2
        <3> HIDE DEF charged, counted
        <3> QED BY <1>a, <3>2
    <2>6. CASE weight.by \in {"ticker 24hr", "per symbol", "execution rules"}
        <3>1. Given(sent, "symbol") <=> Given(d.args, "symbol")
            BY <2>1 DEF Given
        <3>2. \/ ~Given(sent, "symbols") /\ ~Given(d.args, "symbols")
              \/ /\ Given(d.args, "symbols") /\ d.args["symbols"] # None
                 /\ Given(sent, "symbols") /\ sent["symbols"] = d.args["symbols"]
                 /\ d.args["symbols"].n \in Nat
              \/ /\ Given(d.args, "symbols") /\ d.args["symbols"] = None
                 /\ Given(sent, "symbols") /\ sent["symbols"] # None /\ sent["symbols"].n = 0
            BY <1>1, <1>2, <2>1, <2>2 DEF Given
        <3>3. /\ Ticker24hrWeight(d.args) >= Ticker24hrWeight(sent)
              /\ PerSymbolTickerWeight(d.args) >= PerSymbolTickerWeight(sent)
              /\ ExecutionRulesWeight(d.args) >= ExecutionRulesWeight(sent)
            BY <3>1, <3>2 DEF Ticker24hrWeight, PerSymbolTickerWeight, ExecutionRulesWeight, Given
        <3> QED BY <2>6, <3>3, ListWeights
    <2> QED BY <1>1, <2>3, <2>4, <2>5, <2>6 DEF Kinds
<1> QED BY <1>1, <1>3, <1>4, <1>5

\* Working out the weight of a call did not raise.
Admitted(d) == ~WeightRaises(d.row.weight, d.args)
Passed == \A c \in Callers : Admitted(call[c].what)

LEMMA IdleAdmitted == Admitted(NoCall) /\ Idle.what = NoCall /\ \A e : Raise(e).what = NoCall
<1>1. SessionLogout.weight.by = "presence"
    BY DEF SessionLogout, Flat
<1>2. Idle.what = NoCall /\ \A e : Raise(e).what = NoCall
    BY DEF Idle, Raise
<1> QED BY <1>1, <1>2 DEF Admitted, WeightRaises, NoCall

LEMMA StartedAdmitted == ASSUME NEW d \in Whats PROVE Admitted(Started(d).what)
<1> DEFINE x == [Idle EXCEPT !.what = d]
           t == [x EXCEPT !.at = "limiter", !.timing = TRUE]
<1>1. x \in CallRecord /\ x.stamp = "none" /\ x.auth = "none" /\ x.what = d
    BY IdleTyped DEF CallRecord, Idle
<1>2. t.what = d /\ Stamp \in Stamps
    BY <1>1 DEF CallRecord, Stamp, Stamps
<1>3. \/ \E e \in Raised : Started(d) = Raise(e)
      \/ Admitted(d) /\ Started(d) = t
      \/ Admitted(d) /\ Started(d) = ToLimiter(x, Stamp)
    BY DEF Started, Raised, Admitted
<1> HIDE DEF x, t
<1> QED BY <1>1, <1>2, <1>3, IdleAdmitted, ToLimiterIs

LEMMA ToLimiterWhat ==
    ASSUME NEW x \in CallRecord, NEW s \in Stamps PROVE ToLimiter(x, s).what = x.what
<1> DEFINE z == [x EXCEPT !.at = "limiter", !.timing = FALSE]
<1>1. z \in CallRecord /\ z.what = x.what
    BY DEF CallRecord, Stages
<1>2. ToLimiter(x, s) \in {z, Composed(z, s)}
    BY DEF ToLimiter
<1> HIDE DEF z
<1> QED BY <1>1, <1>2, ComposedIs

\* A caller's own step keeps what it calls, ends the call, or starts one.
LEMMA CallerPasses ==
    ASSUME Typed, Passed, NEW c \in Callers,
           \/ Call(c) \/ PassLimiter(c) \/ LimiterRaises(c) \/ HeldUp(c) \/ PassRestLimiter(c)
           \/ ResponseTimeout(c) \/ RestAnswer(c) \/ RestFails(c)
    PROVE  Passed'
<1> USE DEF Passed
<1>1. call[c] \in CallRecord /\ Stamp \in Stamps
    BY DEF Typed, Stamp, Stamps
<1>2. ASSUME NEW y \in CallRecord, Admitted(y.what), call' = [call EXCEPT ![c] = y]
      PROVE  Passed'
    BY <1>2, CallMoves
<1>3. ASSUME NEW place \in Stages, call' = [call EXCEPT ![c].at = place]
      PROVE  Passed'
    BY <1>3, PlaceMoves
<1>4. Idle \in CallRecord /\ Admitted(Idle.what)
      /\ \A e \in Raised : Raise(e) \in CallRecord /\ Admitted(Raise(e).what)
    BY IdleTyped, IdleAdmitted
<1>5. CASE Call(c)
    <2>1. PICK d \in Offered(c) : call' = [call EXCEPT ![c] = Started(d)]
        BY <1>5 DEF Call
    <2>2. Started(d) \in CallRecord /\ Admitted(Started(d).what)
        BY OfferedIs, StartedIs, StartedAdmitted
    <2> QED BY <1>2, <2>1, <2>2
<1>6. CASE PassLimiter(c)
    <2>1. \/ \E place \in {"sent", "socket"} : call' = [call EXCEPT ![c].at = place]
          \/ call' = [call EXCEPT ![c] = Idle]
        BY <1>6 DEF PassLimiter
    <2>2. {"sent", "socket"} \subseteq Stages
        BY DEF Stages
    <2> QED BY <1>2, <1>3, <1>4, <2>1, <2>2
<1>7. CASE LimiterRaises(c)
    <2>1. "RateLimitReached" \in Raised
        BY DEF Raised
    <2> QED BY <1>2, <1>4, <1>7, <2>1 DEF LimiterRaises
<1>8. CASE HeldUp(c)
    <2>1. \A d \in Callers : call'[d].what = call[d].what
        BY <1>1, <1>8 DEF HeldUp, Typed, CallRecord
    <2> QED BY <2>1
<1>9. CASE PassRestLimiter(c)
    <2> DEFINE y == Composed(call[c], Stamp)
    <2>1. y \in CallRecord /\ y.what = call[c].what
        BY <1>1, ComposedIs
    <2>2. [y EXCEPT !.at = "http"] \in CallRecord /\ [y EXCEPT !.at = "http"].what = call[c].what
        BY <2>1 DEF CallRecord, Stages
    <2>3. call' = [call EXCEPT ![c] = Raise("ValueError")] \/ call' = [call EXCEPT ![c] = [y EXCEPT !.at = "http"]]
        BY <1>9 DEF PassRestLimiter
    <2>4. "ValueError" \in Raised
        BY DEF Raised
    <2> HIDE DEF y
    <2> QED BY <1>2, <1>4, <2>2, <2>3, <2>4
<1>10. CASE ResponseTimeout(c)
    BY <1>2, <1>4, <1>10 DEF ResponseTimeout
<1>11. CASE RestAnswer(c)
    BY <1>2, <1>4, <1>11 DEF RestAnswer
<1>12. CASE RestFails(c)
    BY <1>2, <1>4, <1>12 DEF RestFails
<1> QED BY <1>5, <1>6, <1>7, <1>8, <1>9, <1>10, <1>11, <1>12

LEMMA NextPasses == IInv /\ Passed /\ [Next]_vars => Passed'
<1> SUFFICES ASSUME Typed, Passed, [Next]_vars PROVE Passed'
    BY DEF IInv
<1>1. ASSUME NEW c \in Callers,
             \/ Call(c) \/ PassLimiter(c) \/ LimiterRaises(c) \/ HeldUp(c) \/ PassRestLimiter(c)
             \/ ResponseTimeout(c) \/ RestAnswer(c) \/ RestFails(c)
      PROVE  Passed'
    BY <1>1, CallerPasses
<1>2. CASE Open
    <2>1. \A c \in Callers : call'[c].what = call[c].what
        BY <1>2, OpenIs DEF Typed, CallRecord
    <2> QED BY <2>1 DEF Passed
<1>3. CASE Drop \/ Recycle
    <2>1. call' = [c \in Callers |-> IF call[c].at = "sent" THEN Idle ELSE call[c]]
        BY <1>3 DEF Drop, Recycle, Lost
    <2> QED BY <2>1, IdleAdmitted DEF Passed
<1>4. CASE Deliver
    <2>1. CASE call' = call
        BY <2>1 DEF Passed
    <2>2. ASSUME NEW c \in Callers,
                 call' = [call EXCEPT ![c] = ToLimiter(call[c], "right")] \/ call' = [call EXCEPT ![c] = Idle]
          PROVE  Passed'
        <3>1. call[c] \in CallRecord /\ "right" \in Stamps
            BY DEF Typed, Stamps
        <3>2. ToLimiter(call[c], "right") \in CallRecord /\ ToLimiter(call[c], "right").what = call[c].what
            BY <3>1, ToLimiterTyped, ToLimiterWhat
        <3> QED BY <2>2, <3>2, IdleTyped, IdleAdmitted, CallMoves DEF Passed
    <2> QED BY <1>4, <2>1, <2>2, DeliverIs
<1>5. CASE StartHook \/ SendLogon \/ LogonTimeout \/ Serve \/ SessionExpires \/ ClockSteps \/ UNCHANGED vars
    <2>1. call' = call
        BY <1>5 DEF StartHook, SendLogon, LogonTimeout, Serve, SessionExpires, ClockSteps, vars
    <2> QED BY <2>1 DEF Passed
<1> QED BY <1>1, <1>2, <1>3, <1>4, <1>5 DEF Next

\* The weight a call is charged before it goes out covers what the server counts, by
\* the SDK's own table, for the arguments its request carries, for every method of the three markets and every
\* limit and list: a None is dropped over the WS-API and becomes a string over REST,
\* and no weight is lower for what is left out, except where a dropped None is the
\* argument that narrows the request down.  A depth limit of None never gets there:
\* it raises before the limiter.
THEOREM ChargeCovers == Spec => []ChargeCoversRequest
<1>1. Init => Passed
    BY IdleAdmitted DEF Init, Passed
<1>2. Typed /\ Passed => ChargeCoversRequest
    <2> SUFFICES ASSUME Typed, Passed, NEW c \in Callers
                 PROVE  LET d == call[c].what
                            weight == d.row.weight
                            dropped == {n \in DOMAIN d.args : d.row.transport = "ws_api" /\ d.args[n] = None}
                        IN  Narrowing(weight) \notin dropped
                            => Weight(weight, d.args) >= Weight(weight, OnTheWire(d))
        BY DEF ChargeCoversRequest, Narrowing
    <2>1. PICK d : d = call[c].what
        OBVIOUS
    <2>2. CallSound(d) /\ ~WeightRaises(d.row.weight, d.args)
        BY <2>1, CallsSound DEF Typed, CallRecord, Passed, Admitted
    <2>3. Narrowing(d.row.weight) \notin {n \in DOMAIN d.args : d.row.transport = "ws_api" /\ d.args[n] = None}
          => Weight(d.row.weight, d.args) >= Weight(d.row.weight, OnTheWire(d))
        BY <2>2, WireWeighsLess
    <2> QED BY <2>1, <2>3
<1>3. IInv => Typed
    BY DEF IInv
<1> QED BY <1>1, <1>2, <1>3, NextPasses, InvariantHolds, PTL DEF Spec
=============================================================================

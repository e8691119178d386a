---------------------- MODULE SchedStatsProgressProofs ----------------------
(***************************************************************************)
(* A request always comes to its end, for any number of callers, requests, *)
(* captures, schedulers and lengths of answers: what goes on by itself     *)
(* ends, and when it does every caller has returned.                       *)
(***************************************************************************)
EXTENDS SchedStatsProofs, FiniteSetTheorems

Flags == {inFlight, clean, kill, killEvt, opened, peer, sched} \subseteq BOOLEAN
Stages ==
  /\ drainer \in {"poll", "route", "append", "bye", "gone"}
  /\ coord \in {"idle", "asking", "freezing", "frozen", "exited"}
  /\ end \in {"run", "bsp", "collected"}
  /\ lives \in 0..MaxLives
  /\ Len(respBuf) <= 2 * MaxResponse

(***************************************************************************)
(* The requests that can be started: each call of a clone, and each        *)
(* capture, is good for one, used up when the lock is taken.               *)
(***************************************************************************)
Allowed == Clones \X (1..MaxAsk)
Started ==
  {x \in Allowed : x[2] <= asked[x[1]] /\ ~(x[2] = asked[x[1]] /\ pc[x[1]] = "lock")}
Capturing == coord \in {"asking", "freezing", "frozen"}
Captures == idx + (IF Capturing THEN 1 ELSE 0)
Taken == idx + (IF Capturing /\ pc[Coord] # "lock" THEN 1 ELSE 0)
Ledger ==
  /\ asked \in [Clones -> 0..MaxAsk] /\ \A c \in Clones : pc[c] # "idle" => asked[c] > 0
  /\ idx \in Nat /\ Captures <= NumSnapshots
  /\ seq <= Cardinality(Started) + Taken
Small == pending \in Seq(0..MaxSeq)

Typed == Flags /\ Stages /\ Ledger /\ Small

---------------------------------------------------------------------------
\* Most leaves are first-order; those that need more say so.
USE Zenon

\* The set of calls is finite, and has MaxAsk members for each clone.
LEMMA AllowedSize ==
  /\ IsFiniteSet(Allowed) /\ Cardinality(Allowed) = MaxAsk * Cardinality(Clones)
  /\ MaxAsk \in Nat /\ Cardinality(Clones) \in Nat /\ NumSnapshots \in Nat /\ MaxSeq \in Nat
<1>1. IsFiniteSet(Clones) /\ MaxAsk \in Nat /\ NumSnapshots \in Nat
  BY StatsAssumption
<1>2. Cardinality(Clones) \in Nat
  BY <1>1, FS_CardinalityType
<1>3. IsFiniteSet(1..MaxAsk) /\ Cardinality(1..MaxAsk) = MaxAsk
  <2>1. 1 \in Int /\ MaxAsk \in Int
    BY <1>1, SMT
  <2>2. IsFiniteSet(1..MaxAsk) /\ Cardinality(1..MaxAsk) = (IF 1 > MaxAsk THEN 0 ELSE MaxAsk - 1 + 1)
    BY <2>1, FS_Interval
  <2> QED
    BY <1>1, <2>2, SMT
<1>4. IsFiniteSet(Allowed) /\ Cardinality(Allowed) = Cardinality(Clones) * MaxAsk
  BY <1>1, <1>3, FS_Product DEF Allowed
<1>5. Cardinality(Clones) * MaxAsk = MaxAsk * Cardinality(Clones) /\ MaxAsk * Cardinality(Clones) \in Nat
  BY <1>1, <1>2, SMT
<1> QED
  BY <1>1, <1>2, <1>4, <1>5, SMT DEF MaxSeq

\* Starts never outnumber calls and captures.
LEMMA LedgerBounds ==
  ASSUME Inv, Ledger
  PROVE  /\ IsFiniteSet(Started) /\ Cardinality(Started) \in Nat
         /\ seq \in 0..MaxSeq /\ idx \in 0..NumSnapshots
<1>1. Started \subseteq Allowed
  BY DEF Started
<1>2. IsFiniteSet(Started) /\ Cardinality(Started) \in Nat /\ Cardinality(Started) <= Cardinality(Allowed)
  BY <1>1, AllowedSize, FS_Subset, FS_CardinalityType
<1>3. Taken <= NumSnapshots /\ idx <= NumSnapshots /\ Taken \in Nat
  BY AllowedSize, SMT DEF Ledger, Taken, Captures
<1>4. seq \in Nat /\ seq <= Cardinality(Started) + Taken
  BY DEF Inv, InTypes, Ledger
<1>5. seq <= MaxSeq
  BY <1>2, <1>3, <1>4, AllowedSize, SMT DEF MaxSeq
<1> QED
  BY <1>2, <1>3, <1>4, <1>5, AllowedSize, SMT DEF Ledger

\* Initially nothing has been asked.
LEMMA TypedInit == Init => Typed
<1> SUFFICES ASSUME Init PROVE Typed
  OBVIOUS
<1>1. Flags
  BY DEF Init, Flags
<1>2. Stages
  BY StatsAssumption, SMT DEF Init, Stages
<1>3. Ledger
  <2>1. asked \in [Clones -> 0..MaxAsk] /\ \A c \in Clones : pc[c] = "idle"
    BY AllowedSize, SMT DEF Init, Callers
  <2>2. idx = 0 /\ seq = 0 /\ Captures = 0 /\ Taken = 0
    BY SMT DEF Init, Captures, Taken, Capturing
  <2>3. Cardinality(Started) \in Nat
    <3>1. Started \subseteq Allowed
      BY DEF Started
    <3> QED
      BY <3>1, AllowedSize, FS_Subset, FS_CardinalityType
  <2> QED
    BY <2>1, <2>2, <2>3, AllowedSize, SMT DEF Ledger
<1>4. Small
  BY EmptyIsSeq DEF Init, Small
<1> QED
  BY <1>1, <1>2, <1>3, <1>4 DEF Typed

---------------------------------------------------------------------------
\* Flags are set and cleared, never anything else.
LEMMA FlagsNext == Flags /\ [Next]_vars => Flags'
<1> SUFFICES ASSUME Flags, [Next]_vars PROVE Flags'
  OBVIOUS
<1> USE DEF client, drain, events, port, guest, run
<1>1. ASSUME NEW c \in Callers, Request(c) PROVE Flags'
  <2>1. UNCHANGED <<kill, killEvt, opened, peer, sched>>
    BY <1>1 DEF Request, Start, MarkInFlight, ClearResponse, PushLine, PushNewline, Check, Sleep
  <2>2. inFlight' \in {inFlight, TRUE, FALSE} /\ clean' \in {clean, FALSE}
    BY <1>1 DEF Request, Start, MarkInFlight, ClearResponse, PushLine, PushNewline, Check, Sleep
  <2> QED
    BY <2>1, <2>2 DEF Flags
<1>2. CASE Drainer
  <2>1. UNCHANGED <<inFlight, kill, opened, peer, sched>>
    BY <1>2 DEF Drainer, DrainData, DrainRoute, DrainAppend, DrainCancel, DrainBye
  <2>2. killEvt' \in {killEvt, FALSE} /\ clean' \in {clean, FALSE}
    BY <1>2 DEF Drainer, DrainData, DrainRoute, DrainAppend, DrainCancel, DrainBye
  <2> QED
    BY <2>1, <2>2 DEF Flags
<1>3. CASE Relay
  <2>1. UNCHANGED <<inFlight, kill, killEvt, peer, sched>>
    BY <1>3 DEF Relay, OpenPort, Refuse, PortIsEmpty, Forward, Backward, LoseSocket, WritePort
  <2>2. opened' \in {opened, TRUE} /\ clean' \in {clean, FALSE}
    BY <1>3 DEF Relay, OpenPort, Refuse, PortIsEmpty, Forward, Backward, LoseSocket, WritePort
  <2> QED
    BY <2>1, <2>2 DEF Flags
<1>4. CASE Connect \/ Stop \/ SchedStart \/ SchedAnswer \/ SchedExit \/ BspEnds
  <2>1. UNCHANGED <<inFlight, clean, kill, opened>> /\ killEvt' \in {killEvt, TRUE}
    BY <1>4 DEF Connect, Stop, SchedStart, SchedAnswer, SchedExit, BspEnds
  <2>2. peer' \in {peer, TRUE, FALSE} /\ sched' \in {sched, TRUE, FALSE}
    BY <1>4 DEF Connect, Stop, SchedStart, SchedAnswer, SchedExit, BspEnds, GuestStops
  <2> QED
    BY <2>1, <2>2 DEF Flags
<1>5. CASE \/ \E c \in Clones : Call(c)
           \/ PeriodicDue \/ Coordinator \/ Kill \/ CollectResults \/ UNCHANGED vars
  <2>1. UNCHANGED <<inFlight, clean, opened, peer, sched>>
    BY <1>5 DEF Call, PeriodicDue, Coordinator, PeriodicFreeze, Rendezvous, PeriodicStore,
                CoordReadsKill, CoordExits, Kill, CollectResults, vars
  <2>2. kill' \in {kill, TRUE} /\ killEvt' \in {killEvt, TRUE, FALSE}
    BY <1>5 DEF Call, PeriodicDue, Coordinator, PeriodicFreeze, Rendezvous, PeriodicStore,
                CoordReadsKill, CoordExits, Kill, CollectResults, vars
  <2> QED
    BY <2>1, <2>2 DEF Flags
<1> QED
  BY <1>1, <1>2, <1>3, <1>4, <1>5 DEF Next

\* The buffer's cap: what is kept of it, and what is put instead.
LEMMA CapKept ==
  ASSUME Inv
  PROVE  /\ Len(respBuf) \in Nat /\ Len(Aged(respBuf, FALSE)) = Len(respBuf)
         /\ \A e \in DOMAIN respBuf : Len(SubSeq(respBuf, e + 1, Len(respBuf))) <= Len(respBuf)
         /\ Len(<<Envelope>>) <= 2 * MaxResponse /\ Len(<<>>) <= 2 * MaxResponse
         /\ Len(respBuf \o batch) = Len(respBuf) + Len(batch)
<1>1. respBuf \in Seq(AnyByte) /\ batch \in Seq(AnyByte) /\ MaxResponse \in Nat \ {0}
  BY FreshIsAny, StatsAssumption DEF Inv, BufFresh, OutFresh
<1>2. Len(respBuf) \in Nat /\ DOMAIN respBuf = 1..Len(respBuf)
  BY <1>1, LenProperties
<1>3. Len(Aged(respBuf, FALSE)) = Len(respBuf)
  <2>1. Aged(respBuf, FALSE) \in Seq(AnyByte) /\ DOMAIN Aged(respBuf, FALSE) = DOMAIN respBuf
    BY <1>1, AgedBytes DEF Aged
  <2>2. DOMAIN Aged(respBuf, FALSE) = 1..Len(Aged(respBuf, FALSE)) /\ Len(Aged(respBuf, FALSE)) \in Nat
    BY <2>1, LenProperties
  <2>3. \A a, b \in Nat : 1..a = 1..b => a = b
    BY SMT
  <2> QED
    BY <1>2, <2>1, <2>2, <2>3
<1>4. ASSUME NEW e \in DOMAIN respBuf
      PROVE  Len(SubSeq(respBuf, e + 1, Len(respBuf))) <= Len(respBuf)
  <2>1. e \in Nat /\ e + 1 \in Int /\ Len(respBuf) \in Int
    BY <1>2, SMT
  <2>2. \A i \in (e + 1)..Len(respBuf) : respBuf[i] \in AnyByte
    <3>1. \A i \in 1..Len(respBuf) : respBuf[i] \in AnyByte
      BY <1>1, LenProperties
    <3>2. \A i \in (e + 1)..Len(respBuf) : i \in 1..Len(respBuf)
      BY <1>2, <2>1, SMT
    <3> QED
      BY <3>1, <3>2
  <2>3. Len(SubSeq(respBuf, e + 1, Len(respBuf)))
          = (IF e + 1 <= Len(respBuf) THEN Len(respBuf) - (e + 1) + 1 ELSE 0)
    BY <2>1, <2>2, SubSeqProperties
  <2> QED
    BY <1>2, <2>1, <2>3, SMT
<1>5. Len(<<Envelope>>) <= 2 * MaxResponse /\ Len(<<>>) <= 2 * MaxResponse
  BY <1>1, SMT
<1>6. Len(respBuf \o batch) = Len(respBuf) + Len(batch)
  BY <1>1, ConcatProperties
<1> QED
  BY <1>2, <1>3, <1>4, <1>5, <1>6

\* Each thread is at one of its stages, and the response buffer below its cap.
LEMMA StagesNext == Inv /\ Stages /\ [Next]_vars => Stages'
<1> SUFFICES ASSUME Inv, Stages, [Next]_vars PROVE Stages'
  OBVIOUS
<1> USE DEF client, drain, events, port, guest, run
<1>1. ASSUME NEW c \in Callers, Request(c) PROVE Stages'
  <2>1. UNCHANGED <<drainer, coord, end, lives>>
    BY <1>1 DEF Request, Start, MarkInFlight, ClearResponse, PushLine, PushNewline, Check, Sleep
  <2>2. \/ respBuf' \in {respBuf, <<>>, Aged(respBuf, FALSE)}
        \/ \E e \in DOMAIN respBuf : respBuf' = SubSeq(respBuf, e + 1, Len(respBuf))
    BY <1>1 DEF Request, Start, MarkInFlight, ClearResponse, PushLine, PushNewline, Check, Sleep,
                LineEnds
  <2>3. Len(respBuf') <= 2 * MaxResponse
    <3>1. CASE respBuf' \in {respBuf, <<>>, Aged(respBuf, FALSE)}
      BY <3>1, CapKept DEF Stages
    <3>2. CASE \E e \in DOMAIN respBuf : respBuf' = SubSeq(respBuf, e + 1, Len(respBuf))
      <4>1. PICK e \in DOMAIN respBuf : respBuf' = SubSeq(respBuf, e + 1, Len(respBuf))
        BY <3>2
      <4>2. Len(respBuf') <= Len(respBuf) /\ Len(respBuf) \in Nat /\ MaxResponse \in Nat
        BY <4>1, CapKept, StatsAssumption
      <4>3. respBuf' \in Seq(AnyByte)
        BY <4>1, RestOfSeq DEF Inv, BufFresh
      <4>4. Len(respBuf') \in Nat
        BY <4>3, LenProperties
      <4> QED
        BY <4>2, <4>4, SMT DEF Stages
    <3> QED
      BY <2>2, <3>1, <3>2
  <2> QED
    BY <2>1, <2>3 DEF Stages
<1>2. CASE Drainer
  <2>1. /\ UNCHANGED <<coord, end, lives>>
        /\ drainer' \in {"poll", "route", "append", "bye", "gone"}
    BY <1>2 DEF Drainer, DrainData, DrainRoute, DrainAppend, DrainCancel, DrainBye
  <2>2. CASE UNCHANGED respBuf
    BY <2>1, <2>2 DEF Stages
  <2>3. CASE DrainAppend
    <3>1. CASE Len(respBuf) + Len(batch) > 2 * MaxResponse
      BY <2>1, <2>3, <3>1, CapKept DEF DrainAppend, Stages
    <3>2. CASE ~(Len(respBuf) + Len(batch) > 2 * MaxResponse)
      <4>1. respBuf' = respBuf \o batch
        BY <2>3, <3>2 DEF DrainAppend
      <4>2. Len(respBuf') = Len(respBuf) + Len(batch)
        BY <4>1, CapKept
      <4>3. Len(respBuf) \in Nat /\ Len(batch) \in Nat /\ MaxResponse \in Nat
        BY CapKept, StatsAssumption, LenProperties DEF Inv, OutFresh
      <4>4. Len(respBuf') <= 2 * MaxResponse
        BY <3>2, <4>2, <4>3, SMT
      <4> QED
        BY <2>1, <4>4 DEF Stages
    <3> QED
      BY <3>1, <3>2
  <2> QED
    BY <1>2, <2>2, <2>3 DEF Drainer, DrainData, DrainRoute, DrainCancel, DrainBye
<1>3. CASE \/ \E c \in Clones : Call(c)
           \/ Relay \/ Connect \/ Stop \/ SchedAnswer \/ SchedExit \/ BspEnds
           \/ PeriodicDue \/ Coordinator \/ Kill \/ CollectResults \/ UNCHANGED vars
  <2>1. UNCHANGED <<drainer, respBuf, lives>>
    BY <1>3 DEF Call, Relay, OpenPort, Refuse, PortIsEmpty, Forward, Backward, LoseSocket,
                WritePort, Connect, Stop, SchedAnswer, SchedExit, BspEnds, GuestStops,
                PeriodicDue, Coordinator, PeriodicFreeze, Rendezvous, PeriodicStore,
                CoordReadsKill, CoordExits, Kill, CollectResults, vars
  <2>2. coord' \in {coord, "idle", "asking", "freezing", "frozen", "exited"}
    BY <1>3 DEF Call, Relay, OpenPort, Refuse, PortIsEmpty, Forward, Backward, LoseSocket,
                WritePort, Connect, Stop, SchedAnswer, SchedExit, BspEnds,
                PeriodicDue, Coordinator, PeriodicFreeze, Rendezvous, PeriodicStore,
                CoordReadsKill, CoordExits, Kill, CollectResults, vars
  <2>3. end' \in {end, "bsp", "collected"}
    BY <1>3 DEF Call, Relay, OpenPort, Refuse, PortIsEmpty, Forward, Backward, LoseSocket,
                WritePort, Connect, Stop, SchedAnswer, SchedExit, BspEnds,
                PeriodicDue, Coordinator, PeriodicFreeze, Rendezvous, PeriodicStore,
                CoordReadsKill, CoordExits, Kill, CollectResults, vars
  <2> QED
    BY <2>1, <2>2, <2>3 DEF Stages
<1>4. CASE SchedStart
  <2>1. UNCHANGED <<drainer, coord, end, respBuf>> /\ lives < MaxLives /\ lives' = lives + 1
    BY <1>4 DEF SchedStart
  <2>2. lives' \in 0..MaxLives
    BY <2>1, StatsAssumption, SMT DEF Stages
  <2> QED
    BY <2>1, <2>2 DEF Stages
<1> QED
  BY <1>1, <1>2, <1>3, <1>4 DEF Next

---------------------------------------------------------------------------
\* Steps that neither call, start nor begin or end a capture.
LEMMA LedgerFrame ==
  ASSUME Inv, Ledger, UNCHANGED <<asked, idx, seq>>, Capturing' <=> Capturing,
         \A c \in Callers : /\ (pc'[c] = "lock") <=> (pc[c] = "lock")
                            /\ pc'[c] # "idle" => pc[c] # "idle"
  PROVE  Ledger'
<1>1. \A c \in Clones : c \in Callers
  BY DEF Callers
<1>2. Started' = Started
  <2>1. \A x \in Allowed : x[1] \in Clones
    BY DEF Allowed
  <2> QED
    BY <1>1, <2>1 DEF Started
<1>3. Captures' = Captures /\ Taken' = Taken
  BY DEF Captures, Taken, Callers
<1>4. \A c \in Clones : pc'[c] # "idle" => asked'[c] > 0
  BY <1>1 DEF Ledger
<1> QED
  BY <1>2, <1>3, <1>4 DEF Ledger

\* A clone's call is not counted before it has the lock.
LEMMA LedgerCall ==
  ASSUME Inv, Ledger, NEW c \in Clones, Call(c)
  PROVE  Ledger'
<1>1. /\ pc[c] = "idle" /\ asked[c] < MaxAsk /\ asked' = [asked EXCEPT ![c] = asked[c] + 1]
      /\ pc' = [pc EXCEPT ![c] = "lock"] /\ UNCHANGED <<seq, coord, idx>>
  BY DEF Call, Go, run
<1>2. pc \in [Callers -> Places] /\ asked \in [Clones -> 0..MaxAsk] /\ c \in Callers /\ MaxAsk \in Nat
  BY AllowedSize DEF Inv, InTypes, Ledger, Callers
<1>3. asked[c] \in Nat /\ asked[c] + 1 \in 0..MaxAsk /\ asked[c] + 1 > 0
  BY <1>1, <1>2, SMT
<1>4. asked' \in [Clones -> 0..MaxAsk] /\ asked'[c] = asked[c] + 1 /\ \A d \in Clones \ {c} : asked'[d] = asked[d]
  BY <1>1, <1>2, <1>3
<1>5. pc'[c] = "lock" /\ \A d \in Callers \ {c} : pc'[d] = pc[d]
  BY <1>1, <1>2
<1>6. Started' = Started
  <2>1. ASSUME NEW x \in Allowed
        PROVE  (x[2] <= asked'[x[1]] /\ ~(x[2] = asked'[x[1]] /\ pc'[x[1]] = "lock"))
               <=> (x[2] <= asked[x[1]] /\ ~(x[2] = asked[x[1]] /\ pc[x[1]] = "lock"))
    <3>1. x[1] \in Clones /\ x[2] \in 1..MaxAsk /\ x[1] \in Callers
      BY DEF Allowed, Callers
    <3>2. CASE x[1] # c
      BY <1>4, <1>5, <3>1, <3>2
    <3>3. CASE x[1] = c
      <4>1. x[2] \in Nat /\ (x[2] <= asked[c] <=> (x[2] <= asked[c] + 1 /\ x[2] # asked[c] + 1))
        BY <1>3, <3>1, SMT
      <4> QED
        BY <1>1, <1>4, <1>5, <3>3, <4>1
    <3> QED
      BY <3>2, <3>3
  <2> QED
    BY <2>1 DEF Started
<1>7. Coord # c /\ Coord \in Callers
  BY StatsAssumption DEF Callers
<1>8. Captures' = Captures /\ Taken' = Taken
  BY <1>1, <1>5, <1>7 DEF Captures, Taken, Capturing
<1>9. \A d \in Clones : pc'[d] # "idle" => asked'[d] > 0
  <2> SUFFICES ASSUME NEW d \in Clones, pc'[d] # "idle" PROVE asked'[d] > 0
    OBVIOUS
  <2>1. CASE d = c
    BY <1>3, <1>4, <2>1
  <2>2. CASE d # c
    BY <1>4, <1>5, <2>2 DEF Ledger, Callers
  <2> QED
    BY <2>1, <2>2
<1> QED
  BY <1>1, <1>4, <1>6, <1>8, <1>9 DEF Ledger

\* A start uses up one call, or the capture of the moment.
LEMMA LedgerStart ==
  ASSUME Inv, Own, Stages, Ledger, NEW c \in Callers, Start(c)
  PROVE  Ledger'
<1>1. /\ pc[c] = "lock" /\ pc' = [pc EXCEPT ![c] = "mark"] /\ seq' = seq + 1
      /\ UNCHANGED <<asked, coord, idx>>
  BY DEF Start, Go, run
<1>2. pc \in [Callers -> Places] /\ asked \in [Clones -> 0..MaxAsk] /\ seq \in Nat
  BY DEF Inv, InTypes, Ledger
<1>3. pc'[c] = "mark" /\ \A d \in Callers \ {c} : pc'[d] = pc[d]
  BY <1>1, <1>2
<1>4. Captures' = Captures
  BY <1>1 DEF Captures, Capturing
<1>5. \A d \in Clones : pc'[d] # "idle" => asked'[d] > 0
  BY <1>1, <1>3 DEF Ledger, Callers
<1>6. IsFiniteSet(Started) /\ Cardinality(Started) \in Nat
  BY LedgerBounds
<1>7. CASE c = Coord
  <2>1. Capturing /\ pc[Coord] = "lock" /\ pc'[Coord] # "lock"
    BY <1>1, <1>3, <1>7 DEF Own, CallerInvariant, Capturing
  <2>2. Taken' = Taken + 1
    BY <1>1, <2>1, SMT DEF Taken, Capturing, Ledger
  <2>3. Started' = Started
    <3>1. \A x \in Allowed : x[1] \in Callers \ {c}
      BY <1>7, StatsAssumption DEF Allowed, Callers
    <3> QED
      BY <1>1, <1>3, <3>1 DEF Started
  <2>4. seq' <= Cardinality(Started') + Taken'
    <3>1. seq <= Cardinality(Started) + Taken /\ Taken \in Nat
      BY SMT DEF Ledger, Taken
    <3> QED
      BY <1>1, <1>2, <1>6, <2>2, <2>3, <3>1, SMT
  <2> QED
    BY <1>1, <1>4, <1>5, <2>4 DEF Ledger
<1>8. CASE c \in Clones
  <2>1. c # Coord /\ Coord \in Callers
    BY <1>8, StatsAssumption DEF Callers
  <2>2. Taken' = Taken
    BY <1>1, <1>3, <2>1 DEF Taken, Capturing
  <2> DEFINE new == <<c, asked[c]>>
  <2>3. asked[c] \in 1..MaxAsk
    <3>1. asked[c] > 0 /\ asked[c] \in 0..MaxAsk
      BY <1>1, <1>2, <1>8 DEF Ledger
    <3> QED
      BY <3>1, AllowedSize, SMT
  <2>4. new \in Allowed /\ new[1] = c /\ new[2] = asked[c]
    BY <1>8, <2>3 DEF Allowed
  <2>5. asked[c] <= asked[c]
    BY <2>3, AllowedSize, SMT
  <2>6. new \notin Started /\ new \in Started'
    BY <1>1, <1>3, <2>4, <2>5 DEF Started
  <2>7. \A x \in Allowed : x # new => (x \in Started' <=> x \in Started)
    <3> SUFFICES ASSUME NEW x \in Allowed, x # new PROVE x \in Started' <=> x \in Started
      OBVIOUS
    <3>1. x[1] \in Callers /\ x = <<x[1], x[2]>>
      BY SMT DEF Allowed, Callers
    <3>2. CASE x[1] # c
      BY <1>1, <1>3, <3>1, <3>2 DEF Started
    <3>3. CASE x[1] = c
      <4>1. x[2] # asked[c]
        BY <3>1, <3>3
      <4> QED
        BY <1>1, <3>3, <4>1 DEF Started
    <3> QED
      BY <3>2, <3>3
  <2>8. Started' = Started \cup {new}
    BY <2>4, <2>6, <2>7 DEF Started
  <2>9. Cardinality(Started') = Cardinality(Started) + 1
    BY <1>6, <2>6, <2>8, FS_AddElement
  <2>10. seq' <= Cardinality(Started') + Taken'
    <3>1. seq <= Cardinality(Started) + Taken /\ Taken \in Nat
      BY SMT DEF Ledger, Taken
    <3> QED
      BY <1>1, <1>2, <1>6, <2>2, <2>9, <3>1, SMT
  <2> QED
    BY <1>1, <1>4, <1>5, <2>10 DEF Ledger
<1> QED
  BY <1>7, <1>8 DEF Callers

\* A capture begins with a request, which may return at once, and is stored.
LEMMA LedgerCapture ==
  ASSUME Inv, Own, Stages, Ledger, PeriodicDue \/ PeriodicStore
  PROVE  Ledger'
<1>1. UNCHANGED <<asked, seq>> /\ idx \in Nat /\ NumSnapshots \in Nat
  BY AllowedSize DEF PeriodicDue, PeriodicStore, client, Ledger
<1>2. pc \in [Callers -> Places] /\ Coord \in Callers /\ (\A c \in Clones : c \in Callers /\ c # Coord)
  BY StatsAssumption DEF Inv, InTypes, Callers
<1>3. \A c \in Clones : pc'[c] = pc[c]
  BY <1>2 DEF PeriodicDue, PeriodicStore, Go, client
<1>4. Started' = Started
  <2>1. \A x \in Allowed : x[1] \in Clones
    BY DEF Allowed
  <2> QED
    BY <1>1, <1>3, <2>1 DEF Started
<1>5. \A c \in Clones : pc'[c] # "idle" => asked'[c] > 0
  BY <1>1, <1>3 DEF Ledger
<1>6. Cardinality(Started) \in Nat /\ seq \in Nat
  BY LedgerBounds DEF Inv, InTypes
<1>7. idx' \in Nat /\ Captures' <= NumSnapshots /\ Taken <= Taken' /\ Taken \in Nat /\ Taken' \in Nat
  <2>1. CASE PeriodicDue
    <3>1. coord = "idle" /\ coord' = "asking" /\ idx < NumSnapshots /\ idx' = idx
      BY <2>1 DEF PeriodicDue
    <3> QED
      BY <1>1, <3>1, SMT DEF Captures, Taken, Capturing
  <2>2. CASE PeriodicStore
    <3>1. coord \in {"freezing", "frozen"} /\ coord' = "idle" /\ idx' = idx + 1
      BY <2>2 DEF PeriodicStore, Freeze
    <3>2. pc[Coord] = "idle"
      BY <3>1 DEF Own, CallerInvariant
    <3>3. Captures <= NumSnapshots
      BY DEF Ledger
    <3>4. Captures = idx + 1 /\ Taken = idx + 1
      BY <3>1, <3>2 DEF Captures, Taken, Capturing
    <3>5. Captures' = idx + 1 + 0 /\ Taken' = idx + 1 + 0
      BY <3>1 DEF Captures, Taken, Capturing
    <3> QED
      BY <1>1, <3>1, <3>3, <3>4, <3>5, SMT
  <2> QED
    BY <2>1, <2>2
<1>8. seq' <= Cardinality(Started') + Taken'
  <2>1. seq <= Cardinality(Started) + Taken
    BY DEF Ledger
  <2> QED
    BY <1>1, <1>4, <1>6, <1>7, <2>1, SMT
<1> QED
  BY <1>1, <1>5, <1>7, <1>8 DEF Ledger

\* Every step keeps the ledger.
LEMMA LedgerNext == Inv /\ Own /\ Stages /\ Ledger /\ [Next]_vars => Ledger'
<1> SUFFICES ASSUME Inv, Own, Stages, Ledger, [Next]_vars PROVE Ledger'
  OBVIOUS
<1> USE DEF client, drain, events, port, guest, run
<1>0. pc \in [Callers -> Places]
  BY DEF Inv, InTypes
<1>1. ASSUME NEW c \in Callers, Request(c), ~Start(c) PROVE Ledger'
  <2>1. UNCHANGED <<asked, idx, seq, coord>> /\ pc[c] \notin {"idle", "lock"}
    BY <1>1 DEF Request, MarkInFlight, ClearResponse, PushLine, PushNewline, Check, Sleep
  <2>2. \E p \in Places \ {"lock"} : Go(c, p)
    BY <1>1 DEF Request, MarkInFlight, ClearResponse, PushLine, PushNewline, Check, Sleep, Places
  <2>3. \A d \in Callers : /\ (pc'[d] = "lock") <=> (pc[d] = "lock")
                           /\ pc'[d] # "idle" => pc[d] # "idle"
    BY <1>0, <2>1, <2>2 DEF Go
  <2> QED
    BY <2>1, <2>3, LedgerFrame DEF Capturing
<1>2. CASE Drainer
  <2>1. UNCHANGED <<asked, idx, seq, coord>> /\ (UNCHANGED pc \/ NotifyAll)
    BY <1>2 DEF Drainer, DrainData, DrainRoute, DrainAppend, DrainCancel, DrainBye
  <2>2. \A d \in Callers : /\ (pc'[d] = "lock") <=> (pc[d] = "lock")
                           /\ pc'[d] # "idle" => pc[d] # "idle"
    BY <1>0, <2>1 DEF NotifyAll
  <2> QED
    BY <2>1, <2>2, LedgerFrame DEF Capturing
<1>3. CASE \/ Relay \/ Connect \/ Stop \/ SchedStart \/ SchedAnswer \/ SchedExit \/ BspEnds
           \/ Kill \/ CollectResults \/ UNCHANGED vars
  <2>1. UNCHANGED <<pc, asked, idx, seq, coord>>
    BY <1>3 DEF Relay, OpenPort, Refuse, PortIsEmpty, Forward, Backward, LoseSocket, WritePort,
                Connect, Stop, SchedStart, SchedAnswer, SchedExit, BspEnds, Kill, CollectResults,
                vars
  <2> QED
    BY <2>1, LedgerFrame DEF Capturing
<1>4. CASE Coordinator /\ ~PeriodicStore
  <2>1. UNCHANGED <<pc, asked, idx, seq>> /\ (Capturing' <=> Capturing)
    BY <1>4 DEF Coordinator, PeriodicFreeze, Rendezvous, CoordReadsKill, CoordExits, Capturing
  <2> QED
    BY <2>1, LedgerFrame
<1> QED
  BY <1>1, <1>2, <1>3, <1>4, LedgerCall, LedgerStart, LedgerCapture DEF Next, Coordinator

\* What waits for the port to open is the line, or the line and its newline.
LEMMA SmallNext == Inv /\ Ledger /\ Small /\ [Next]_vars => Small'
<1> SUFFICES ASSUME Inv, Ledger, Small, [Next]_vars PROVE Small'
  OBVIOUS
<1> USE DEF client, drain, events, port, guest, run
<1>1. <<seq>> \in Seq(0..MaxSeq) /\ Append(pending, 0) \in Seq(0..MaxSeq) /\ <<>> \in Seq(0..MaxSeq)
  <2>1. seq \in 0..MaxSeq /\ 0 \in 0..MaxSeq
    BY LedgerBounds, AllowedSize, SMT
  <2>2. <<seq>> \in Seq(0..MaxSeq)
    BY <2>1, SMT
  <2> QED
    BY <2>1, <2>2, AppendProperties, EmptyIsSeq DEF Small
<1>2. ASSUME NEW c \in Callers, Request(c) PROVE Small'
  <2>1. UNCHANGED pending \/ Deliver(<<seq>>) \/ Deliver(Append(pending, 0))
    BY <1>2 DEF Request, Start, MarkInFlight, ClearResponse, PushLine, PushNewline, Check, Sleep
  <2> QED
    BY <1>1, <2>1 DEF Small, Deliver
<1>3. CASE Drainer \/ Relay
  <2>1. pending' \in {pending, <<>>}
    BY <1>3 DEF Drainer, DrainData, DrainRoute, DrainAppend, DrainCancel, DrainBye, Relay,
                OpenPort, Refuse, PortIsEmpty, Forward, Backward, LoseSocket, WritePort
  <2> QED
    BY <1>1, <2>1 DEF Small
<1>4. CASE \/ \E c \in Clones : Call(c)
           \/ Connect \/ Stop \/ SchedStart \/ SchedAnswer \/ SchedExit \/ BspEnds
           \/ PeriodicDue \/ Coordinator \/ Kill \/ CollectResults \/ UNCHANGED vars
  <2>1. UNCHANGED pending
    BY <1>4 DEF Call, Connect, Stop, SchedStart, SchedAnswer, SchedExit, BspEnds, PeriodicDue,
                Coordinator, PeriodicFreeze, Rendezvous, PeriodicStore, CoordReadsKill, CoordExits,
                Kill, CollectResults, vars
  <2> QED
    BY <2>1 DEF Small
<1> QED
  BY <1>2, <1>3, <1>4 DEF Next

\* The invariants together, for the theorems below.
LEMMA TypedInvariant == Spec => [](Inv /\ Own /\ Typed)
<1>1. Init => Inv /\ Own /\ Typed
  BY InitInv, OwnInit, TypedInit
<1>2. Inv /\ Own /\ Typed /\ [Next]_vars => (Inv /\ Own /\ Typed)'
  BY NextInv, NextOwn, FlagsNext, StagesNext, LedgerNext, SmallNext DEF Typed
<1> QED
  BY <1>1, <1>2, PTL DEF Spec

\* For every number of clones, calls, captures, schedulers and every limit of
\* the buffer: request_raw, drainer_loop, the relay and the coordinator keep
\* to their states, the response buffer never exceeds its cap, and no more
\* requests start than are called for.
THEOREM TypesAlwaysOK == Spec => []TypeOK
<1>1. Inv /\ Own /\ Typed => TypeOK
  BY LedgerBounds DEF Typed, Flags, Stages, Ledger, Small, Inv, InTypes, Own, PortInvariant, TypeOK
<1> QED
  BY <1>1, TypedInvariant, PTL

---------------------------------------------------------------------------
(* No request hangs *)

Newline(s) == \E i \in DOMAIN s : s[i] = 0
NewlineIn(r) == \E i \in DOMAIN r : Newline(r[i])

(***************************************************************************)
(* What will still end the line a caller waits for: its newline on the way *)
(* in, the end of a line on the way out, or the end of the session or of   *)
(* the relay, which the relay or the run answer.                           *)
(***************************************************************************)
Owed ==
  \/ Newline(pending) \/ NewlineIn(rx)
  \/ relay = "session" /\ (Newline(toSched) \/ ~peer \/ Ends(fromSched))
  \/ Ends(out) \/ Ends(txBuf) \/ Ends(batch)
  \/ relay = "stopped"

SleepsUnanswered == \A c \in Callers : pc[c] \in {"wait", "sleep"} => ~Ends(respBuf)
AnswerOwed == Waits /\ ~Ends(respBuf) => Owed

\* How far the end of the run is: who still waits has kill_evt to come.
Draining == drainer \in {"poll", "route", "append"}
EndReached ==
  /\ (coord = "exited" \/ end # "run" \/ ~Draining \/ killEvt) => kill
  /\ end = "collected" => coord = "exited"
  /\ drainer = "gone" => \A c \in Callers : pc[c] \notin {"wait", "sleep"}
  /\ kill /\ Draining /\ (coord \notin {"idle", "exited"} \/ end = "collected") => killEvt

\* Whatever is in a sequence is in its concatenation with another.
LEMMA InConcat ==
  ASSUME NEW S, NEW s \in Seq(S), NEW t \in Seq(S)
  PROVE  \A i \in DOMAIN s : \E j \in DOMAIN (s \o t) : (s \o t)[j] = s[i]
<1>1. /\ Len(s) \in Nat /\ DOMAIN s = 1..Len(s) /\ Len(t) \in Nat
      /\ s \o t \in Seq(S) /\ Len(s \o t) = Len(s) + Len(t)
      /\ \A i \in 1..(Len(s) + Len(t)) : (s \o t)[i] = IF i <= Len(s) THEN s[i] ELSE t[i - Len(s)]
  BY LenProperties, ConcatProperties
<1>2. DOMAIN (s \o t) = 1..(Len(s) + Len(t))
  BY <1>1, LenProperties
<1>3. \A i \in DOMAIN s : i \in 1..(Len(s) + Len(t)) /\ i <= Len(s)
  BY <1>1, SMT
<1> QED
  BY <1>1, <1>2, <1>3

\* The same for the second of the two.
LEMMA InConcatToo ==
  ASSUME NEW S, NEW s \in Seq(S), NEW t \in Seq(S)
  PROVE  \A i \in DOMAIN t : \E j \in DOMAIN (s \o t) : (s \o t)[j] = t[i]
<1>1. /\ Len(s) \in Nat /\ Len(t) \in Nat /\ DOMAIN t = 1..Len(t)
      /\ s \o t \in Seq(S) /\ Len(s \o t) = Len(s) + Len(t)
      /\ \A i \in 1..(Len(s) + Len(t)) : (s \o t)[i] = IF i <= Len(s) THEN s[i] ELSE t[i - Len(s)]
  BY LenProperties, ConcatProperties
<1>2. DOMAIN (s \o t) = 1..(Len(s) + Len(t))
  BY <1>1, LenProperties
<1>3. ASSUME NEW i \in DOMAIN t
      PROVE  \E j \in 1..(Len(s) + Len(t)) : ~(j <= Len(s)) /\ j - Len(s) = i
  <2>1. i + Len(s) \in 1..(Len(s) + Len(t)) /\ ~(i + Len(s) <= Len(s)) /\ i + Len(s) - Len(s) = i
    BY <1>1, <1>3, SMT
  <2> QED
    BY <2>1, SMT
<1> QED
  BY <1>1, <1>2, <1>3

\* Whatever is in a sequence is in it after an element has been appended.
LEMMA InAppend ==
  ASSUME NEW S, NEW s \in Seq(S), NEW x \in S
  PROVE  \A i \in DOMAIN s : \E j \in DOMAIN Append(s, x) : Append(s, x)[j] = s[i]
<1>1. /\ Len(s) \in Nat /\ DOMAIN s = 1..Len(s) /\ DOMAIN Append(s, x) = 1..(Len(s) + 1)
      /\ \A i \in 1..Len(s) : Append(s, x)[i] = s[i]
  BY LenProperties, AppendProperties, SMT
<1>2. \A i \in DOMAIN s : i \in 1..(Len(s) + 1)
  BY <1>1, SMT
<1> QED
  BY <1>1, <1>2

\* And so is the element.
LEMMA InAppendToo ==
  ASSUME NEW S, NEW s \in Seq(S), NEW x \in S
  PROVE  \E j \in DOMAIN Append(s, x) : Append(s, x)[j] = x
<1>1. Len(s) \in Nat /\ DOMAIN Append(s, x) = 1..(Len(s) + 1) /\ Append(s, x)[Len(s) + 1] = x
  BY LenProperties, AppendProperties, SMT
<1>2. \E j \in 1..(Len(s) + 1) : j = Len(s) + 1
  BY <1>1, SMT
<1> QED
  BY <1>1, <1>2

\* Whatever is in a sequence is its head or in its tail.
LEMMA InTail ==
  ASSUME NEW S, NEW s \in Seq(S), s # <<>>
  PROVE  \A i \in DOMAIN s : s[i] = Head(s) \/ \E j \in DOMAIN Tail(s) : Tail(s)[j] = s[i]
<1> DEFINE v == Tail(s)
<1>1. Len(s) \in Nat \ {0} /\ DOMAIN s = 1..Len(s) /\ Head(s) = s[1]
  BY LenProperties, EmptySeq, HeadTailProperties, SMT
<1>2. v \in Seq(S) /\ DOMAIN v = 1..(Len(s) - 1) /\ \A i \in 1..(Len(s) - 1) : v[i] = s[i + 1]
  BY <1>1, HeadTailProperties, LenProperties
<1> HIDE DEF v
<1>3. ASSUME NEW i \in DOMAIN s, i # 1 PROVE i - 1 \in DOMAIN v /\ v[i - 1] = s[i]
  <2>1. i - 1 \in 1..(Len(s) - 1) /\ i - 1 + 1 = i
    BY <1>1, <1>3, SMT
  <2> QED
    BY <1>2, <2>1
<1> QED
  BY <1>1, <1>3 DEF v

\* So the end of a line is not lost where bytes are joined or taken off.
LEMMA EndsMove ==
  ASSUME NEW s \in Seq(AnyByte), NEW t \in Seq(AnyByte)
  PROVE  /\ Ends(s) \/ Ends(t) => Ends(s \o t)
         /\ t # <<>> => (Ends(s) \/ Ends(t) => Ends(Append(s, Head(t))) \/ Ends(Tail(t)))
<1>1. \A i \in DOMAIN s : \E j \in DOMAIN (s \o t) : (s \o t)[j] = s[i]
  BY InConcat
<1>2. \A i \in DOMAIN t : \E j \in DOMAIN (s \o t) : (s \o t)[j] = t[i]
  BY InConcatToo, SMT
<1>3. ASSUME t # <<>>, Ends(s) \/ Ends(t) PROVE Ends(Append(s, Head(t))) \/ Ends(Tail(t))
  <2>1. Head(t) \in AnyByte
    BY <1>3, HeadTailProperties
  <2>2. \A i \in DOMAIN t : t[i] = Head(t) \/ \E j \in DOMAIN Tail(t) : Tail(t)[j] = t[i]
    BY <1>3, InTail
  <2>3. \A i \in DOMAIN s : \E j \in DOMAIN Append(s, Head(t)) : Append(s, Head(t))[j] = s[i]
    BY <2>1, InAppend
  <2>4. \E j \in DOMAIN Append(s, Head(t)) : Append(s, Head(t))[j] = Head(t)
    BY <2>1, InAppendToo
  <2> QED
    BY <1>3, <2>2, <2>3, <2>4 DEF Ends
<1>4. Ends(s) \/ Ends(t) => Ends(s \o t)
  BY <1>1, <1>2 DEF Ends
<1> QED
  BY <1>3, <1>4

\* Nor is the newline of a line.
LEMMA NewlineMoves ==
  /\ \A s \in Seq(Nat) : Newline(Append(s, 0))
  /\ \A s, t \in Seq(Nat) : Newline(s) \/ Newline(t) => Newline(s \o t)
  /\ \A r \in Seq(Seq(Nat)), t \in Seq(Nat) : NewlineIn(r) \/ Newline(t) => NewlineIn(Append(r, t))
  /\ \A r \in Seq(Seq(Nat)) : r # <<>> /\ NewlineIn(r) => Newline(Head(r)) \/ NewlineIn(Tail(r))
<1>1. ASSUME NEW s \in Seq(Nat) PROVE Newline(Append(s, 0))
  <2>1. \A x \in Nat : \E j \in DOMAIN Append(s, x) : Append(s, x)[j] = x
    BY InAppendToo
  <2> QED
    BY <2>1 DEF Newline
<1>2. ASSUME NEW s \in Seq(Nat), NEW t \in Seq(Nat) PROVE Newline(s) \/ Newline(t) => Newline(s \o t)
  <2>1. \A i \in DOMAIN s : \E j \in DOMAIN (s \o t) : (s \o t)[j] = s[i]
    BY InConcat
  <2>2. \A i \in DOMAIN t : \E j \in DOMAIN (s \o t) : (s \o t)[j] = t[i]
    BY InConcatToo, SMT
  <2> QED
    BY <2>1, <2>2 DEF Newline
<1>3. ASSUME NEW r \in Seq(Seq(Nat)), NEW t \in Seq(Nat)
      PROVE  NewlineIn(r) \/ Newline(t) => NewlineIn(Append(r, t))
  <2>1. \A i \in DOMAIN r : \E j \in DOMAIN Append(r, t) : Append(r, t)[j] = r[i]
    BY InAppend
  <2>2. \E j \in DOMAIN Append(r, t) : Append(r, t)[j] = t
    BY InAppendToo
  <2> QED
    BY <2>1, <2>2 DEF NewlineIn
<1>4. ASSUME NEW r \in Seq(Seq(Nat)), r # <<>>, NewlineIn(r)
      PROVE  Newline(Head(r)) \/ NewlineIn(Tail(r))
  <2>1. \A i \in DOMAIN r : r[i] = Head(r) \/ \E j \in DOMAIN Tail(r) : Tail(r)[j] = r[i]
    BY <1>4, InTail
  <2> QED
    BY <1>4, <2>1 DEF NewlineIn
<1> QED
  BY <1>1, <1>2, <1>3, <1>4

\* An envelope and an answer end a line.
LEMMA AnswersEnd ==
  /\ Ends(<<Envelope>>)
  /\ \A k \in Nat, n \in Answers : Ends(Answer(k, n))
<1>1. Ends(<<Envelope>>)
  BY SMT DEF Ends, Envelope, Byte
<1>2. ASSUME NEW k \in Nat, NEW n \in Answers PROVE Ends(Answer(k, n))
  <2>1. n \in 1..n
    BY StatsAssumption, SMT
  <2>2. n \in DOMAIN Answer(k, n) /\ Answer(k, n)[n].end
    BY <2>1 DEF Answer, Byte
  <2> QED
    BY <2>2 DEF Ends
<1> QED
  BY <1>1, <1>2

\* The parts of the invariant, initially.
LEMMA OwedInit == Init => SleepsUnanswered /\ AnswerOwed /\ EndReached
BY DEF Init, SleepsUnanswered, AnswerOwed, EndReached, Waits, Waiting, Draining

\* A step of the holder of the lock, to a place p: only the newline begins to
\* be owed, and nobody waits who has been answered.
LEMMA OwedRequest ==
  ASSUME Inv, Own, SleepsUnanswered, AnswerOwed, NEW c \in Callers, Request(c)
  PROVE  SleepsUnanswered' /\ AnswerOwed'
<1> USE DEF client, drain, events, port, guest, run
<1>1. CASE Start(c)
  <2>1. pc' = [pc EXCEPT ![c] = "mark"] /\ pc \in [Callers -> Places] /\ Holders = {}
    BY <1>1 DEF Start, Go, Inv, InTypes
  <2>2. \A d \in Callers : pc'[d] \in {"mark", "idle", "lock"}
    BY <2>1 DEF Holders
  <2> QED
    BY <2>2 DEF SleepsUnanswered, AnswerOwed, Waits, Waiting
<1>2. CASE MarkInFlight(c) \/ ClearResponse(c) \/ PushLine(c)
  <2>1. pc[c] \in {"mark", "clear", "line"} /\ \E p \in {"clear", "line", "newline"} : Go(c, p)
    BY <1>2 DEF MarkInFlight, ClearResponse, PushLine
  <2>2. ~Waits' /\ \A d \in Callers : pc'[d] \notin {"wait", "sleep"}
    BY <2>1, PhaseOf DEF Places, Waiting
  <2> QED
    BY <2>2 DEF SleepsUnanswered, AnswerOwed
<1>3. CASE PushNewline(c)
  <2>1. pc[c] = "newline" /\ Go(c, "check") /\ Deliver(Append(pending, 0))
    BY <1>3 DEF PushNewline
  <2>2. \A d \in Callers : pc'[d] \notin {"wait", "sleep"}
    BY <2>1, PhaseOf DEF Places
  <2>3. pending \in Seq(Nat) /\ rx \in Seq(Seq(Nat)) /\ 0 \in Nat
    BY DEF Inv, InTypes
  <2>4. Append(pending, 0) \in Seq(Nat) /\ Newline(Append(pending, 0))
    BY <2>3, NewlineMoves, AppendProperties
  <2>5. NewlineIn(Append(rx, Append(pending, 0)))
    BY <2>3, <2>4, NewlineMoves
  <2>6. Owed'
    BY <2>1, <2>4, <2>5 DEF Owed, Deliver
  <2> QED
    BY <2>2, <2>6 DEF SleepsUnanswered, AnswerOwed
<1>4. CASE Check(c)
  <2>1. pc[c] = "check"
    BY <1>4 DEF Check
  <2>2. CASE Go(c, "idle")
    <3>1. ~Waits' /\ \A d \in Callers : pc'[d] \notin {"wait", "sleep"}
      BY <2>1, <2>2, PhaseOf DEF Places, Waiting
    <3> QED
      BY <3>1 DEF SleepsUnanswered, AnswerOwed
  <2>3. CASE LineEnds = {} /\ UNCHANGED respBuf
    <3>1. ~Ends(respBuf)
      BY <2>3 DEF Ends, LineEnds
    <3>2. Waits
      BY <2>1 DEF Waits, Waiting
    <3>3. UNCHANGED <<pending, rx, relay, toSched, peer, fromSched, out, txBuf, batch>>
      BY <1>4 DEF Check
    <3> QED
      BY <2>3, <3>1, <3>2, <3>3 DEF SleepsUnanswered, AnswerOwed, Owed
  <2> QED
    BY <1>4, <2>2, <2>3 DEF Check
<1>5. CASE Sleep(c)
  <2>1. /\ pc[c] = "wait" /\ Go(c, "sleep")
        /\ UNCHANGED <<respBuf, pending, rx, relay, toSched, peer, fromSched, out, txBuf, batch>>
    BY <1>5 DEF Sleep
  <2>2. ~Ends(respBuf) /\ Waits
    BY <2>1 DEF SleepsUnanswered, Waits, Waiting
  <2> QED
    BY <2>1, <2>2 DEF SleepsUnanswered, AnswerOwed, Owed
<1> QED
  BY <1>1, <1>2, <1>3, <1>4, <1>5 DEF Request

\* What is owed reaches the response buffer, or stays owed.
LEMMA OwedDrainer ==
  ASSUME Inv, Own, SleepsUnanswered, AnswerOwed, Drainer
  PROVE  SleepsUnanswered' /\ AnswerOwed'
<1> USE DEF client, drain, events, port, guest, run
<1>0. UNCHANGED <<pending, rx, relay, toSched, peer, fromSched, out>>
  BY DEF Drainer, DrainData, DrainRoute, DrainAppend, DrainCancel, DrainBye
<1>1. CASE DrainData
  <2>1. UNCHANGED <<pc, respBuf>> /\ batch' = txBuf /\ drainer = "poll"
    BY <1>1 DEF DrainData
  <2>2. batch = <<>>
    BY <2>1 DEF Own, CallerInvariant
  <2>3. Owed => Owed'
    BY <1>0, <2>1, <2>2, GoodEmpty DEF Owed
  <2> QED
    BY <2>1, <2>3 DEF SleepsUnanswered, AnswerOwed, Waits
<1>2. CASE DrainRoute
  <2>1. UNCHANGED <<pc, respBuf, txBuf>> /\ (inFlight => batch' = batch)
    BY <1>2 DEF DrainRoute
  <2>2. Waits => inFlight
    BY DEF Own, CallerInvariant, Holders, Waits, Waiting
  <2>3. Owed /\ Waits => Owed'
    BY <1>0, <2>1, <2>2 DEF Owed
  <2> QED
    BY <2>1, <2>3 DEF SleepsUnanswered, AnswerOwed, Waits
<1>3. CASE DrainAppend
  <2>1. NotifyAll /\ BufferFree /\ UNCHANGED txBuf
    BY <1>3 DEF DrainAppend
  <2>2. \A d \in Callers : pc'[d] \notin {"wait", "sleep"}
    BY <2>1 DEF NotifyAll, BufferFree
  <2>3. ASSUME Waits', ~Ends(respBuf') PROVE Owed'
    <3>1. respBuf' = respBuf \o batch
      BY <1>3, <2>3, AnswersEnd DEF DrainAppend
    <3>2. respBuf \in Seq(AnyByte) /\ batch \in Seq(AnyByte)
      BY FreshIsAny DEF Inv, OutFresh, BufFresh
    <3>3. ~Ends(respBuf) /\ ~Ends(batch)
      BY <2>3, <3>1, <3>2, EndsMove
    <3>4. Owed
      BY <2>1, <2>3, <3>3, PhaseKept DEF AnswerOwed
    <3> QED
      BY <1>0, <2>1, <3>3, <3>4 DEF Owed
  <2> QED
    BY <2>2, <2>3 DEF SleepsUnanswered, AnswerOwed
<1>4. CASE DrainCancel
  <2>1. UNCHANGED <<pc, respBuf, txBuf, batch>>
    BY <1>4 DEF DrainCancel
  <2> QED
    BY <1>0, <2>1 DEF SleepsUnanswered, AnswerOwed, Waits, Owed
<1>5. CASE DrainBye
  <2>1. NotifyAll /\ BufferFree /\ UNCHANGED <<respBuf, txBuf, batch>>
    BY <1>5 DEF DrainBye
  <2>2. \A d \in Callers : pc'[d] \notin {"wait", "sleep"}
    BY <2>1 DEF NotifyAll, BufferFree
  <2>3. Waits' => Waits
    BY <2>1, PhaseKept
  <2> QED
    BY <1>0, <2>1, <2>2, <2>3 DEF SleepsUnanswered, AnswerOwed, Owed
<1> QED
  BY <1>1, <1>2, <1>3, <1>4, <1>5 DEF Drainer

\* The relay passes on what is owed, or sends an envelope in its place; so
\* does a scheduler.
LEMMA OwedRelay ==
  ASSUME Inv, Own, Owed, Relay \/ Connect \/ Stop \/ SchedStart \/ SchedAnswer \/ SchedExit \/ BspEnds
  PROVE  Owed'
<1> USE DEF client, drain, events, port, guest, run
<1>0. /\ pending \in Seq(Nat) /\ rx \in Seq(Seq(Nat)) /\ toSched \in Seq(Nat)
      /\ fromSched \in Seq(FreshByte) /\ out \in Seq(FreshByte) /\ txBuf \in Seq(FreshByte)
  BY DEF Inv, InTypes, OutFresh
<1>1. CASE OpenPort
  <2>1. /\ UNCHANGED <<toSched, peer, fromSched, out, txBuf, batch>> /\ relay = "closed"
        /\ rx' = IF pending = <<>> THEN rx ELSE Append(rx, pending)
    BY <1>1 DEF OpenPort, RelayAt
  <2>2. NewlineIn(rx) \/ Newline(pending) => NewlineIn(Append(rx, pending))
    BY <1>0, NewlineMoves
  <2>3. pending = <<>> => ~Newline(pending)
    BY SMT DEF Newline
  <2> QED
    BY <2>1, <2>2, <2>3 DEF Owed
<1>2. CASE Refuse \/ LoseSocket \/ (Forward /\ ~peer)
  <2>1. out' = <<Envelope>>
    BY <1>2 DEF Refuse, LoseSocket, Forward
  <2> QED
    BY <2>1, AnswersEnd DEF Owed
<1>3. CASE PortIsEmpty
  <2>1. UNCHANGED <<pending, rx, out, txBuf, batch>> /\ relay = "lost"
    BY <1>3 DEF PortIsEmpty, RelayAt
  <2> QED
    BY <2>1 DEF Owed
<1>4. CASE Forward /\ peer
  <2>1. /\ UNCHANGED <<pending, relay, peer, fromSched, out, txBuf, batch>> /\ relay = "session"
        /\ rx # <<>> /\ rx' = Tail(rx) /\ toSched' = toSched \o Head(rx)
    BY <1>4 DEF Forward, RelayAt
  <2>2. Head(rx) \in Seq(Nat)
    BY <1>0, <2>1, HeadTailProperties
  <2>3. NewlineIn(rx) => Newline(Head(rx)) \/ NewlineIn(rx')
    BY <1>0, <2>1, NewlineMoves
  <2>4. Newline(toSched) \/ Newline(Head(rx)) => Newline(toSched')
    BY <1>0, <2>1, <2>2, NewlineMoves
  <2> QED
    BY <2>1, <2>3, <2>4 DEF Owed
<1>5. CASE Backward
  <2>1. /\ UNCHANGED <<pending, rx, relay, toSched, peer, txBuf, batch>>
        /\ out = <<>> /\ out' = fromSched
    BY <1>5 DEF Backward, RelayAt
  <2> QED
    BY <2>1, GoodEmpty DEF Owed
<1>6. CASE WritePort
  <2>1. /\ UNCHANGED <<pending, rx, relay, toSched, peer, fromSched, batch>>
        /\ out # <<>> /\ txBuf' = Append(txBuf, Head(out)) /\ out' = Tail(out)
    BY <1>6 DEF WritePort
  <2>2. Ends(txBuf) \/ Ends(out) => Ends(txBuf') \/ Ends(out')
    BY <1>0, <2>1, EndsMove, FreshIsAny
  <2> QED
    BY <2>1, <2>2 DEF Owed
<1>7. CASE Stop \/ BspEnds
  BY <1>7 DEF Stop, BspEnds, GuestStops, Owed
<1>8. CASE Connect
  <2>1. UNCHANGED <<pending, rx, out, txBuf, batch>> /\ relay = "wait"
    BY <1>8 DEF Connect, RelayAt
  <2> QED
    BY <2>1 DEF Owed
<1>9. CASE SchedStart
  BY <1>9 DEF SchedStart, Owed
<1>10. CASE SchedExit
  <2>1. UNCHANGED <<pending, rx, relay, out, txBuf, batch>> /\ peer' = FALSE
    BY <1>10 DEF SchedExit
  <2> QED
    BY <2>1 DEF Owed
<1>11. CASE SchedAnswer
  <2>1. UNCHANGED <<pending, rx, relay, peer, out, txBuf, batch>>
    BY <1>11 DEF SchedAnswer
  <2>2. Ends(fromSched')
    <3>1. PICK e \in DOMAIN toSched, n \in Answers :
             fromSched' = fromSched \o Answer(IF e = 2 THEN toSched[1] ELSE 0, n)
      BY <1>11 DEF SchedAnswer
    <3> DEFINE k == IF e = 2 THEN toSched[1] ELSE 0
    <3>2. k \in Nat
      <4>1. /\ Len(toSched) \in Nat /\ DOMAIN toSched = 1..Len(toSched)
            /\ \A i \in 1..Len(toSched) : toSched[i] \in Nat
        BY <1>0, LenProperties
      <4>2. e = 2 => 1 \in 1..Len(toSched)
        BY <4>1, SMT
      <4> QED
        BY <4>1, <4>2
    <3>3. Answer(k, n) \in Seq(FreshByte) /\ Ends(Answer(k, n))
      BY <3>2, AnswerFresh, AnswersEnd
    <3>4. fromSched' = fromSched \o Answer(k, n)
      BY <3>1
    <3> HIDE DEF k
    <3> QED
      BY <1>0, <3>3, <3>4, EndsMove, FreshIsAny
  <2> QED
    BY <2>1, <2>2 DEF Owed
<1> QED
  BY <1>1, <1>2, <1>3, <1>4, <1>5, <1>6, <1>7, <1>8, <1>9, <1>10, <1>11 DEF Relay

\* Every step keeps what is owed to a caller that waits.
LEMMA OwedNext ==
  Inv /\ Own /\ SleepsUnanswered /\ AnswerOwed /\ [Next]_vars => SleepsUnanswered' /\ AnswerOwed'
<1> SUFFICES ASSUME Inv, Own, SleepsUnanswered, AnswerOwed, [Next]_vars
             PROVE  SleepsUnanswered' /\ AnswerOwed'
  OBVIOUS
<1> USE DEF client, drain, events, port, guest, run
<1>1. CASE Relay \/ Connect \/ Stop \/ SchedStart \/ SchedAnswer \/ SchedExit \/ BspEnds
  <2>1. UNCHANGED <<pc, respBuf>>
    BY <1>1 DEF Relay, OpenPort, Refuse, PortIsEmpty, Forward, Backward, LoseSocket, WritePort,
                Connect, Stop, SchedStart, SchedAnswer, SchedExit, BspEnds
  <2>2. Owed => Owed'
    BY <1>1, OwedRelay
  <2> QED
    BY <2>1, <2>2 DEF SleepsUnanswered, AnswerOwed, Waits
<1>2. CASE (\E c \in Clones : Call(c)) \/ PeriodicDue
  <2>1. UNCHANGED <<respBuf, pending, rx, relay, toSched, peer, fromSched, out, txBuf, batch>>
    BY <1>2 DEF Call, PeriodicDue
  <2>2. UNCHANGED pc \/ \E c \in Callers : Go(c, "lock")
    BY <1>2 DEF Call, PeriodicDue, Callers
  <2>3. \A c \in Callers : pc'[c] = pc[c] \/ pc'[c] = "lock"
    BY <2>2 DEF Go, Inv, InTypes
  <2>4. Owed => Owed'
    BY <2>1 DEF Owed
  <2> QED
    BY <2>1, <2>3, <2>4 DEF SleepsUnanswered, AnswerOwed, Waits, Waiting
<1>3. CASE Coordinator \/ Kill \/ CollectResults \/ UNCHANGED vars
  <2>1. UNCHANGED <<pc, respBuf, pending, rx, relay, toSched, peer, fromSched, out, txBuf, batch>>
    BY <1>3 DEF Coordinator, PeriodicFreeze, Rendezvous, PeriodicStore, CoordReadsKill, CoordExits,
                Kill, CollectResults, vars
  <2> QED
    BY <2>1 DEF SleepsUnanswered, AnswerOwed, Waits, Owed
<1> QED
  BY <1>1, <1>2, <1>3, OwedRequest, OwedDrainer DEF Next

\* The end of the run: the steps of the callers and the drainer.
LEMMA EndThreads ==
  ASSUME Inv, Own, EndReached, (\E c \in Callers : Request(c)) \/ Drainer
  PROVE  EndReached'
<1> USE DEF client, drain, events, port, guest, run
<1>0. UNCHANGED <<kill, coord, end>>
  BY DEF Request, Start, MarkInFlight, ClearResponse, PushLine, PushNewline, Check, Sleep,
         Drainer, DrainData, DrainRoute, DrainAppend, DrainCancel, DrainBye
<1>1. ASSUME NEW c \in Callers, Request(c) PROVE EndReached'
  <2>1. UNCHANGED <<drainer, killEvt>>
    BY <1>1 DEF Request, Start, MarkInFlight, ClearResponse, PushLine, PushNewline, Check, Sleep
  <2>2. \E p \in Places : Go(c, p) /\ (p = "sleep" => pc[c] = "wait") /\ (p = "wait" => ~kill)
    BY <1>1 DEF Request, Start, MarkInFlight, ClearResponse, PushLine, PushNewline, Check, Sleep,
                Places
  <2>3. \A d \in Callers : \/ pc'[d] = pc[d]
                           \/ pc'[d] \notin {"wait", "sleep"}
                           \/ (pc'[d] = "sleep" /\ pc[d] = "wait")
                           \/ ~kill
    BY <2>2 DEF Go, Inv, InTypes
  <2>4. drainer = "gone" => kill /\ \A d \in Callers : pc'[d] \notin {"wait", "sleep"}
    BY <2>3 DEF EndReached, Draining
  <2> QED
    BY <1>0, <2>1, <2>4 DEF EndReached, Draining
<1>2. CASE DrainData \/ DrainRoute \/ DrainAppend
  <2>1. Draining /\ Draining' /\ drainer' # "gone" /\ UNCHANGED killEvt
    BY <1>2 DEF DrainData, DrainRoute, DrainAppend, Draining
  <2> QED
    BY <1>0, <2>1 DEF EndReached
<1>3. CASE DrainCancel
  <2>1. killEvt /\ killEvt' = FALSE /\ drainer' = "bye"
    BY <1>3 DEF DrainCancel
  <2> QED
    BY <1>0, <2>1 DEF EndReached, Draining
<1>4. CASE DrainBye
  <2>1. drainer = "bye" /\ drainer' = "gone" /\ NotifyAll /\ BufferFree /\ UNCHANGED killEvt
    BY <1>4 DEF DrainBye
  <2>2. \A d \in Callers : pc'[d] \notin {"wait", "sleep"}
    BY <2>1 DEF NotifyAll, BufferFree
  <2> QED
    BY <1>0, <2>1, <2>2 DEF EndReached, Draining
<1> QED
  BY <1>1, <1>2, <1>3, <1>4 DEF Drainer

\* The end of the run: the other steps.
LEMMA EndNext == Inv /\ Own /\ EndReached /\ [Next]_vars => EndReached'
<1> SUFFICES ASSUME Inv, Own, EndReached, [Next]_vars PROVE EndReached'
  OBVIOUS
<1> USE DEF client, drain, events, port, guest, run
<1>1. CASE Relay \/ Connect \/ Stop \/ SchedStart \/ SchedAnswer \/ SchedExit \/ UNCHANGED vars
  <2>1. UNCHANGED <<pc, drainer, kill, killEvt, coord, end>>
    BY <1>1 DEF Relay, OpenPort, Refuse, PortIsEmpty, Forward, Backward, LoseSocket, WritePort,
                Connect, Stop, SchedStart, SchedAnswer, SchedExit, vars
  <2> QED
    BY <2>1 DEF EndReached, Draining
<1>2. CASE (\E c \in Clones : Call(c)) \/ PeriodicDue
  <2>1. /\ UNCHANGED <<drainer, kill, killEvt, end>> /\ ~kill
        /\ coord' = coord \/ (coord = "idle" /\ coord' = "asking")
    BY <1>2 DEF Call, PeriodicDue
  <2> QED
    BY <2>1 DEF EndReached, Draining
<1>3. CASE Coordinator
  <2>1. UNCHANGED <<pc, drainer, kill, end>>
    BY <1>3 DEF Coordinator, PeriodicFreeze, Rendezvous, PeriodicStore, CoordReadsKill, CoordExits
  <2>2. coord # "exited"
    BY <1>3 DEF Coordinator, PeriodicFreeze, Rendezvous, PeriodicStore, CoordReadsKill, CoordExits,
                Freeze
  <2>3. end # "collected"
    BY <2>2 DEF EndReached
  <2>4. \/ coord \in {"asking", "freezing", "frozen"} /\ coord' # "exited" /\ UNCHANGED killEvt
        \/ coord = "idle" /\ coord' = "idle" /\ killEvt' = FALSE
        \/ kill /\ coord' = "exited" /\ UNCHANGED killEvt
    BY <1>3 DEF Coordinator, PeriodicFreeze, Rendezvous, PeriodicStore, CoordReadsKill, CoordExits,
                Freeze
  <2>5. CASE coord \in {"asking", "freezing", "frozen"} /\ coord' # "exited" /\ UNCHANGED killEvt
    BY <2>1, <2>3, <2>5 DEF EndReached, Draining
  <2>6. CASE coord = "idle" /\ coord' = "idle" /\ killEvt' = FALSE
    BY <2>1, <2>3, <2>6 DEF EndReached, Draining
  <2>7. CASE kill /\ coord' = "exited" /\ UNCHANGED killEvt
    BY <2>1, <2>3, <2>7 DEF EndReached, Draining
  <2> QED
    BY <2>4, <2>5, <2>6, <2>7
<1>4. CASE Kill \/ BspEnds \/ CollectResults
  <2>1. /\ UNCHANGED <<pc, drainer, coord>> /\ killEvt' = TRUE
        /\ end' = "collected" => end = "collected" \/ coord = "exited"
        /\ kill' = TRUE \/ (kill' = kill /\ (kill \/ end = "bsp"))
    BY <1>4 DEF Kill, BspEnds, CollectResults
  <2>2. kill'
    <3>1. end = "bsp" => kill
      BY DEF EndReached
    <3> QED
      BY <2>1, <3>1, SMT
  <2> QED
    BY <2>1, <2>2 DEF EndReached
<1> QED
  BY <1>1, <1>2, <1>3, <1>4, EndThreads DEF Next

---------------------------------------------------------------------------
\* A caller that neither returns nor goes on is asleep, and holds the lock
\* alone.
LEMMA OnlySleepersStop ==
  ASSUME Inv, NEW c \in Callers, pc[c] # "idle", \A d \in Callers : ~CallerGoesOn(d)
  PROVE  (\E d \in Callers : pc[d] = "sleep") /\ DeviceFree /\ BufferFree
<1>0. \A d \in Callers : pc[d] \in Places
  BY DEF Inv, InTypes
<1>1. \A d \in Callers : pc[d] \notin {"mark", "newline", "check", "wait"}
  BY DEF CallerGoesOn
<1>2. DeviceFree /\ BufferFree
  BY <1>1 DEF DeviceFree, BufferFree
<1>3. \A d \in Callers : pc[d] \in {"idle", "lock", "sleep"}
  BY <1>0, <1>1, <1>2 DEF CallerGoesOn, Places
<1>4. CASE Holders = {}
  <2>1. pc[c] = "lock"
    BY <1>3, <1>4 DEF Holders
  <2> QED
    BY <1>2, <1>4, <2>1 DEF CallerGoesOn
<1>5. CASE Holders # {}
  BY <1>2, <1>3, <1>5 DEF Holders
<1> QED
  BY <1>4, <1>5

\* After kill, kill_evt reaches whoever sleeps.
LEMMA KillWakes ==
  ASSUME Inv, Own, Stages, EndReached, kill, BufferFree, NEW c \in Callers, pc[c] = "sleep"
  PROVE  GoesOn
<1>1. CASE drainer = "gone"
  BY <1>1 DEF EndReached
<1>2. CASE drainer \in {"route", "append", "bye"}
  BY <1>2 DEF GoesOn, DrainerGoesOn
<1>3. CASE drainer = "poll"
  <2>1. CASE killEvt
    BY <1>3, <2>1 DEF GoesOn, DrainerGoesOn
  <2>2. CASE ~killEvt
    <3>1. coord \in {"idle", "exited"} /\ end # "collected"
      BY <1>3, <2>2 DEF EndReached, Draining
    <3>2. CASE coord = "idle"
      BY <3>2 DEF GoesOn, CoordGoesOn
    <3>3. CASE coord = "exited"
      <4>1. end \in {"run", "bsp"}
        BY <3>1 DEF Stages
      <4> QED
        BY <3>3, <4>1 DEF GoesOn, RunGoesOn
    <3> QED
      BY <3>1, <3>2, <3>3
  <2> QED
    BY <2>1, <2>2
<1> QED
  BY <1>1, <1>2, <1>3 DEF Stages

\* Before it, what is owed to a sleeper is on its way, and moves.
LEMMA OwedMoves ==
  ASSUME Inv, Own, Stages, EndReached, Owed, ~kill, DeviceFree, BufferFree
  PROVE  GoesOn
<1>1. drainer \in {"poll", "route", "append"}
  BY DEF EndReached, Draining
<1>2. CASE Freeze
  BY <1>2 DEF GoesOn, CoordGoesOn
<1>3. CASE relay = "stopped"
  BY <1>3 DEF GoesOn, RunGoesOn
<1>4. CASE drainer \in {"route", "append"}
  BY <1>4 DEF GoesOn, DrainerGoesOn
<1>5. CASE drainer = "poll" /\ ~Freeze /\ relay # "stopped"
  <2>1. Running /\ batch = <<>>
    BY <1>5 DEF Running, Freeze, Own, CallerInvariant
  <2>2. CASE out # <<>>
    BY <2>1, <2>2 DEF GoesOn, RelayGoesOn
  <2>3. CASE txBuf # <<>>
    BY <1>5, <2>3 DEF GoesOn, DrainerGoesOn
  <2>4. CASE out = <<>> /\ txBuf = <<>>
    <3>1. Newline(pending) \/ NewlineIn(rx) \/ (relay = "session" /\ (Newline(toSched) \/ ~peer \/ Ends(fromSched)))
      BY <1>5, <2>1, <2>4, GoodEmpty DEF Owed
    <3>2. relay \in {"closed", "wait", "session", "lost"}
      BY <1>5 DEF Own, PortInvariant
    <3>3. \A p : relay = p => RelayAt(p)
      BY <2>1, <2>4 DEF RelayAt
    <3>4. CASE relay \in {"closed", "lost"}
      BY <3>3, <3>4 DEF GoesOn, RelayGoesOn
    <3>5. CASE relay \in {"wait", "session"}
      <4>1. pending = <<>>
        BY <3>5 DEF Own, PortInvariant
      <4>2. ~Newline(pending)
        BY <4>1, SMT DEF Newline
      <4>3. NewlineIn(rx) => rx # <<>>
        BY SMT DEF NewlineIn
      <4>4. CASE rx # <<>>
        BY <3>3, <3>5, <4>4 DEF GoesOn, RelayGoesOn
      <4>5. CASE rx = <<>>
        <5>1. relay = "session" /\ (Newline(toSched) \/ ~peer \/ Ends(fromSched))
          BY <3>1, <4>2, <4>3, <4>5
        <5>2. Ends(fromSched) => fromSched # <<>>
          BY GoodEmpty
        <5>3. CASE peer /\ Newline(toSched)
          BY <2>1, <5>3 DEF GoesOn, SchedGoesOn, Newline
        <5>4. CASE ~peer \/ fromSched # <<>>
          BY <3>3, <5>1, <5>4 DEF GoesOn, RelayGoesOn
        <5> QED
          BY <5>1, <5>2, <5>3, <5>4
      <4> QED
        BY <4>4, <4>5
    <3> QED
      BY <3>2, <3>4, <3>5
  <2> QED
    BY <2>2, <2>3, <2>4
<1> QED
  BY <1>1, <1>2, <1>3, <1>4, <1>5

\* For every number of callers, requests, captures and schedulers, and with
\* no time-out anywhere: where no thread, relay or connected scheduler can go
\* on by itself, request_raw has returned to every caller, and after kill the
\* coordinator has left.
THEOREM RequestsNeverHang == Spec => []NoRequestHangs
<1> DEFINE Served == SleepsUnanswered /\ AnswerOwed /\ EndReached
<1>1. Init => Served
  BY OwedInit
<1>2. (Inv /\ Own /\ Typed) /\ Served /\ [Next]_vars => Served'
  BY OwedNext, EndNext
<1>3. (Inv /\ Own /\ Typed) /\ Served => NoRequestHangs
  <2> SUFFICES ASSUME Inv, Own, Typed, Served, ~GoesOn
               PROVE  (\A c \in Callers : pc[c] = "idle") /\ (kill => coord = "exited")
    BY DEF NoRequestHangs
  <2>1. ASSUME NEW c \in Callers, pc[c] # "idle" PROVE FALSE
    <3>1. \A d \in Callers : ~CallerGoesOn(d)
      BY DEF GoesOn
    <3>2. PICK d \in Callers : pc[d] = "sleep" /\ DeviceFree /\ BufferFree
      BY <2>1, <3>1, OnlySleepersStop
    <3>3. CASE kill
      BY <3>2, <3>3, KillWakes DEF Typed
    <3>4. CASE ~kill
      <4>1. Owed
        BY <3>2 DEF SleepsUnanswered, AnswerOwed, Waits, Waiting
      <4> QED
        BY <3>2, <3>4, <4>1, OwedMoves DEF Typed
    <3> QED
      BY <3>3, <3>4
  <2>2. Coord \in Callers /\ coord \in {"idle", "asking", "freezing", "frozen", "exited"}
    BY DEF Callers, Typed, Stages
  <2>3. ASSUME kill, coord # "exited" PROVE FALSE
    BY <2>1, <2>2, <2>3 DEF GoesOn, CoordGoesOn, Freeze
  <2> QED
    BY <2>1, <2>3
<1> HIDE DEF Served
<1> QED
  BY <1>1, <1>2, <1>3, TypedInvariant, PTL DEF Spec

---------------------------------------------------------------------------
(* What goes on by itself ends *)

\* Where the holder of the lock is, before and after its step.
LEMMA StepOf ==
  ASSUME Inv, NEW c \in Callers, NEW p \in Places, pc[c] \in Places \ {"idle", "lock"}, Go(c, p)
  PROVE  \A q \in Places \ {"idle", "lock"} : (At(q) <=> pc[c] = q) /\ (At(q)' <=> p = q)
<1>1. \A d \in Callers \ {c} : pc[d] \in {"idle", "lock"} /\ pc'[d] = pc[d]
  BY PhaseOf
<1>2. pc'[c] = p
  BY PhaseOf
<1>3. \A q \in Places \ {"idle", "lock"} : At(q) <=> pc[c] = q
  BY <1>1 DEF At
<1>4. \A q \in Places \ {"idle", "lock"} : At(q)' <=> p = q
  BY <1>1, <1>2 DEF At
<1> QED
  BY <1>3, <1>4

\* A request uses up its start, its pushes or its looks at the buffer.
LEMMA RequestEnds ==
  ASSUME Inv, Typed, NEW c \in Callers, Request(c)
  PROVE  LessLeft
<1> USE DEF client, drain, events, port, guest, run
<1>1. UNCHANGED <<kill, killEvt, drainer, coord, end>>
  BY DEF Request, Start, MarkInFlight, ClearResponse, PushLine, PushNewline, Check, Sleep
<1>2. EndLeft' = EndLeft /\ CaptureLeft' = CaptureLeft /\ EventLeft' = EventLeft /\ DrainerLeft' = DrainerLeft
  BY <1>1 DEF EndLeft, CaptureLeft, EventLeft, DrainerLeft
<1>3. CASE Start(c)
  <2>1. StartsLeft' < StartsLeft
    BY <1>3, AllowedSize, SMT DEF Start, StartsLeft, Inv, InTypes
  <2> QED
    BY <1>2, <2>1 DEF LessLeft, Falls
<1>4. ASSUME MarkInFlight(c) \/ ClearResponse(c) \/ PushLine(c) \/ PushNewline(c)
      PROVE  PushLeft' < PushLeft /\ StartsLeft' = StartsLeft
  <2>1. PICK q \in Places \ {"idle", "lock"}, p \in Places \ {"idle", "lock"} :
          /\ pc[c] = q /\ Go(c, p)
          /\ <<q, p>> \in {<<"mark", "clear">>, <<"clear", "line">>, <<"line", "newline">>, <<"newline", "check">>}
    BY <1>4 DEF MarkInFlight, ClearResponse, PushLine, PushNewline, Places
  <2>2. \A r \in {"mark", "clear", "line", "newline"} : (At(r) <=> q = r) /\ (At(r)' <=> p = r)
    BY <2>1, StepOf DEF Places
  <2>3. PushLeft' < PushLeft
    BY <2>1, <2>2, SMT DEF PushLeft
  <2>4. StartsLeft' = StartsLeft
    BY <1>4 DEF MarkInFlight, ClearResponse, PushLine, PushNewline, StartsLeft
  <2> QED
    BY <2>3, <2>4
<1>5. ASSUME Check(c) \/ Sleep(c)
      PROVE  /\ LookLeft' < LookLeft /\ PushLeft' = PushLeft
             /\ UNCHANGED <<seq, relay, rx, toSched, fromSched, out, txBuf>>
  <2>1. PICK q \in Places \ {"idle", "lock"}, p \in Places \ {"lock"} :
          /\ pc[c] = q /\ Go(c, p)
          /\ <<q, p>> \in {<<"check", "idle">>, <<"check", "wait">>, <<"wait", "sleep">>}
    BY <1>5 DEF Check, Sleep, Places
  <2>2. \A r \in {"mark", "clear", "line", "newline", "check", "wait"} :
          (At(r) <=> q = r) /\ (At(r)' <=> p = r)
    BY <2>1, StepOf DEF Places
  <2>3. LookLeft' < LookLeft
    BY <2>1, <2>2, SMT DEF LookLeft
  <2>4. PushLeft' = PushLeft
    BY <2>1, <2>2, SMT DEF PushLeft
  <2>5. UNCHANGED <<seq, relay, rx, toSched, fromSched, out, txBuf>>
    BY <1>5 DEF Check, Sleep
  <2> QED
    BY <2>3, <2>4, <2>5
<1>6. CASE MarkInFlight(c) \/ ClearResponse(c) \/ PushLine(c) \/ PushNewline(c)
  BY <1>2, <1>4, <1>6 DEF LessLeft, Falls
<1>7. CASE Check(c) \/ Sleep(c)
  <2>1. /\ StartsLeft' = StartsLeft /\ OpenLeft' = OpenLeft /\ SessionLeft' = SessionLeft
        /\ BatchLeft' = BatchLeft
    BY <1>1, <1>5, <1>7 DEF StartsLeft, OpenLeft, SessionLeft, BatchLeft
  <2>2. /\ Len(rx') = Len(rx) /\ Len(toSched') = Len(toSched) /\ Len(fromSched') = Len(fromSched)
        /\ Len(out') = Len(out) /\ Len(txBuf') = Len(txBuf)
    BY <1>5, <1>7
  <2> QED
    BY <1>2, <1>5, <1>7, <2>1, <2>2 DEF LessLeft, Falls
<1> QED
  BY <1>3, <1>6, <1>7 DEF Request

\* The drainer uses up the bytes of the device, its batch, or itself.
LEMMA DrainerEnds ==
  ASSUME Inv, Typed, Drainer
  PROVE  LessLeft
<1> USE DEF client, drain, events, port, guest, run
<1>1. UNCHANGED <<kill, coord, end, seq, relay, rx, toSched, fromSched, out>>
  BY DEF Drainer, DrainData, DrainRoute, DrainAppend, DrainCancel, DrainBye
<1>2. EndLeft' = EndLeft /\ CaptureLeft' = CaptureLeft
  BY <1>1 DEF EndLeft, CaptureLeft
<1>3. CASE DrainCancel
  <2>1. EventLeft' < EventLeft
    BY <1>3, SMT DEF DrainCancel, EventLeft
  <2> QED
    BY <1>2, <2>1 DEF LessLeft, Falls
<1>4. CASE DrainBye
  <2>1. EventLeft' = EventLeft
    BY <1>4 DEF DrainBye, EventLeft
  <2>2. DrainerLeft' < DrainerLeft
    BY <1>4, SMT DEF DrainBye, DrainerLeft
  <2> QED
    BY <1>2, <2>1, <2>2 DEF LessLeft, Falls
<1>5. CASE DrainData \/ DrainRoute \/ DrainAppend
  <2>1. /\ UNCHANGED killEvt /\ (UNCHANGED pc \/ NotifyAll)
        /\ drainer # "gone" /\ drainer' # "gone"
    BY <1>5 DEF DrainData, DrainRoute, DrainAppend
  <2>2. EventLeft' = EventLeft /\ DrainerLeft' = DrainerLeft /\ StartsLeft' = StartsLeft
    BY <1>1, <2>1 DEF EventLeft, DrainerLeft, StartsLeft
  <2>3. PushLeft' = PushLeft
    <3>1. pc \in [Callers -> Places]
      BY DEF Inv, InTypes
    <3>2. \A q \in {"mark", "clear", "line", "newline"} : At(q)' <=> At(q)
      BY <2>1, <3>1 DEF At, NotifyAll
    <3> QED
      BY <3>2, SMT DEF PushLeft
  <2>4. /\ OpenLeft' = OpenLeft /\ SessionLeft' = SessionLeft
        /\ Len(rx') = Len(rx) /\ Len(toSched') = Len(toSched) /\ Len(fromSched') = Len(fromSched)
        /\ Len(out') = Len(out)
    BY <1>1 DEF OpenLeft, SessionLeft
  <2>5. CASE DrainData
    <3>1. txBuf # <<>> /\ txBuf' = <<>> /\ txBuf \in Seq(FreshByte)
      BY <2>5 DEF DrainData, Inv, OutFresh
    <3>2. Len(txBuf) \in Nat \ {0} /\ Len(<<>>) = 0
      BY <3>1, LenProperties, EmptySeq
    <3>3. Len(txBuf') < Len(txBuf)
      BY <3>1, <3>2, SMT
    <3> QED
      BY <1>2, <2>2, <2>3, <2>4, <3>3 DEF LessLeft, Falls
  <2>6. CASE DrainRoute \/ DrainAppend
    <3>1. UNCHANGED txBuf /\ BatchLeft' < BatchLeft
      BY <2>6, SMT DEF DrainRoute, DrainAppend, BatchLeft
    <3> QED
      BY <1>2, <2>2, <2>3, <2>4, <3>1 DEF LessLeft, Falls
  <2> QED
    BY <1>5, <2>5, <2>6
<1> QED
  BY <1>3, <1>4, <1>5 DEF Drainer

\* A list is longer than its tail.
LEMMA TailIsShorter ==
  ASSUME NEW S, NEW s \in Seq(S), s # <<>>
  PROVE  Len(Tail(s)) < Len(s) /\ Len(<<>>) < Len(s)
<1>1. Len(Tail(s)) = Len(s) - 1
  BY HeadTailProperties
<1>2. Len(s) \in Nat \ {0} /\ Len(<<>>) = 0
  BY LenProperties, EmptySeq
<1> QED
  BY <1>1, <1>2, SMT

\* The relay and the scheduler use up the port, the requests read from it, the
\* session and the answers on their way back.
LEMMA GuestEnds ==
  ASSUME Inv, Relay \/ SchedAnswer
  PROVE  LessLeft
<1> USE DEF client, drain, events, port, guest, run
<1>1. UNCHANGED <<pc, seq, kill, killEvt, drainer, coord, end>>
  BY DEF Relay, OpenPort, Refuse, PortIsEmpty, Forward, Backward, LoseSocket, WritePort, SchedAnswer
<1>2. /\ EndLeft' = EndLeft /\ CaptureLeft' = CaptureLeft /\ EventLeft' = EventLeft
      /\ DrainerLeft' = DrainerLeft /\ StartsLeft' = StartsLeft /\ PushLeft' = PushLeft
  BY <1>1 DEF EndLeft, CaptureLeft, EventLeft, DrainerLeft, StartsLeft, PushLeft, At
<1>3. /\ rx \in Seq(Seq(Nat)) /\ toSched \in Seq(Nat) /\ fromSched \in Seq(FreshByte)
      /\ out \in Seq(FreshByte)
  BY DEF Inv, InTypes, OutFresh
<1>4. CASE OpenPort
  <2>1. OpenLeft' < OpenLeft
    BY <1>4, SMT DEF OpenPort, RelayAt, OpenLeft
  <2> QED
    BY <1>2, <2>1 DEF LessLeft, Falls
<1>5. CASE Refuse \/ Forward
  <2>1. relay # "closed" /\ relay' # "closed"
    BY <1>5 DEF Refuse, Forward, RelayAt
  <2>2. OpenLeft' = OpenLeft
    BY <2>1 DEF OpenLeft
  <2>3. Len(rx') < Len(rx)
    BY <1>3, <1>5, TailIsShorter DEF Refuse, Forward
  <2> QED
    BY <1>2, <2>2, <2>3 DEF LessLeft, Falls
<1>6. CASE PortIsEmpty \/ LoseSocket
  <2>1. relay # "closed" /\ relay' # "closed" /\ UNCHANGED rx
    BY <1>6 DEF PortIsEmpty, LoseSocket, RelayAt
  <2>2. OpenLeft' = OpenLeft /\ Len(rx') = Len(rx)
    BY <2>1 DEF OpenLeft
  <2>3. SessionLeft' < SessionLeft
    BY <1>6, SMT DEF PortIsEmpty, LoseSocket, RelayAt, SessionLeft
  <2> QED
    BY <1>2, <2>2, <2>3 DEF LessLeft, Falls
<1>7. CASE Backward \/ WritePort \/ SchedAnswer
  <2>1. UNCHANGED <<relay, rx>>
    BY <1>7 DEF Backward, WritePort, SchedAnswer
  <2>2. OpenLeft' = OpenLeft /\ SessionLeft' = SessionLeft /\ Len(rx') = Len(rx)
    BY <2>1 DEF OpenLeft, SessionLeft
  <2>3. CASE Backward
    <3>1. Len(fromSched') < Len(fromSched)
      BY <1>3, <2>3, TailIsShorter DEF Backward
    <3>2. Len(toSched') = Len(toSched)
      BY <2>3 DEF Backward
    <3> QED
      BY <1>2, <2>2, <3>1, <3>2 DEF LessLeft, Falls
  <2>4. CASE WritePort
    <3>1. Len(out') < Len(out)
      BY <1>3, <2>4, TailIsShorter DEF WritePort
    <3>2. Len(toSched') = Len(toSched) /\ Len(fromSched') = Len(fromSched)
      BY <2>4 DEF WritePort
    <3> QED
      BY <1>2, <2>2, <3>1, <3>2 DEF LessLeft, Falls
  <2>5. CASE SchedAnswer
    <3>1. PICK e \in DOMAIN toSched : toSched' = SubSeq(toSched, e + 1, Len(toSched))
      BY <2>5 DEF SchedAnswer
    <3>2. Len(toSched) \in Nat /\ e \in 1..Len(toSched)
      BY <1>3, <3>1, LenProperties
    <3>3. Len(toSched') < Len(toSched)
      BY <1>3, <3>1, <3>2, SMT
    <3> QED
      BY <1>2, <2>2, <3>3 DEF LessLeft, Falls
  <2> QED
    BY <1>7, <2>3, <2>4, <2>5
<1> QED
  BY <1>4, <1>5, <1>6, <1>7 DEF Relay

\* The coordinator uses up the capture it is in, the event, or itself; the end
\* of the run, its stages.
LEMMA RunEnds ==
  ASSUME Typed, Coordinator \/ Kill \/ BspEnds \/ CollectResults
  PROVE  LessLeft
<1> USE DEF client, drain, events, port, guest, run
<1>1. CASE Kill \/ BspEnds \/ CollectResults
  <2>1. EndLeft' < EndLeft
    BY <1>1, SMT DEF Kill, BspEnds, CollectResults, EndLeft
  <2> QED
    BY <2>1 DEF LessLeft, Falls
<1>2. CASE PeriodicFreeze \/ Rendezvous \/ PeriodicStore \/ CoordExits
  <2>1. UNCHANGED <<kill, end>>
    BY <1>2 DEF PeriodicFreeze, Rendezvous, PeriodicStore, CoordExits
  <2>2. EndLeft' = EndLeft
    BY <2>1 DEF EndLeft
  <2>3. CaptureLeft' < CaptureLeft
    BY <1>2, SMT DEF PeriodicFreeze, Rendezvous, PeriodicStore, CoordExits, Freeze, CaptureLeft
  <2> QED
    BY <2>2, <2>3 DEF LessLeft, Falls
<1>3. CASE CoordReadsKill
  <2>1. EndLeft' = EndLeft /\ CaptureLeft' = CaptureLeft
    BY <1>3 DEF CoordReadsKill, EndLeft, CaptureLeft
  <2>2. EventLeft' < EventLeft
    BY <1>3, SMT DEF CoordReadsKill, EventLeft
  <2> QED
    BY <2>1, <2>2 DEF LessLeft, Falls
<1> QED
  BY <1>1, <1>2, <1>3 DEF Coordinator

\* What is left is counted in natural numbers, whatever the state: the order of
\* LessLeft is well-founded, and a run of the request path that nobody asks
\* anything of cannot go on for ever.
LeftIsNatural ==
  /\ {EndLeft, CaptureLeft, EventLeft, DrainerLeft, StartsLeft, PushLeft, OpenLeft} \subseteq Nat
  /\ {Len(rx), SessionLeft, Len(toSched), Len(fromSched), Len(out), Len(txBuf)} \subseteq Nat
  /\ {BatchLeft, LookLeft} \subseteq Nat

\* A thread never has less than nothing left to do: more requests are never
\* started than the calls and the captures of the run allow.
THEOREM LeftAlwaysNatural == Spec => []LeftIsNatural
<1>1. Inv /\ Own /\ Typed => LeftIsNatural
  <2> SUFFICES ASSUME Inv, Typed PROVE LeftIsNatural
    OBVIOUS
  <2>1. {EndLeft, CaptureLeft, EventLeft, DrainerLeft, PushLeft, OpenLeft} \subseteq Nat
    BY SMT DEF EndLeft, CaptureLeft, EventLeft, DrainerLeft, PushLeft, OpenLeft
  <2>2. StartsLeft \in Nat
    <3>1. seq \in 0..MaxSeq /\ MaxSeq \in Nat
      BY LedgerBounds, AllowedSize DEF Typed
    <3> QED
      BY <3>1, SMT DEF StartsLeft
  <2>3. {Len(rx), Len(toSched), Len(fromSched), Len(out), Len(txBuf)} \subseteq Nat
    BY LenProperties DEF Inv, InTypes, OutFresh
  <2>4. {SessionLeft, BatchLeft, LookLeft} \subseteq Nat
    BY SMT DEF SessionLeft, BatchLeft, LookLeft
  <2> QED
    BY <2>1, <2>2, <2>3, <2>4 DEF LeftIsNatural
<1> QED
  BY <1>1, TypedInvariant, PTL

\* request_raw, the drainer, the relay, the coordinator and the end of the run
\* each leave less to do with every step they take by themselves.
THEOREM ProgressAlwaysFinite == Spec => ProgressIsFinite
<1>1. Inv /\ Own /\ Typed /\ [Next]_vars => [LessLeft \/ ~Progress]_vars
  <2> SUFFICES ASSUME Inv, Typed, Progress PROVE LessLeft
    OBVIOUS
  <2> QED
    BY RequestEnds, DrainerEnds, GuestEnds, RunEnds DEF Progress
<1> QED
  BY <1>1, TypedInvariant, PTL DEF Spec, ProgressIsFinite
=============================================================================

------------------------- MODULE SchedStatsProofs -------------------------
(***************************************************************************)
(* What a request finds in the response buffer, for any number of callers, *)
(* requests, schedulers and lengths of answers: no bytes from before it    *)
(* began, and only bytes of its own answer.                                *)
(*                                                                         *)
(* The first invariant, Inv, says where old bytes can be: nowhere but in   *)
(* the response buffer, and there only until the one caller that holds     *)
(* request_lock has cleared it.                                            *)
(*                                                                         *)
(* The second, Own, follows one request on its way, as long as no envelope *)
(* has been sent and no request given up.  Before it is pushed every       *)
(* channel is empty.  Then its line and newline are somewhere on the way   *)
(* in and nothing is on the way out, or the other way round: the bytes of  *)
(* its answer, of which the last one alone ends a line, are on the way out *)
(* and the way in is empty.  So the byte that ends the request is the last *)
(* of all, and leaves everything empty for the next.                       *)
(***************************************************************************)
EXTENDS SchedStats, SequenceTheorems, TLAPS

AnyByte   == [of : Nat, end : BOOLEAN, fresh : BOOLEAN]
FreshByte == [of : Nat, end : BOOLEAN, fresh : {TRUE}]

\* A caller that has cleared the response buffer.
Cleared == {"line", "newline", "check", "wait", "sleep"}

InTypes ==
  /\ pc \in [Callers -> Places] /\ seq \in Nat
  /\ pending \in Seq(Nat) /\ rx \in Seq(Seq(Nat)) /\ toSched \in Seq(Nat)
OutFresh ==
  /\ fromSched \in Seq(FreshByte) /\ out \in Seq(FreshByte)
  /\ txBuf \in Seq(FreshByte) /\ batch \in Seq(FreshByte)
OneHolder == \A c, d \in Holders : c = d
BufFresh ==
  /\ respBuf \in Seq(AnyByte)
  /\ (\E c \in Callers : pc[c] \in Cleared) => respBuf \in Seq(FreshByte)

Inv == InTypes /\ OutFresh /\ OneHolder /\ BufFresh

---------------------------------------------------------------------------
\* Most leaves are first-order; those that need more say so.
USE Zenon

\* What the constructors of bytes build.
LEMMA FreshIsAny == \A s \in Seq(FreshByte) : s \in Seq(AnyByte)
<1>1. FreshByte \subseteq AnyByte
  BY DEF FreshByte, AnyByte
<1> QED
  BY <1>1, SeqMonotonic

\* The empty sequence is a sequence over any set.
LEMMA EmptyIsSeq == \A S : <<>> \in Seq(S)
BY EmptySeq

\* An envelope is a fresh byte.
LEMMA EnvelopeFresh == Envelope \in FreshByte /\ <<Envelope>> \in Seq(FreshByte)
<1>1. Envelope \in FreshByte
  BY SMT DEF Envelope, Byte, FreshByte
<1> QED
  BY <1>1, SMT

\* The history flag of a sequence of bytes can be set either way.
LEMMA AgedBytes ==
  ASSUME NEW s \in Seq(AnyByte)
  PROVE  Aged(s, FALSE) \in Seq(AnyByte) /\ Aged(s, TRUE) \in Seq(FreshByte)
<1>1. Len(s) \in Nat /\ DOMAIN s = 1..Len(s) /\ \A i \in 1..Len(s) : s[i] \in AnyByte
  BY LenProperties
<1>2. \A i \in 1..Len(s) : [s[i] EXCEPT !.fresh = FALSE] \in AnyByte
  BY <1>1 DEF AnyByte
<1>3. \A i \in 1..Len(s) : [s[i] EXCEPT !.fresh = TRUE] \in FreshByte
  BY <1>1 DEF AnyByte, FreshByte
<1>4. Aged(s, FALSE) \in [1..Len(s) -> AnyByte]
  BY <1>1, <1>2 DEF Aged
<1>5. Aged(s, TRUE) \in [1..Len(s) -> FreshByte]
  BY <1>1, <1>3 DEF Aged
<1>6. Aged(s, FALSE) \in Seq(AnyByte)
  BY <1>1, <1>4, SeqDef
<1>7. Aged(s, TRUE) \in Seq(FreshByte)
  BY <1>1, <1>5, SeqDef
<1> QED
  BY <1>6, <1>7

\* An answer is made of fresh bytes, as many as it is long.
LEMMA AnswerFresh ==
  ASSUME NEW k \in Nat, NEW n \in Answers
  PROVE  Answer(k, n) \in Seq(FreshByte) /\ Len(Answer(k, n)) = n
<1>1. n \in Nat
  BY StatsAssumption
<1>2. \A i \in 1..n : Byte(k, i = n) \in FreshByte
  BY DEF Byte, FreshByte
<1>3. Answer(k, n) \in [1..n -> FreshByte]
  BY <1>2 DEF Answer
<1>4. Answer(k, n) \in Seq(FreshByte)
  BY <1>1, <1>3, SeqDef
<1>5. Len(Answer(k, n)) = n
  BY <1>1, <1>3, <1>4, LenProperties, SMT
<1> QED
  BY <1>4, <1>5

\* What is left of a sequence behind one of its positions.
LEMMA RestOfSeq ==
  ASSUME NEW S, NEW s \in Seq(S), NEW e \in DOMAIN s
  PROVE  SubSeq(s, e + 1, Len(s)) \in Seq(S)
<1>1. Len(s) \in Nat /\ DOMAIN s = 1..Len(s) /\ \A i \in 1..Len(s) : s[i] \in S
  BY LenProperties
<1>2. e + 1 \in Int /\ Len(s) \in Int /\ \A i \in (e + 1)..Len(s) : s[i] \in S
  BY <1>1, SMT
<1> QED
  BY <1>2, SubSeqProperties

---------------------------------------------------------------------------
\* Inv holds initially.
LEMMA InitInv == Init => Inv
<1> SUFFICES ASSUME Init PROVE Inv
  OBVIOUS
<1>1. InTypes
  BY SMT DEF Init, InTypes, Places
<1>2. OutFresh
  BY SMT DEF Init, OutFresh
<1>3. OneHolder
  BY DEF Init, OneHolder, Holders
<1>4. BufFresh
  BY SMT DEF Init, BufFresh, Cleared
<1> QED
  BY <1>1, <1>2, <1>3, <1>4 DEF Inv

\* A step of a caller between two places inside request_raw, or to idle.
LEMMA PlaceMoves ==
  ASSUME Inv, NEW c \in Callers, NEW p \in Places, pc[c] \in Places \ {"idle", "lock"}, Go(c, p)
  PROVE  pc' \in [Callers -> Places] /\ OneHolder' /\ \A d \in Callers \ {c} : pc'[d] \in {"idle", "lock"}
<1>1. pc' = [pc EXCEPT ![c] = p] /\ pc \in [Callers -> Places]
  BY DEF Go, Inv, InTypes
<1>2. c \in Holders
  BY DEF Holders
<1>3. \A d \in Callers \ {c} : pc[d] \in {"idle", "lock"}
  BY <1>2 DEF Inv, OneHolder, Holders
<1>4. \A d \in Callers \ {c} : pc'[d] \in {"idle", "lock"}
  BY <1>1, <1>3
<1>5. OneHolder'
  BY <1>4 DEF OneHolder, Holders
<1> QED
  BY <1>1, <1>4, <1>5

\* Nothing a caller holds or waits for changes in a notification.
LEMMA NotifyKeeps ==
  ASSUME Inv, NotifyAll
  PROVE  /\ pc' \in [Callers -> Places] /\ OneHolder'
         /\ (\E c \in Callers : pc'[c] \in Cleared) => \E c \in Callers : pc[c] \in Cleared
<1>1. pc \in [Callers -> Places] /\ pc' = [c \in Callers |-> IF pc[c] = "sleep" THEN "check" ELSE pc[c]]
  BY DEF NotifyAll, Inv, InTypes
<1>2. pc' \in [Callers -> Places]
  BY <1>1 DEF Places
<1>3. \A c \in Callers : pc'[c] \in {"idle", "lock"} <=> pc[c] \in {"idle", "lock"}
  BY <1>1
<1>4. Holders' = Holders
  BY <1>3 DEF Holders
<1>5. \A c \in Callers : pc'[c] \in Cleared => pc[c] \in Cleared
  BY <1>1 DEF Cleared
<1> QED
  BY <1>2, <1>4, <1>5 DEF Inv, OneHolder

---------------------------------------------------------------------------
\* A caller that is refused, or waits for the lock, holds nothing.
LEMMA CallInv ==
  ASSUME Inv, NEW c \in Callers, pc[c] = "idle" \/ c = Coord, Go(c, "lock"),
         UNCHANGED <<seq, respBuf, batch, port, guest>>
  PROVE  Inv'
<1>1. pc' = [pc EXCEPT ![c] = "lock"] /\ pc \in [Callers -> Places]
  BY DEF Go, Inv, InTypes
<1>2. InTypes'
  BY <1>1 DEF Inv, InTypes, port, guest, Places
<1>3. OutFresh'
  BY DEF Inv, OutFresh, port, guest
<1>4. Holders' \subseteq Holders
  BY <1>1 DEF Holders
<1>5. BufFresh'
  BY <1>1 DEF Inv, BufFresh, Cleared
<1> QED
  BY <1>2, <1>3, <1>4, <1>5 DEF Inv, OneHolder

\* Inv: a caller takes the lock, clears the buffers, pushes its line.
LEMMA StartInv ==
  ASSUME Inv, NEW c \in Callers, Start(c)
  PROVE  Inv'
<1>1. pc' = [pc EXCEPT ![c] = "mark"] /\ pc \in [Callers -> Places]
  BY DEF Start, Go, Inv, InTypes
<1>2. InTypes'
  BY <1>1, SMT DEF Start, Inv, InTypes, guest, Places
<1>3. batch \in Seq(AnyByte) /\ respBuf \in Seq(AnyByte)
  BY FreshIsAny DEF Inv, OutFresh, BufFresh
<1>4. batch' \in Seq(FreshByte) /\ respBuf' \in Seq(AnyByte)
  BY <1>3, AgedBytes DEF Start
<1>5. OutFresh'
  <2>1. txBuf' \in Seq(FreshByte)
    BY EmptyIsSeq DEF Start
  <2> QED
    BY <1>4, <2>1 DEF Start, Inv, OutFresh, guest
<1>6. \A d \in Callers \ {c} : pc'[d] \in {"idle", "lock"}
  BY <1>1 DEF Start, Holders
<1>7. OneHolder'
  BY <1>6 DEF OneHolder, Holders
<1>8. BufFresh'
  BY <1>1, <1>4, <1>6 DEF BufFresh, Cleared
<1> QED
  BY <1>2, <1>5, <1>7, <1>8 DEF Inv

\* The other steps of a caller: only ClearResponse reaches a cleared place
\* from one that is not.
LEMMA RequestInv ==
  ASSUME Inv, NEW c \in Callers, Request(c)
  PROVE  Inv'
<1>1. CASE Start(c)
  BY <1>1, StartInv
<1>2. CASE MarkInFlight(c)
  <2>1. Go(c, "clear") /\ pc[c] = "mark" /\ UNCHANGED <<seq, respBuf, drain, port, guest>>
    BY <1>2 DEF MarkInFlight
  <2>2. pc' \in [Callers -> Places] /\ OneHolder' /\ \A d \in Callers \ {c} : pc'[d] \in {"idle", "lock"}
    BY <2>1, PlaceMoves DEF Places
  <2>3. pc'[c] = "clear"
    BY <2>1 DEF Go, Inv, InTypes
  <2>4. InTypes' /\ OutFresh'
    BY <2>1, <2>2 DEF Inv, InTypes, OutFresh, drain, port, guest
  <2>5. BufFresh'
    BY <2>1, <2>2, <2>3 DEF Inv, BufFresh, Cleared
  <2> QED
    BY <2>2, <2>4, <2>5 DEF Inv
<1>3. CASE ClearResponse(c)
  <2>1. Go(c, "line") /\ pc[c] = "clear" /\ respBuf' = <<>> /\ UNCHANGED <<seq, drain, port, guest>>
    BY <1>3 DEF ClearResponse
  <2>2. pc' \in [Callers -> Places] /\ OneHolder'
    BY <2>1, PlaceMoves DEF Places
  <2>3. InTypes' /\ OutFresh'
    BY <2>1, <2>2 DEF Inv, InTypes, OutFresh, drain, port, guest
  <2>4. BufFresh'
    BY <2>1, SMT DEF BufFresh
  <2> QED
    BY <2>2, <2>3, <2>4 DEF Inv
<1>4. CASE PushLine(c)
  <2>1. /\ Go(c, "newline") /\ pc[c] = "line" /\ Deliver(<<seq>>)
        /\ UNCHANGED <<seq, respBuf, drain, txBuf, out, toSched, fromSched>>
    BY <1>4 DEF PushLine
  <2>2. pc' \in [Callers -> Places] /\ OneHolder'
    BY <2>1, PlaceMoves DEF Places
  <2>3. rx' \in Seq(Seq(Nat)) /\ pending' \in Seq(Nat)
    <3>1. <<seq>> \in Seq(Nat) /\ rx \in Seq(Seq(Nat))
      BY SMT DEF Inv, InTypes
    <3>2. Append(rx, <<seq>>) \in Seq(Seq(Nat))
      BY <3>1, AppendProperties
    <3>3. CASE opened
      BY <2>1, <3>2, <3>3, EmptyIsSeq DEF Deliver
    <3>4. CASE ~opened
      BY <2>1, <3>1, <3>4 DEF Deliver
    <3> QED
      BY <3>3, <3>4
  <2>4. InTypes' /\ OutFresh'
    BY <2>1, <2>2, <2>3 DEF Inv, InTypes, OutFresh, drain
  <2>5. BufFresh'
    BY <2>1 DEF Inv, BufFresh, Cleared
  <2> QED
    BY <2>2, <2>4, <2>5 DEF Inv
<1>5. CASE PushNewline(c)
  <2>1. /\ Go(c, "check") /\ pc[c] = "newline" /\ Deliver(Append(pending, 0))
        /\ UNCHANGED <<seq, respBuf, drain, txBuf, out, toSched, fromSched>>
    BY <1>5 DEF PushNewline
  <2>2. pc' \in [Callers -> Places] /\ OneHolder'
    BY <2>1, PlaceMoves DEF Places
  <2>3. rx' \in Seq(Seq(Nat)) /\ pending' \in Seq(Nat)
    <3>1. Append(pending, 0) \in Seq(Nat) /\ rx \in Seq(Seq(Nat))
      BY AppendProperties DEF Inv, InTypes
    <3>2. Append(rx, Append(pending, 0)) \in Seq(Seq(Nat))
      BY <3>1, AppendProperties
    <3>3. CASE opened
      BY <2>1, <3>2, <3>3, EmptyIsSeq DEF Deliver
    <3>4. CASE ~opened
      BY <2>1, <3>1, <3>4 DEF Deliver
    <3> QED
      BY <3>3, <3>4
  <2>4. InTypes' /\ OutFresh'
    BY <2>1, <2>2, <2>3 DEF Inv, InTypes, OutFresh, drain
  <2>5. BufFresh'
    BY <2>1 DEF Inv, BufFresh, Cleared
  <2> QED
    BY <2>2, <2>4, <2>5 DEF Inv
<1>6. CASE Check(c)
  <2>1. pc[c] = "check" /\ UNCHANGED <<seq, drain, port, guest>>
    BY <1>6 DEF Check
  <2>2. Go(c, "idle") \/ Go(c, "wait")
    BY <1>6 DEF Check
  <2>3. pc' \in [Callers -> Places] /\ OneHolder'
    BY <2>1, <2>2, PlaceMoves DEF Places
  <2>4. InTypes' /\ OutFresh'
    BY <2>1, <2>3 DEF Inv, InTypes, OutFresh, drain, port, guest
  <2>5. respBuf \in Seq(FreshByte)
    BY <2>1 DEF Inv, BufFresh, Cleared
  <2>6. respBuf' \in Seq(FreshByte)
    <3>1. CASE \E e \in LineEnds : respBuf' = SubSeq(respBuf, e + 1, Len(respBuf))
      BY <2>5, <3>1, RestOfSeq DEF LineEnds
    <3>2. CASE respBuf' = <<>>
      BY <3>2, SMT
    <3>3. CASE respBuf' = respBuf
      BY <2>5, <3>3
    <3> QED
      BY <1>6, <3>1, <3>2, <3>3 DEF Check
  <2>7. BufFresh'
    BY <2>6, FreshIsAny DEF BufFresh
  <2> QED
    BY <2>3, <2>4, <2>7 DEF Inv
<1>7. CASE Sleep(c)
  <2>1. Go(c, "sleep") /\ pc[c] = "wait" /\ UNCHANGED <<seq, respBuf, drain, port, guest>>
    BY <1>7 DEF Sleep
  <2>2. pc' \in [Callers -> Places] /\ OneHolder'
    BY <2>1, PlaceMoves DEF Places
  <2>3. InTypes' /\ OutFresh'
    BY <2>1, <2>2 DEF Inv, InTypes, OutFresh, drain, port, guest
  <2>4. BufFresh'
    BY <2>1 DEF Inv, BufFresh, Cleared
  <2> QED
    BY <2>2, <2>3, <2>4 DEF Inv
<1> QED
  BY <1>1, <1>2, <1>3, <1>4, <1>5, <1>6, <1>7 DEF Request

---------------------------------------------------------------------------
\* The drainer moves bytes towards the buffer, all of them fresh.
LEMMA DrainerInv ==
  ASSUME Inv, Drainer
  PROVE  Inv'
<1>1. CASE DrainData
  <2>1. UNCHANGED <<pc, seq, respBuf, pending, rx, toSched, fromSched, out>>
    BY <1>1 DEF DrainData, client, guest
  <2>2. batch' = txBuf /\ txBuf' \in Seq(FreshByte)
    BY <1>1, EmptyIsSeq DEF DrainData
  <2> QED
    BY <2>1, <2>2 DEF Inv, InTypes, OutFresh, OneHolder, Holders, BufFresh
<1>2. CASE DrainRoute
  <2>1. UNCHANGED <<pc, seq, respBuf, pending, rx, toSched, fromSched, out, txBuf>>
    BY <1>2 DEF DrainRoute, client, guest, port
  <2>2. batch' \in Seq(FreshByte)
    BY <1>2, EmptyIsSeq DEF DrainRoute, Inv, OutFresh
  <2> QED
    BY <2>1, <2>2 DEF Inv, InTypes, OutFresh, OneHolder, Holders, BufFresh
<1>3. CASE DrainAppend
  <2>1. UNCHANGED <<seq, pending, rx, toSched, fromSched, out, txBuf>> /\ batch' = <<>> /\ NotifyAll
    BY <1>3 DEF DrainAppend, port, guest
  <2>2. /\ pc' \in [Callers -> Places] /\ OneHolder'
        /\ (\E c \in Callers : pc'[c] \in Cleared) => \E c \in Callers : pc[c] \in Cleared
    BY <2>1, NotifyKeeps
  <2>3. InTypes' /\ OutFresh'
    BY <2>1, <2>2, SMT DEF Inv, InTypes, OutFresh
  <2>4. respBuf' = <<Envelope>> \/ respBuf' = respBuf \o batch
    BY <1>3 DEF DrainAppend
  <2>5. batch \in Seq(FreshByte) /\ batch \in Seq(AnyByte)
    BY FreshIsAny DEF Inv, OutFresh
  <2>6. respBuf' \in Seq(AnyByte)
    <3>1. respBuf \o batch \in Seq(AnyByte)
      BY <2>5, ConcatProperties DEF Inv, BufFresh
    <3> QED
      BY <2>4, <3>1, EnvelopeFresh, FreshIsAny
  <2>7. ASSUME \E c \in Callers : pc'[c] \in Cleared
        PROVE  respBuf' \in Seq(FreshByte)
    <3>1. respBuf \in Seq(FreshByte)
      BY <2>2, <2>7 DEF Inv, BufFresh
    <3>2. respBuf \o batch \in Seq(FreshByte)
      BY <2>5, <3>1, ConcatProperties
    <3> QED
      BY <2>4, <3>2, EnvelopeFresh
  <2>8. BufFresh'
    BY <2>6, <2>7 DEF BufFresh
  <2> QED
    BY <2>2, <2>3, <2>8 DEF Inv
<1>4. CASE DrainCancel
  <2>1. UNCHANGED <<pc, seq, respBuf, pending, rx, toSched, fromSched, out, txBuf, batch>>
    BY <1>4 DEF DrainCancel, client, guest, port
  <2> QED
    BY <2>1 DEF Inv, InTypes, OutFresh, OneHolder, Holders, BufFresh
<1>5. CASE DrainBye
  <2>1. UNCHANGED <<seq, respBuf, pending, rx, toSched, fromSched, out, txBuf, batch>> /\ NotifyAll
    BY <1>5 DEF DrainBye, port, guest
  <2>2. /\ pc' \in [Callers -> Places] /\ OneHolder'
        /\ (\E c \in Callers : pc'[c] \in Cleared) => \E c \in Callers : pc[c] \in Cleared
    BY <2>1, NotifyKeeps
  <2>3. InTypes' /\ OutFresh'
    BY <2>1, <2>2 DEF Inv, InTypes, OutFresh
  <2>4. BufFresh'
    BY <2>1, <2>2 DEF Inv, BufFresh
  <2> QED
    BY <2>2, <2>3, <2>4 DEF Inv
<1> QED
  BY <1>1, <1>2, <1>3, <1>4, <1>5 DEF Drainer

\* Steps of the guest and of the end of the run leave the callers and the
\* buffer alone; what they move keeps its type.
LEMMA GuestInv ==
  ASSUME Inv, UNCHANGED <<pc, seq, respBuf, batch>>,
         pending' \in Seq(Nat), rx' \in Seq(Seq(Nat)), toSched' \in Seq(Nat),
         fromSched' \in Seq(FreshByte), out' \in Seq(FreshByte), txBuf' \in Seq(FreshByte)
  PROVE  Inv'
BY DEF Inv, InTypes, OutFresh, OneHolder, Holders, BufFresh

\* Inv: the guest relay and the scheduler.
LEMMA RelayInv ==
  ASSUME Inv, Relay \/ Connect \/ Stop \/ SchedStart \/ SchedAnswer \/ SchedExit
  PROVE  Inv'
<1> USE DEF client, drain, port, guest
<1>0. /\ pending \in Seq(Nat) /\ rx \in Seq(Seq(Nat)) /\ toSched \in Seq(Nat)
      /\ fromSched \in Seq(FreshByte) /\ out \in Seq(FreshByte) /\ txBuf \in Seq(FreshByte)
  BY DEF Inv, InTypes, OutFresh
<1>1. CASE OpenPort
  <2>1. Append(rx, pending) \in Seq(Seq(Nat))
    BY <1>0, AppendProperties
  <2> QED
    BY <1>0, <1>1, <2>1, GuestInv, SMT DEF OpenPort
<1>2. CASE Refuse
  <2>1. Tail(rx) \in Seq(Seq(Nat))
    BY <1>0, <1>2, HeadTailProperties DEF Refuse
  <2> QED
    BY <1>0, <1>2, <2>1, EnvelopeFresh, GuestInv DEF Refuse
<1>3. CASE PortIsEmpty
  BY <1>0, <1>3, GuestInv, SMT DEF PortIsEmpty
<1>4. CASE Forward
  <2>1. Tail(rx) \in Seq(Seq(Nat)) /\ Head(rx) \in Seq(Nat)
    BY <1>0, <1>4, HeadTailProperties DEF Forward
  <2>2. toSched \o Head(rx) \in Seq(Nat)
    BY <1>0, <2>1, ConcatProperties
  <2>3. toSched' \in Seq(Nat) /\ out' \in Seq(FreshByte)
    BY <1>0, <1>4, <2>2, EnvelopeFresh DEF Forward
  <2> QED
    BY <1>0, <1>4, <2>1, <2>3, GuestInv DEF Forward
<1>5. CASE Backward
  BY <1>0, <1>5, GuestInv, SMT DEF Backward
<1>6. CASE LoseSocket
  BY <1>0, <1>6, EnvelopeFresh, GuestInv DEF LoseSocket
<1>7. CASE WritePort
  <2>1. Tail(out) \in Seq(FreshByte) /\ Head(out) \in FreshByte
    BY <1>0, <1>7, HeadTailProperties DEF WritePort
  <2>2. Append(txBuf, Head(out)) \in Seq(FreshByte)
    BY <1>0, <2>1, AppendProperties
  <2> QED
    BY <1>0, <1>7, <2>1, <2>2, GuestInv DEF WritePort
<1>8. CASE Connect \/ SchedStart
  BY <1>0, <1>8, GuestInv DEF Connect, SchedStart
<1>9. CASE Stop
  BY <1>0, <1>9, GuestInv, SMT DEF Stop, GuestStops
<1>10. CASE SchedAnswer
  <2>1. PICK e \in DOMAIN toSched, n \in Answers :
           /\ toSched' = SubSeq(toSched, e + 1, Len(toSched))
           /\ fromSched' = fromSched \o Answer(IF e = 2 THEN toSched[1] ELSE 0, n)
    BY <1>10 DEF SchedAnswer
  <2>2. toSched' \in Seq(Nat)
    BY <1>0, <2>1, RestOfSeq
  <2>3. (IF e = 2 THEN toSched[1] ELSE 0) \in Nat
    <3>1. Len(toSched) \in Nat /\ DOMAIN toSched = 1..Len(toSched) /\ \A i \in 1..Len(toSched) : toSched[i] \in Nat
      BY <1>0, LenProperties
    <3>2. e = 2 => 1 \in 1..Len(toSched)
      BY <3>1, SMT
    <3> QED
      BY <3>1, <3>2
  <2>4. fromSched' \in Seq(FreshByte)
    BY <1>0, <2>1, <2>3, AnswerFresh, ConcatProperties
  <2> QED
    BY <1>0, <1>10, <2>2, <2>4, GuestInv DEF SchedAnswer
<1>11. CASE SchedExit
  BY <1>0, <1>11, GuestInv, SMT DEF SchedExit
<1> QED
  BY <1>1, <1>2, <1>3, <1>4, <1>5, <1>6, <1>7, <1>8, <1>9, <1>10, <1>11 DEF Relay

\* Inv: the coordinator and the end of the run.
LEMMA RunInv ==
  ASSUME Inv, Coordinator \/ Kill \/ BspEnds \/ CollectResults \/ UNCHANGED vars
  PROVE  Inv'
<1>1. /\ UNCHANGED <<pc, seq, respBuf, batch, pending, txBuf>>
      /\ UNCHANGED <<rx, toSched, fromSched, out>> \/ GuestStops
  BY DEF Coordinator, PeriodicFreeze, Rendezvous, PeriodicStore, CoordReadsKill, CoordExits,
         Kill, BspEnds, CollectResults, vars, client, drain, port, guest
<1>2. /\ rx' \in Seq(Seq(Nat)) /\ toSched' \in Seq(Nat)
      /\ fromSched' \in Seq(FreshByte) /\ out' \in Seq(FreshByte)
  <2>1. CASE UNCHANGED <<rx, toSched, fromSched, out>>
    BY <2>1 DEF Inv, InTypes, OutFresh
  <2>2. CASE GuestStops
    BY <2>2, EmptyIsSeq DEF GuestStops
  <2> QED
    BY <1>1, <2>1, <2>2
<1> QED
  BY <1>1, <1>2, GuestInv DEF Inv, InTypes, OutFresh

---------------------------------------------------------------------------
\* Every step keeps Inv.
LEMMA NextInv == Inv /\ [Next]_vars => Inv'
<1> SUFFICES ASSUME Inv, [Next]_vars PROVE Inv'
  OBVIOUS
<1>1. CASE \E c \in Clones : Call(c)
  BY <1>1, CallInv DEF Call, Callers, drain
<1>2. CASE PeriodicDue
  <2>1. Coord \in Callers /\ UNCHANGED <<seq, respBuf, batch, port, guest>>
    BY <1>2 DEF PeriodicDue, Callers, drain
  <2>2. CASE Go(Coord, "lock")
    BY <2>1, <2>2, CallInv
  <2>3. CASE UNCHANGED pc
    BY <2>1, <2>3, GuestInv DEF Inv, InTypes, OutFresh, port, guest
  <2> QED
    BY <1>2, <2>2, <2>3 DEF PeriodicDue
<1>3. CASE \E c \in Callers : Request(c)
  BY <1>3, RequestInv
<1>4. CASE Drainer
  BY <1>4, DrainerInv
<1>5. CASE Relay \/ Connect \/ Stop \/ SchedStart \/ SchedAnswer \/ SchedExit
  BY <1>5, RelayInv
<1>6. CASE Coordinator \/ Kill \/ BspEnds \/ CollectResults \/ UNCHANGED vars
  BY <1>6, RunInv
<1> QED
  BY <1>1, <1>2, <1>3, <1>4, <1>5, <1>6 DEF Next

\* For every number of callers, requests and schedulers: when request_raw
\* looks at the response buffer, nothing in it had reached the device before
\* the request began, save what the drainer held at that moment.
THEOREM OldBytesAlwaysDropped == Spec => []OldBytesAreDropped
<1>1. Inv => OldBytesAreDropped
  <2> SUFFICES ASSUME Inv, Reads PROVE \A i \in DOMAIN respBuf : respBuf[i].fresh
    BY DEF OldBytesAreDropped
  <2>1. respBuf \in Seq(FreshByte)
    BY DEF Reads, Inv, BufFresh, Cleared
  <2>2. \A i \in DOMAIN respBuf : respBuf[i] \in FreshByte
    BY <2>1, LenProperties
  <2> QED
    BY <2>2 DEF FreshByte
<1> QED
  BY <1>1, InitInv, NextInv, PTL DEF Spec

---------------------------------------------------------------------------
(* Own answers *)

Waiting == {"check", "wait", "sleep"}
Before == \A c \in Callers : pc[c] \notin Waiting \cup {"newline"}
Half   == \E c \in Callers : pc[c] = "newline"
Waits  == \E c \in Callers : pc[c] \in Waiting

InEmpty  == pending = <<>> /\ rx = <<>> /\ toSched = <<>>
OutEmpty == respBuf = <<>> /\ batch = <<>> /\ txBuf = <<>> /\ out = <<>> /\ fromSched = <<>>

\* The request cannot be answered any more.
Dead == relay = "stopped" \/ (relay = "session" /\ ~peer)

\* Where the line can be, and the line with its newline.
HalfIn ==
  \/ pending = <<seq>> /\ rx = <<>> /\ toSched = <<>>
  \/ pending = <<>> /\ rx = << <<seq>> >> /\ toSched = <<>>
  \/ pending = <<>> /\ rx = <<>> /\ toSched = <<seq>>
WholeIn ==
  \/ pending = <<seq, 0>> /\ rx = <<>> /\ toSched = <<>>
  \/ pending = <<>> /\ rx = << <<seq, 0>> >> /\ toSched = <<>>
  \/ pending = <<>> /\ rx = << <<seq>>, <<0>> >> /\ toSched = <<>>
  \/ pending = <<>> /\ rx = << <<0>> >> /\ toSched = <<seq>>
  \/ pending = <<>> /\ rx = <<>> /\ toSched = <<seq, 0>>

Ends(s) == \E i \in DOMAIN s : s[i].end
Good(s, k) == \A i \in DOMAIN s : s[i].of = k /\ (s[i].end => i = Len(s))

\* The answer, from the response buffer back to the scheduler.
AnswerOut ==
  /\ Good(respBuf, seq) /\ Good(batch, seq) /\ Good(txBuf, seq)
  /\ Good(out, seq) /\ Good(fromSched, seq)
  /\ Ends(respBuf) => batch = <<>> /\ txBuf = <<>> /\ out = <<>> /\ fromSched = <<>>
  /\ Ends(batch) => txBuf = <<>> /\ out = <<>> /\ fromSched = <<>>
  /\ Ends(txBuf) => out = <<>> /\ fromSched = <<>>
  /\ Ends(out) => fromSched = <<>>

RelayInvariant == clean =>
  relay # "lost" /\ (relay \in {"closed", "wait"} => ~peer /\ toSched = <<>>)
PortInvariant ==
  /\ relay \in {"closed", "wait", "session", "lost", "stopped"}
  /\ opened => pending = <<>>
  /\ ~opened => rx = <<>> /\ relay \in {"closed", "stopped"}
CallerInvariant ==
  /\ \A c \in Holders : seq # 0 /\ (pc[c] # "mark" => inFlight)
  /\ coord # "asking" => pc[Coord] = "idle"
  /\ drainer \notin {"route", "append"} => batch = <<>>
BeforeEmpty == clean /\ Before => InEmpty /\ OutEmpty
HalfGone    == clean /\ Half => OutEmpty /\ (Dead \/ HalfIn)
OneWay      == clean /\ Waits =>
  \/ OutEmpty /\ (Dead \/ WholeIn)
  \/ InEmpty /\ AnswerOut

Own == RelayInvariant /\ PortInvariant /\ CallerInvariant /\ BeforeEmpty /\ HalfGone /\ OneWay

---------------------------------------------------------------------------
\* Initially every channel is empty.
LEMMA OwnInit == Init => Own
<1> SUFFICES ASSUME Init PROVE Own
  OBVIOUS
<1>1. RelayInvariant /\ PortInvariant
  BY DEF Init, RelayInvariant, PortInvariant
<1>2. CallerInvariant
  BY DEF Init, CallerInvariant, Holders, Callers
<1>3. BeforeEmpty
  BY DEF Init, BeforeEmpty, InEmpty, OutEmpty
<1>4. HalfGone /\ OneWay
  BY DEF Init, HalfGone, OneWay, Half, Waits, Waiting
<1> QED
  BY <1>1, <1>2, <1>3, <1>4 DEF Own

\* Sequences of bytes: joining two, moving the head of one to the end of
\* another, and the empty one.
LEMMA GoodConcat ==
  ASSUME NEW s \in Seq(AnyByte), NEW t \in Seq(AnyByte), NEW k,
         Good(s, k), Good(t, k), Ends(s) => t = <<>>
  PROVE  Good(s \o t, k) /\ (Ends(s \o t) => Ends(s) \/ Ends(t))
<1> DEFINE u == s \o t
<1>1. /\ Len(s) \in Nat /\ DOMAIN s = 1..Len(s) /\ Len(t) \in Nat /\ DOMAIN t = 1..Len(t)
      /\ u \in Seq(AnyByte) /\ Len(u) = Len(s) + Len(t)
      /\ \A i \in 1..(Len(s) + Len(t)) : u[i] = IF i <= Len(s) THEN s[i] ELSE t[i - Len(s)]
  BY LenProperties, ConcatProperties
<1>2. DOMAIN u = 1..(Len(s) + Len(t))
  BY <1>1, LenProperties
<1> HIDE DEF u
<1>3. ASSUME NEW i \in DOMAIN u
      PROVE  u[i].of = k /\ (u[i].end => i = Len(u) /\ (Ends(s) \/ Ends(t)))
  <2>1. CASE i <= Len(s)
    <3>1. i \in DOMAIN s /\ u[i] = s[i]
      BY <1>1, <1>2, <2>1, SMT
    <3>2. u[i].end => Ends(s)
      BY <3>1 DEF Ends
    <3>3. u[i].end => Len(t) = 0
      BY <3>2, EmptySeq
    <3>4. u[i].of = k /\ (u[i].end => i = Len(s))
      BY <3>1 DEF Good
    <3> QED
      BY <1>1, <3>1, <3>2, <3>3, <3>4, SMT
  <2>2. CASE ~(i <= Len(s))
    <3>1. i - Len(s) \in DOMAIN t /\ u[i] = t[i - Len(s)] /\ i \in Nat
      BY <1>1, <1>2, <2>2, SMT
    <3>2. u[i].of = k /\ (u[i].end => i - Len(s) = Len(t))
      BY <3>1 DEF Good
    <3>3. u[i].end => Ends(t)
      BY <3>1 DEF Ends
    <3>4. ASSUME i - Len(s) = Len(t) PROVE i = Len(u)
      <4>1. i \in Int /\ Len(s) \in Int /\ Len(t) \in Int /\ Len(u) = Len(s) + Len(t)
        BY <1>1, <3>1, SMT
      <4> QED
        BY <3>4, <4>1, SMT
    <3> QED
      BY <3>2, <3>3, <3>4
  <2> QED
    BY <2>1, <2>2
<1> QED
  BY <1>3 DEF Good, Ends, u

\* Moving the first byte of an answer to the next channel keeps it in order.
LEMMA GoodMove ==
  ASSUME NEW s \in Seq(AnyByte), NEW t \in Seq(AnyByte), NEW k,
         Good(s, k), Good(t, k), Ends(s) => t = <<>>, t # <<>>
  PROVE  /\ Good(Append(s, Head(t)), k) /\ Good(Tail(t), k)
         /\ Ends(Append(s, Head(t))) => Tail(t) = <<>> /\ Ends(t)
         /\ Ends(Tail(t)) => Ends(t)
<1> DEFINE u == Append(s, Head(t))
           v == Tail(t)
<1>1. /\ Len(s) \in Nat /\ DOMAIN s = 1..Len(s)
      /\ Len(t) \in Nat \ {0} /\ DOMAIN t = 1..Len(t) /\ Head(t) = t[1] /\ Head(t) \in AnyByte
  BY LenProperties, EmptySeq, HeadTailProperties, SMT
<1>2. /\ Len(u) = Len(s) + 1 /\ DOMAIN u = 1..(Len(s) + 1)
      /\ \A i \in 1..Len(s) : u[i] = s[i]
      /\ u[Len(s) + 1] = t[1]
  BY <1>1, AppendProperties, SMT
<1>3. /\ v \in Seq(AnyByte) /\ Len(v) = Len(t) - 1 /\ DOMAIN v = 1..(Len(t) - 1)
      /\ \A i \in 1..(Len(t) - 1) : v[i] = t[i + 1]
  BY <1>1, HeadTailProperties, LenProperties
<1> HIDE DEF u, v
<1>4. \A i \in DOMAIN s : ~s[i].end
  BY DEF Ends
<1>5. Good(u, k)
  <2> SUFFICES ASSUME NEW i \in DOMAIN u PROVE u[i].of = k /\ (u[i].end => i = Len(u))
    BY DEF Good
  <2>1. CASE i \in 1..Len(s)
    BY <1>1, <1>2, <1>4, <2>1 DEF Good
  <2>2. CASE i = Len(s) + 1
    BY <1>1, <1>2, <2>2, SMT DEF Good
  <2> QED
    BY <1>1, <1>2, <2>1, <2>2, SMT
<1>6. Good(v, k)
  <2> SUFFICES ASSUME NEW i \in DOMAIN v PROVE v[i].of = k /\ (v[i].end => i = Len(v))
    BY DEF Good
  <2>1. i + 1 \in DOMAIN t /\ v[i] = t[i + 1] /\ i \in Nat
    BY <1>1, <1>3, SMT
  <2> QED
    BY <1>1, <1>3, <2>1, SMT DEF Good
<1>7. ASSUME Ends(u) PROVE v = <<>> /\ Ends(t)
  <2>1. PICK i \in DOMAIN u : u[i].end
    BY <1>7 DEF Ends
  <2>2. t[1].end
    BY <1>1, <1>2, <1>4, <2>1, SMT
  <2>3. Len(t) = 1 /\ Ends(t)
    BY <1>1, <2>2, SMT DEF Good, Ends
  <2>4. Len(v) = 0
    BY <1>3, <2>3, SMT
  <2> QED
    BY <1>3, <2>3, <2>4, EmptySeq
<1>8. Ends(v) => Ends(t)
  <2> SUFFICES ASSUME NEW i \in DOMAIN v, v[i].end PROVE Ends(t)
    BY DEF Ends
  <2>1. i + 1 \in DOMAIN t /\ v[i] = t[i + 1]
    BY <1>1, <1>3, SMT
  <2> QED
    BY <2>1 DEF Ends
<1> QED
  BY <1>5, <1>6, <1>7, <1>8 DEF u, v

\* Two ways to write the line and its newline.
LEMMA Pair ==
  ASSUME NEW S, NEW x \in S, NEW y \in S
  PROVE  <<x>> \o <<y>> = <<x, y>> /\ Append(<<x>>, y) = <<x, y>>
<1> DEFINE s == <<x>>
           t == <<y>>
           v == <<x, y>>
<1>1. /\ s \in Seq(S) /\ Len(s) = 1 /\ s[1] = x
      /\ t \in Seq(S) /\ Len(t) = 1 /\ t[1] = y
      /\ v \in Seq(S) /\ Len(v) = 2 /\ v[1] = x /\ v[2] = y
  BY SMT
<1> HIDE DEF s, t, v
<1>2. s \o t \in Seq(S) /\ Len(s \o t) = 2 /\ (s \o t)[1] = x /\ (s \o t)[2] = y
  BY <1>1, ConcatProperties, SMT
<1>3. \A i \in 1..Len(s \o t) : (s \o t)[i] = v[i]
  BY <1>1, <1>2, SMT
<1>4. s \o t = v
  BY <1>1, <1>2, <1>3, SeqEqual
<1>5. Append(s, y) = s \o <<y>>
  BY <1>1, AppendIsConcat
<1> QED
  BY <1>4, <1>5 DEF s, t, v

\* An empty channel holds nothing that ends a line.
LEMMA GoodEmpty == \A k : Good(<<>>, k) /\ ~Ends(<<>>)
BY SMT DEF Good, Ends

---------------------------------------------------------------------------
\* The phase of the request after a step of its caller.
LEMMA PhaseOf ==
  ASSUME Inv, NEW c \in Callers, NEW p \in Places, pc[c] \in Places \ {"idle", "lock"}, Go(c, p)
  PROVE  /\ pc'[c] = p /\ Holders' = (IF p = "idle" \/ p = "lock" THEN {} ELSE {c})
         /\ Before' <=> p \notin Waiting \cup {"newline"}
         /\ Half' <=> p = "newline"
         /\ Waits' <=> p \in Waiting
         /\ \A d \in Callers \ {c} : pc'[d] = pc[d] /\ pc[d] \in {"idle", "lock"}
<1>1. pc \in [Callers -> Places] /\ pc' = [pc EXCEPT ![c] = p]
  BY DEF Inv, InTypes, Go
<1>2. pc'[c] = p /\ \A d \in Callers \ {c} : pc'[d] = pc[d]
  BY <1>1
<1>3. \A d \in Callers \ {c} : pc'[d] \in {"idle", "lock"}
  BY PlaceMoves
<1>4. Before' <=> p \notin Waiting \cup {"newline"}
  BY <1>2, <1>3 DEF Before, Waiting
<1>5. Half' <=> p = "newline"
  BY <1>2, <1>3 DEF Half
<1>6. Waits' <=> p \in Waiting
  BY <1>2, <1>3 DEF Waits, Waiting
<1>7. Holders' = (IF p = "idle" \/ p = "lock" THEN {} ELSE {c})
  BY <1>2, <1>3 DEF Holders
<1> QED
  BY <1>2, <1>3, <1>4, <1>5, <1>6, <1>7

\* The phase of the request before it.
LEMMA PhaseIs ==
  ASSUME Inv, NEW c \in Callers, pc[c] \in Places \ {"idle", "lock"}
  PROVE  /\ Before <=> pc[c] \notin Waiting \cup {"newline"}
         /\ Half <=> pc[c] = "newline"
         /\ Waits <=> pc[c] \in Waiting
<1>1. \A d \in Callers \ {c} : pc[d] \in {"idle", "lock"}
  BY DEF Inv, OneHolder, Holders
<1>2. Before <=> pc[c] \notin Waiting \cup {"newline"}
  BY <1>1 DEF Before, Waiting
<1>3. Half <=> pc[c] = "newline"
  BY <1>1 DEF Half
<1>4. Waits <=> pc[c] \in Waiting
  BY <1>1 DEF Waits, Waiting
<1> QED
  BY <1>2, <1>3, <1>4

\* A caller comes to wait for the lock; the coordinator, to ask.
LEMMA OwnCall ==
  ASSUME Inv, Own, NEW c \in Callers, pc[c] = "idle", Go(c, "lock") \/ UNCHANGED pc,
         coord' = "asking" \/ (c # Coord /\ coord' = coord),
         UNCHANGED <<seq, inFlight, respBuf, clean, drain, port, guest>>
  PROVE  Own'
<1>1. pc \in [Callers -> Places] /\ (pc' = [pc EXCEPT ![c] = "lock"] \/ pc' = pc)
  BY DEF Inv, InTypes, Go
<1>2. \A d \in Callers : pc'[d] = pc[d] \/ (d = c /\ pc'[d] = "lock")
  BY <1>1
<1>3. Holders' = Holders /\ \A d \in Holders : pc'[d] = pc[d]
  BY <1>2 DEF Holders
<1>4. (Before' <=> Before) /\ (Half' <=> Half) /\ (Waits' <=> Waits)
  BY <1>2 DEF Before, Half, Waits, Waiting
<1>5. CallerInvariant'
  BY <1>2, <1>3 DEF Own, CallerInvariant, drain, Callers
<1>6. RelayInvariant' /\ PortInvariant'
  BY DEF Own, RelayInvariant, PortInvariant, port, guest
<1>7. /\ InEmpty' <=> InEmpty
      /\ OutEmpty' <=> OutEmpty
      /\ Dead' <=> Dead
  BY DEF InEmpty, OutEmpty, Dead, drain, port, guest
<1>8. (HalfIn' <=> HalfIn) /\ (WholeIn' <=> WholeIn)
  BY DEF HalfIn, WholeIn, port, guest
<1>9. AnswerOut' <=> AnswerOut
  BY DEF AnswerOut, drain, port, guest
<1> QED
  BY <1>4, <1>5, <1>6, <1>7, <1>8, <1>9 DEF Own, BeforeEmpty, HalfGone, OneWay

\* Marking the bytes of an empty buffer leaves it empty.
LEMMA EmptyAged == \A f \in BOOLEAN : Aged(<<>>, f) = <<>>
<1> SUFFICES ASSUME NEW f \in BOOLEAN PROVE Aged(<<>>, f) = <<>>
  OBVIOUS
<1>1. <<>> \in Seq(AnyByte) /\ DOMAIN Aged(<<>>, f) = DOMAIN <<>>
  BY EmptyIsSeq DEF Aged
<1>2. Aged(<<>>, f) \in Seq(AnyByte)
  <2>1. Aged(<<>>, FALSE) \in Seq(AnyByte) /\ Aged(<<>>, TRUE) \in Seq(AnyByte)
    BY <1>1, AgedBytes, FreshIsAny
  <2> QED
    BY <2>1
<1>3. DOMAIN <<>> = 1..0 /\ DOMAIN Aged(<<>>, f) = 1..Len(Aged(<<>>, f)) /\ Len(Aged(<<>>, f)) \in Nat
  BY <1>1, <1>2, LenProperties, EmptySeq
<1>4. Len(Aged(<<>>, f)) = 0
  BY <1>1, <1>3, SMT
<1> QED
  BY <1>2, <1>4, EmptySeq

\* What a step of the holder of the lock keeps.
LEMMA OwnCaller ==
  ASSUME Inv, Own, NEW c \in Callers, NEW p \in Places \ {"lock"},
         pc[c] \in Places \ {"idle", "lock"}, Go(c, p), p # "idle" => inFlight',
         UNCHANGED <<seq, drainer, batch, coord>>
  PROVE  CallerInvariant'
<1>1. /\ Holders' = (IF p = "idle" \/ p = "lock" THEN {} ELSE {c})
      /\ \A d \in Callers \ {c} : pc'[d] = pc[d]
  BY PhaseOf
<1>2. c \in Holders /\ seq # 0
  BY DEF Holders, Own, CallerInvariant
<1>3. \A d \in Holders' : seq' # 0 /\ (pc'[d] # "mark" => inFlight')
  BY <1>1, <1>2
<1>4. coord' # "asking" => pc'[Coord] = "idle"
  <2>1. Coord \in Callers /\ (coord # "asking" => pc[Coord] = "idle")
    BY DEF Own, CallerInvariant, Callers
  <2>2. coord # "asking" => c # Coord
    BY <2>1
  <2> QED
    BY <1>1, <2>1, <2>2
<1> QED
  BY <1>3, <1>4 DEF Own, CallerInvariant

\* Own: a caller takes the lock, clears the buffers, pushes its line.
LEMMA OwnStart ==
  ASSUME Inv, Own, NEW c \in Callers, Start(c)
  PROVE  Own'
<1>1. pc \in [Callers -> Places] /\ pc' = [pc EXCEPT ![c] = "mark"] /\ Holders = {} /\ pc[c] = "lock"
  BY DEF Inv, InTypes, Start, Go
<1>2. pc'[c] = "mark" /\ \A d \in Callers \ {c} : pc'[d] = pc[d] /\ pc[d] \in {"idle", "lock"}
  BY <1>1 DEF Holders
<1>3. Before /\ Before' /\ ~Half' /\ ~Waits' /\ Holders' = {c}
  <2>1. Before
    BY <1>1, <1>2 DEF Before, Waiting
  <2>2. Before' /\ ~Half' /\ ~Waits'
    BY <1>2 DEF Before, Half, Waits, Waiting
  <2>3. Holders' = {c}
    BY <1>2 DEF Holders
  <2> QED
    BY <2>1, <2>2, <2>3
<1>4. seq' # 0
  BY SMT DEF Start, Inv, InTypes
<1>5. batch = <<>> => batch' = <<>>
  BY EmptyAged DEF Start
<1>6. respBuf = <<>> => respBuf' = <<>>
  BY EmptyAged DEF Start
<1>7. CallerInvariant'
  <2>1. coord' # "asking" => pc'[Coord] = "idle"
    BY <1>1, <1>2 DEF Start, Own, CallerInvariant, Callers, run
  <2> QED
    BY <1>2, <1>3, <1>4, <1>5, <2>1 DEF Start, Own, CallerInvariant
<1>8. RelayInvariant' /\ PortInvariant'
  BY DEF Start, Own, RelayInvariant, PortInvariant, guest
<1>9. BeforeEmpty'
  BY <1>3, <1>5, <1>6 DEF Start, Own, BeforeEmpty, InEmpty, OutEmpty, guest
<1> QED
  BY <1>3, <1>7, <1>8, <1>9 DEF Own, HalfGone, OneWay

\* The line and the newline are pushed.
LEMMA OwnPush ==
  ASSUME Inv, Own, NEW c \in Callers, PushLine(c) \/ PushNewline(c)
  PROVE  Own'
<1>1. /\ UNCHANGED <<seq, inFlight, respBuf, clean, drainer, batch, txBuf, opened, relay, out,
                     toSched, fromSched, peer, coord>>
      /\ pc[c] \in {"line", "newline"}
  BY DEF PushLine, PushNewline, drain, run
<1>2. inFlight
  BY <1>1 DEF Own, CallerInvariant, Holders
<1>3. CallerInvariant'
  <2>1. PICK p \in {"newline", "check"} : Go(c, p)
    BY DEF PushLine, PushNewline
  <2> QED
    BY <1>1, <1>2, <2>1, OwnCaller DEF Places
<1>4. RelayInvariant'
  BY <1>1 DEF Own, RelayInvariant
<1>5. PortInvariant'
  BY <1>1 DEF Own, PortInvariant, PushLine, PushNewline, Deliver
<1>6. OutEmpty => OutEmpty'
  BY <1>1 DEF OutEmpty
<1>7. CASE PushLine(c)
  <2>1. Before /\ ~Before' /\ Half' /\ ~Waits'
    BY <1>7, PhaseIs, PhaseOf DEF PushLine, Places, Waiting
  <2>2. ASSUME InEmpty PROVE HalfIn'
    <3>1. Append(<<>>, <<seq>>) = << <<seq>> >>
      BY SMT
    <3> QED
      BY <1>1, <1>7, <2>2, <3>1 DEF PushLine, Deliver, InEmpty, HalfIn
  <2>3. BeforeEmpty' /\ HalfGone' /\ OneWay'
    BY <1>1, <1>6, <2>1, <2>2 DEF Own, BeforeEmpty, HalfGone, OneWay
  <2> QED
    BY <1>3, <1>4, <1>5, <2>3 DEF Own
<1>8. CASE PushNewline(c)
  <2>1. Half /\ ~Before' /\ ~Half' /\ Waits'
    BY <1>8, PhaseIs, PhaseOf DEF PushNewline, Places, Waiting
  <2>2. ASSUME clean, ~Dead, HalfIn PROVE WholeIn'
    <3>1. Deliver(Append(pending, 0)) /\ seq' = seq /\ toSched' = toSched
      BY <1>1, <1>8 DEF PushNewline
    <3>2. CASE pending = <<seq>> /\ rx = <<>> /\ toSched = <<>>
      <4>1. ~opened
        BY <3>2 DEF Own, PortInvariant
      <4>2. seq \in Nat /\ 0 \in Nat
        BY DEF Inv, InTypes
      <4>3. Append(<<seq>>, 0) = <<seq, 0>>
        BY <4>2, Pair
      <4> QED
        BY <3>1, <3>2, <4>1, <4>3 DEF Deliver, WholeIn
    <3>3. CASE pending = <<>> /\ rx = << <<seq>> >> /\ toSched = <<>>
      <4>1. opened
        BY <3>3 DEF Own, PortInvariant
      <4>2. <<seq>> \in Seq(Nat) /\ <<0>> \in Seq(Nat)
        BY SMT DEF Inv, InTypes
      <4>3. Append(<<>>, 0) = <<0>>
        BY SMT
      <4>4. Append(<< <<seq>> >>, <<0>>) = << <<seq>>, <<0>> >>
        BY <4>2, Pair
      <4> QED
        BY <3>1, <3>3, <4>1, <4>3, <4>4 DEF Deliver, WholeIn
    <3>4. CASE pending = <<>> /\ rx = <<>> /\ toSched = <<seq>>
      <4>1. opened
        BY <2>2, <3>4 DEF Own, PortInvariant, RelayInvariant, Dead
      <4>2. Append(<<>>, 0) = <<0>> /\ Append(<<>>, <<0>>) = << <<0>> >>
        BY SMT
      <4> QED
        BY <3>1, <3>4, <4>1, <4>2 DEF Deliver, WholeIn
    <3> QED
      BY <2>2, <3>2, <3>3, <3>4 DEF HalfIn
  <2>3. Dead => Dead'
    BY <1>1 DEF Dead
  <2>4. BeforeEmpty' /\ HalfGone' /\ OneWay'
    BY <1>1, <1>6, <2>1, <2>2, <2>3 DEF Own, BeforeEmpty, HalfGone, OneWay
  <2> QED
    BY <1>3, <1>4, <1>5, <2>4 DEF Own
<1> QED
  BY <1>7, <1>8

\* The other steps of a request.
LEMMA OwnSteps ==
  ASSUME Inv, Own, NEW c \in Callers, MarkInFlight(c) \/ ClearResponse(c) \/ Sleep(c)
  PROVE  Own'
<1>1. /\ UNCHANGED <<seq, clean, drainer, batch, txBuf, pending, opened, rx, relay, out,
                     toSched, fromSched, peer, coord>>
      /\ respBuf' = respBuf \/ respBuf' = <<>>
      /\ pc[c] \in {"mark", "clear", "wait"}
  BY DEF MarkInFlight, ClearResponse, Sleep, drain, run, port, guest
<1>2. PICK p \in {"clear", "line", "sleep"} :
        /\ Go(c, p)
        /\ pc[c] \in Waiting => p \in Waiting /\ UNCHANGED respBuf
        /\ pc[c] \notin Waiting => p \notin Waiting
  BY DEF MarkInFlight, ClearResponse, Sleep, Waiting
<1>3. inFlight'
  BY SMT DEF MarkInFlight, ClearResponse, Sleep, Own, CallerInvariant, Holders
<1>4. CallerInvariant'
  BY <1>1, <1>2, <1>3, OwnCaller DEF Places
<1>5. RelayInvariant' /\ PortInvariant'
  BY <1>1 DEF Own, RelayInvariant, PortInvariant
<1>6. CASE pc[c] \in Waiting
  <2>1. Waits /\ ~Before' /\ ~Half' /\ Waits'
    BY <1>1, <1>2, <1>6, PhaseIs, PhaseOf DEF Places, Waiting
  <2>2. OneWay'
    BY <1>1, <1>2, <1>6, <2>1
    DEF Own, OneWay, InEmpty, OutEmpty, Dead, WholeIn, AnswerOut
  <2> QED
    BY <1>4, <1>5, <2>1, <2>2 DEF Own, BeforeEmpty, HalfGone
<1>7. CASE pc[c] \notin Waiting
  <2>1. Before /\ Before' /\ ~Half' /\ ~Waits'
    BY <1>1, <1>2, <1>7, PhaseIs, PhaseOf DEF Places, Waiting
  <2>2. BeforeEmpty'
    BY <1>1, <2>1 DEF Own, BeforeEmpty, InEmpty, OutEmpty
  <2> QED
    BY <1>4, <1>5, <2>1, <2>2 DEF Own, HalfGone, OneWay
<1> QED
  BY <1>6, <1>7

\* Own: a caller looks for a whole line in the response buffer.
LEMMA OwnCheck ==
  ASSUME Inv, Own, NEW c \in Callers, Check(c)
  PROVE  Own'
<1>1. /\ UNCHANGED <<seq, drainer, batch, txBuf, pending, opened, rx, relay, out, toSched,
                     fromSched, peer, coord>>
      /\ pc[c] = "check"
  BY DEF Check, drain, run, port, guest
<1>2. Waits
  BY <1>1, PhaseIs DEF Places, Waiting
<1>3. RelayInvariant' /\ PortInvariant'
  BY <1>1, SMT DEF Own, RelayInvariant, PortInvariant, Check
<1>4. PICK p \in {"idle", "wait"} : Go(c, p) /\ (p # "idle" => UNCHANGED inFlight)
  BY DEF Check
<1>5. CallerInvariant'
  <2>1. p # "idle" => inFlight'
    BY <1>1, <1>4, SMT DEF Own, CallerInvariant, Holders
  <2> QED
    BY <1>1, <1>4, <2>1, OwnCaller DEF Places
<1>6. CASE clean' = FALSE
  BY <1>3, <1>5, <1>6 DEF Own, BeforeEmpty, HalfGone, OneWay
<1>7. CASE /\ \E e \in LineEnds : /\ \A i \in LineEnds : e <= i
                                  /\ respBuf' = SubSeq(respBuf, e + 1, Len(respBuf))
           /\ Go(c, "idle") /\ UNCHANGED clean
  <2>1. Before' /\ ~Half' /\ ~Waits'
    BY <1>1, <1>7, PhaseOf DEF Places, Waiting
  <2>2. ASSUME clean PROVE InEmpty' /\ OutEmpty'
    <3>1. PICK e \in DOMAIN respBuf : respBuf[e].end /\ respBuf' = SubSeq(respBuf, e + 1, Len(respBuf))
      BY <1>7 DEF LineEnds
    <3>2. respBuf # <<>> /\ Ends(respBuf)
      BY <3>1, SMT DEF Ends
    <3>3. InEmpty /\ AnswerOut
      BY <1>2, <2>2, <3>2 DEF Own, OneWay, OutEmpty
    <3>4. e = Len(respBuf) /\ respBuf \in Seq(AnyByte)
      <4>1. Good(respBuf, seq)
        BY <3>3 DEF AnswerOut
      <4>2. e = Len(respBuf)
        BY <3>1, <4>1 DEF Good
      <4>3. respBuf \in Seq(AnyByte)
        BY DEF Inv, BufFresh
      <4> QED
        BY <4>2, <4>3
    <3>5. respBuf' = <<>>
      <4>1. Len(respBuf) \in Nat
        BY <3>4, LenProperties
      <4>2. SubSeq(respBuf, Len(respBuf) + 1, Len(respBuf)) = <<>>
        BY <3>4, <4>1, SubSeqEmpty, SMT
      <4> QED
        BY <3>1, <3>4, <4>2
    <3>6. OutEmpty'
      BY <1>1, <3>2, <3>3, <3>5 DEF AnswerOut, OutEmpty
    <3> QED
      BY <1>1, <3>3, <3>6 DEF InEmpty
  <2>3. BeforeEmpty'
    BY <1>7, <2>2 DEF BeforeEmpty
  <2> QED
    BY <1>3, <1>5, <2>1, <2>3 DEF Own, HalfGone, OneWay
<1>8. CASE Go(c, "wait") /\ UNCHANGED <<respBuf, clean>>
  <2>1. ~Before' /\ ~Half' /\ Waits'
    BY <1>1, <1>8, PhaseOf DEF Places, Waiting
  <2>2. OneWay'
    BY <1>1, <1>2, <1>8, <2>1 DEF Own, OneWay, InEmpty, OutEmpty, Dead, WholeIn, AnswerOut
  <2> QED
    BY <1>3, <1>5, <2>1, <2>2 DEF Own, BeforeEmpty, HalfGone
<1> QED
  BY <1>6, <1>7, <1>8 DEF Check

---------------------------------------------------------------------------
\* Steps that leave the callers where they are, but for those they wake.
LEMMA PhaseKept ==
  ASSUME Inv, UNCHANGED pc \/ NotifyAll
  PROVE  /\ Holders' = Holders /\ (Before' <=> Before) /\ (Half' <=> Half) /\ (Waits' <=> Waits)
         /\ \A c \in Holders : (pc'[c] = "mark") <=> (pc[c] = "mark")
         /\ (pc'[Coord] = "idle") <=> (pc[Coord] = "idle")
<1>1. pc \in [Callers -> Places] /\ Coord \in Callers
  BY DEF Inv, InTypes, Callers
<1>2. \A c \in Callers : pc'[c] = pc[c] \/ (pc[c] = "sleep" /\ pc'[c] = "check")
  BY <1>1 DEF NotifyAll
<1>3. Holders' = Holders
  BY <1>2 DEF Holders
<1>4. (Before' <=> Before) /\ (Half' <=> Half) /\ (Waits' <=> Waits)
  BY <1>2 DEF Before, Half, Waits, Waiting
<1>5. \A c \in Holders : (pc'[c] = "mark") <=> (pc[c] = "mark")
  BY <1>2 DEF Holders
<1>6. (pc'[Coord] = "idle") <=> (pc[Coord] = "idle")
  BY <1>1, <1>2
<1> QED
  BY <1>3, <1>4, <1>5, <1>6

\* Nothing of what the invariant speaks of changes.
LEMMA OwnFrame ==
  ASSUME Inv, Own, UNCHANGED pc \/ NotifyAll, coord' = coord \/ pc[Coord] = "idle",
         drainer' \notin {"route", "append"} => batch' = <<>>,
         UNCHANGED <<seq, inFlight, respBuf, clean, batch, txBuf, pending, opened, rx, relay, out,
                     toSched, fromSched, peer>>
  PROVE  Own'
<1>1. CallerInvariant'
  BY PhaseKept DEF Own, CallerInvariant
<1>2. RelayInvariant' /\ PortInvariant'
  BY DEF Own, RelayInvariant, PortInvariant
<1>3. (InEmpty' <=> InEmpty) /\ (OutEmpty' <=> OutEmpty) /\ (Dead' <=> Dead)
  BY DEF InEmpty, OutEmpty, Dead
<1>4. (HalfIn' <=> HalfIn) /\ (WholeIn' <=> WholeIn)
  BY DEF HalfIn, WholeIn
<1>5. AnswerOut' <=> AnswerOut
  BY DEF AnswerOut
<1> QED
  BY <1>1, <1>2, <1>3, <1>4, <1>5, PhaseKept DEF Own, BeforeEmpty, HalfGone, OneWay

\* A step of the channels, given what it does to each of the three phases.
LEMMA OwnMove ==
  ASSUME Inv, Own, UNCHANGED pc \/ NotifyAll, UNCHANGED <<seq, inFlight, coord>>,
         drainer' \notin {"route", "append"} => batch' = <<>>,
         RelayInvariant', PortInvariant',
         clean' => clean /\ (InEmpty /\ OutEmpty => InEmpty' /\ OutEmpty'),
         clean' /\ Half /\ OutEmpty /\ (Dead \/ HalfIn) => OutEmpty' /\ (Dead' \/ HalfIn'),
         clean' /\ Waits /\ OutEmpty /\ (Dead \/ WholeIn)
           => (OutEmpty' /\ (Dead' \/ WholeIn')) \/ (InEmpty' /\ AnswerOut'),
         clean' /\ Waits /\ InEmpty /\ AnswerOut => InEmpty' /\ AnswerOut'
  PROVE  Own'
<1>1. CallerInvariant'
  BY PhaseKept DEF Own, CallerInvariant
<1>2. BeforeEmpty' /\ HalfGone' /\ OneWay'
  BY PhaseKept DEF Own, BeforeEmpty, HalfGone, OneWay
<1> QED
  BY <1>1, <1>2 DEF Own

\* Own: the drainer moves bytes from the port to the response buffer.
LEMMA OwnDrainer ==
  ASSUME Inv, Own, Drainer
  PROVE  Own'
<1>1. CASE DrainData
  <2>1. UNCHANGED <<pc, seq, inFlight, respBuf, clean, pending, opened, rx, relay, out, toSched,
                    fromSched, peer, coord>>
    BY <1>1 DEF DrainData, client, guest, run
  <2>2. batch = <<>> /\ batch' = txBuf /\ txBuf' = <<>> /\ drainer' = "route"
    BY <1>1 DEF DrainData, Own, CallerInvariant
  <2>3. RelayInvariant' /\ PortInvariant'
    BY <2>1 DEF Own, RelayInvariant, PortInvariant
  <2>4. (InEmpty' <=> InEmpty) /\ (Dead' <=> Dead) /\ (HalfIn' <=> HalfIn) /\ (WholeIn' <=> WholeIn)
    BY <2>1 DEF InEmpty, Dead, HalfIn, WholeIn
  <2>5. OutEmpty => OutEmpty'
    BY <2>1, <2>2 DEF OutEmpty
  <2>6. AnswerOut => AnswerOut'
    BY <2>1, <2>2, GoodEmpty DEF AnswerOut
  <2> QED
    BY <2>1, <2>2, <2>3, <2>4, <2>5, <2>6, OwnMove
<1>2. CASE DrainRoute
  <2>1. UNCHANGED <<pc, seq, inFlight, respBuf, clean, txBuf, pending, opened, rx, relay, out,
                    toSched, fromSched, peer, coord>>
    BY <1>2 DEF DrainRoute, client, port, guest, run
  <2>2. CASE inFlight
    <3>1. drainer' = "append" /\ batch' = batch
      BY <1>2, <2>2 DEF DrainRoute
    <3> QED
      BY <2>1, <3>1, OwnFrame
  <2>3. CASE ~inFlight
    <3>1. drainer' = "poll" /\ batch' = <<>>
      BY <1>2, <2>3 DEF DrainRoute
    <3>2. ~Waits
      BY <2>3 DEF Own, CallerInvariant, Holders, Waits, Waiting
    <3>3. RelayInvariant' /\ PortInvariant'
      BY <2>1 DEF Own, RelayInvariant, PortInvariant
    <3>4. (InEmpty' <=> InEmpty) /\ (Dead' <=> Dead) /\ (HalfIn' <=> HalfIn)
      BY <2>1 DEF InEmpty, Dead, HalfIn
    <3>5. OutEmpty => OutEmpty'
      BY <2>1, <3>1 DEF OutEmpty
    <3> QED
      BY <2>1, <3>1, <3>2, <3>3, <3>4, <3>5, OwnMove
  <2> QED
    BY <2>2, <2>3
<1>3. CASE DrainAppend
  <2>1. /\ UNCHANGED <<seq, inFlight, txBuf, pending, opened, rx, relay, out, toSched, fromSched,
                       peer, coord>>
        /\ NotifyAll /\ batch' = <<>> /\ drainer' = "poll"
    BY <1>3 DEF DrainAppend, port, guest, run
  <2>2. clean' => clean /\ respBuf' = respBuf \o batch
    BY <1>3 DEF DrainAppend
  <2>3. RelayInvariant' /\ PortInvariant'
    BY <2>1, <2>2 DEF Own, RelayInvariant, PortInvariant
  <2>4. (InEmpty' <=> InEmpty) /\ (Dead' <=> Dead) /\ (HalfIn' <=> HalfIn) /\ (WholeIn' <=> WholeIn)
    BY <2>1 DEF InEmpty, Dead, HalfIn, WholeIn
  <2>5. clean' /\ OutEmpty => OutEmpty'
    <3>1. <<>> \o <<>> = <<>>
      BY EmptySeq, ConcatEmptySeq
    <3> QED
      BY <2>1, <2>2, <3>1 DEF OutEmpty
  <2>6. ASSUME clean', AnswerOut PROVE AnswerOut'
    <3>1. respBuf \in Seq(AnyByte) /\ batch \in Seq(AnyByte)
      BY FreshIsAny DEF Inv, OutFresh, BufFresh
    <3>2. Good(respBuf, seq) /\ Good(batch, seq) /\ (Ends(respBuf) => batch = <<>>)
      BY <2>6 DEF AnswerOut
    <3>3. Good(respBuf', seq) /\ (Ends(respBuf') => Ends(respBuf) \/ Ends(batch))
      BY <2>2, <2>6, <3>1, <3>2, GoodConcat
    <3> QED
      BY <2>1, <2>6, <3>3, GoodEmpty DEF AnswerOut
  <2> QED
    BY <2>1, <2>2, <2>3, <2>4, <2>5, <2>6, OwnMove
<1>4. CASE DrainCancel
  <2>1. /\ UNCHANGED <<pc, seq, inFlight, respBuf, clean, batch, txBuf, pending, opened, rx, relay,
                       out, toSched, fromSched, peer, coord>>
        /\ drainer = "poll"
    BY <1>4 DEF DrainCancel, client, port, guest, run
  <2>2. batch' = <<>>
    BY <2>1 DEF Own, CallerInvariant
  <2> QED
    BY <2>1, <2>2, OwnFrame
<1>5. CASE DrainBye
  <2>1. /\ UNCHANGED <<seq, inFlight, respBuf, clean, batch, txBuf, pending, opened, rx, relay,
                       out, toSched, fromSched, peer, coord>>
        /\ drainer = "bye" /\ NotifyAll
    BY <1>5 DEF DrainBye, port, guest, run
  <2>2. batch' = <<>>
    BY <2>1 DEF Own, CallerInvariant
  <2> QED
    BY <2>1, <2>2, OwnFrame
<1> QED
  BY <1>1, <1>2, <1>3, <1>4, <1>5 DEF Drainer

---------------------------------------------------------------------------
\* An envelope is sent: nothing is claimed any more.
LEMMA OwnUnclean ==
  ASSUME Inv, Own, ~clean', UNCHANGED <<pc, seq, inFlight, drainer, batch, coord, pending, opened>>,
         rx' = rx \/ rx # <<>>,
         relay' = relay \/ (relay \in {"session", "lost"} /\ relay' \in {"lost", "wait"})
  PROVE  Own'
<1>1. RelayInvariant'
  BY DEF RelayInvariant
<1>2. PortInvariant'
  BY DEF Own, PortInvariant
<1>3. drainer' \notin {"route", "append"} => batch' = <<>>
  BY DEF Own, CallerInvariant
<1> QED
  BY <1>1, <1>2, <1>3, OwnMove

\* Own: the guest opens the port and takes what was pending.
LEMMA OwnOpenPort ==
  ASSUME Inv, Own, OpenPort
  PROVE  Own'
<1>1. /\ UNCHANGED <<pc, seq, inFlight, respBuf, clean, drainer, batch, txBuf, out, toSched,
                     fromSched, peer, coord>>
      /\ opened' = TRUE /\ pending' = <<>> /\ relay = "closed" /\ relay' = "wait" /\ DeviceFree
      /\ rx' = IF pending = <<>> THEN rx ELSE Append(rx, pending)
  BY DEF OpenPort, RelayAt, client, drain, run
<1>2. RelayInvariant' /\ PortInvariant'
  BY <1>1 DEF Own, RelayInvariant, PortInvariant
<1>3. ~Half /\ ~Dead
  BY <1>1 DEF Half, DeviceFree, Dead
<1>4. (InEmpty => InEmpty') /\ (OutEmpty => OutEmpty')
  BY <1>1 DEF InEmpty, OutEmpty
<1>5. AnswerOut => AnswerOut'
  BY <1>1 DEF AnswerOut
<1>6. WholeIn => WholeIn'
  <2>1. Append(<<>>, <<seq, 0>>) = << <<seq, 0>> >> /\ <<seq, 0>> # <<>>
    BY SMT
  <2> QED
    BY <1>1, <2>1 DEF WholeIn
<1>7. drainer' \notin {"route", "append"} => batch' = <<>>
  BY <1>1 DEF Own, CallerInvariant
<1> QED
  BY <1>1, <1>2, <1>3, <1>4, <1>5, <1>6, <1>7, OwnMove

\* The parts of a request move from the port to the socket.
LEMMA OwnForward ==
  ASSUME Inv, Own, Forward
  PROVE  Own'
<1>1. /\ UNCHANGED <<pc, seq, inFlight, respBuf, drainer, batch, txBuf, pending, opened,
                     fromSched, peer, coord>>
      /\ relay = "session" /\ rx # <<>> /\ rx' = Tail(rx)
  BY DEF Forward, RelayAt, drain, port, run
<1>2. CASE ~peer
  BY <1>1, <1>2, OwnUnclean DEF Forward
<1>3. CASE peer
  <2>1. toSched' = toSched \o Head(rx) /\ UNCHANGED <<relay, out, clean>>
    BY <1>3 DEF Forward
  <2>2. RelayInvariant' /\ PortInvariant'
    BY <1>1, <2>1 DEF Own, RelayInvariant, PortInvariant
  <2>3. ~InEmpty /\ ~Dead /\ (OutEmpty => OutEmpty')
    BY <1>1, <1>3, <2>1 DEF InEmpty, Dead, OutEmpty
  <2>4. seq \in Nat /\ 0 \in Nat
    BY DEF Inv, InTypes
  <2>5. HalfIn => HalfIn'
    <3>1. Tail(<< <<seq>> >>) = <<>> /\ Head(<< <<seq>> >>) = <<seq>> /\ <<>> \o <<seq>> = <<seq>>
      BY SMT
    <3> QED
      BY <1>1, <2>1, <3>1 DEF HalfIn
  <2>6. ASSUME WholeIn PROVE WholeIn'
    <3>1. CASE pending = <<>> /\ rx = << <<seq, 0>> >> /\ toSched = <<>>
      <4>1. Tail(<< <<seq, 0>> >>) = <<>> /\ Head(<< <<seq, 0>> >>) = <<seq, 0>>
        BY SMT
      <4>2. <<>> \o <<seq, 0>> = <<seq, 0>>
        BY SMT
      <4> QED
        BY <1>1, <2>1, <3>1, <4>1, <4>2 DEF WholeIn
    <3>2. CASE pending = <<>> /\ rx = << <<seq>>, <<0>> >> /\ toSched = <<>>
      <4>1. Tail(<< <<seq>>, <<0>> >>) = << <<0>> >> /\ Head(<< <<seq>>, <<0>> >>) = <<seq>>
        BY SMT
      <4>2. <<>> \o <<seq>> = <<seq>>
        BY SMT
      <4> QED
        BY <1>1, <2>1, <3>2, <4>1, <4>2 DEF WholeIn
    <3>3. CASE pending = <<>> /\ rx = << <<0>> >> /\ toSched = <<seq>>
      <4>1. Tail(<< <<0>> >>) = <<>> /\ Head(<< <<0>> >>) = <<0>>
        BY SMT
      <4>2. <<seq>> \o <<0>> = <<seq, 0>>
        BY <2>4, Pair
      <4> QED
        BY <1>1, <2>1, <3>3, <4>1, <4>2 DEF WholeIn
    <3> QED
      BY <1>1, <2>6, <3>1, <3>2, <3>3 DEF WholeIn
  <2>7. drainer' \notin {"route", "append"} => batch' = <<>>
    BY <1>1 DEF Own, CallerInvariant
  <2> QED
    BY <1>1, <2>1, <2>2, <2>3, <2>5, <2>6, <2>7, OwnMove
<1> QED
  BY <1>2, <1>3

\* The answer moves from the socket to the port.
LEMMA OwnOut ==
  ASSUME Inv, Own, Backward \/ WritePort
  PROVE  Own'
<1>1. UNCHANGED <<pc, seq, inFlight, respBuf, clean, drainer, batch, pending, opened, rx, relay,
                  toSched, peer, coord>>
  BY DEF Backward, WritePort, client, drain, port, run
<1>2. RelayInvariant' /\ PortInvariant'
  BY <1>1 DEF Own, RelayInvariant, PortInvariant
<1>3. ~OutEmpty /\ (InEmpty' <=> InEmpty)
  BY <1>1 DEF Backward, WritePort, InEmpty, OutEmpty
<1>4. ASSUME AnswerOut PROVE AnswerOut'
  <2>1. CASE Backward
    <3>1. out = <<>> /\ out' = fromSched /\ fromSched' = <<>> /\ txBuf' = txBuf
      BY <2>1 DEF Backward, RelayAt, port
    <3> QED
      BY <1>1, <1>4, <3>1, GoodEmpty DEF AnswerOut
  <2>2. CASE WritePort
    <3>1. txBuf' = Append(txBuf, Head(out)) /\ out' = Tail(out) /\ out # <<>> /\ fromSched' = fromSched
      BY <2>2 DEF WritePort
    <3>2. txBuf \in Seq(AnyByte) /\ out \in Seq(AnyByte)
      BY FreshIsAny DEF Inv, OutFresh
    <3>3. /\ Good(txBuf', seq) /\ Good(out', seq)
          /\ Ends(txBuf') => out' = <<>> /\ Ends(out)
          /\ Ends(out') => Ends(out)
      <4>1. Good(txBuf, seq) /\ Good(out, seq) /\ (Ends(txBuf) => out = <<>>)
        BY <1>4 DEF AnswerOut
      <4> QED
        BY <3>1, <3>2, <4>1, GoodMove
    <3>4. ~Ends(respBuf) /\ ~Ends(batch)
      BY <1>4, <3>1 DEF AnswerOut
    <3> QED
      BY <1>1, <1>4, <3>1, <3>3, <3>4 DEF AnswerOut
  <2> QED
    BY <2>1, <2>2
<1>5. drainer' \notin {"route", "append"} => batch' = <<>>
  BY <1>1 DEF Own, CallerInvariant
<1> QED
  BY <1>1, <1>2, <1>3, <1>4, <1>5, OwnMove

\* Own: the guest relay moves bytes both ways.
LEMMA OwnRelay ==
  ASSUME Inv, Own, Relay
  PROVE  Own'
<1>1. CASE Refuse
  BY <1>1, OwnUnclean DEF Refuse, drain, port, run
<1>2. CASE PortIsEmpty
  <2>1. ~clean
    BY <1>2 DEF PortIsEmpty, RelayAt, Own, RelayInvariant
  <2> QED
    BY <1>2, <2>1, OwnUnclean DEF PortIsEmpty, RelayAt, client, drain, port, run
<1>3. CASE LoseSocket
  BY <1>3, OwnUnclean DEF LoseSocket, RelayAt, drain, port, run
<1> QED
  BY <1>1, <1>2, <1>3, OwnOpenPort, OwnForward, OwnOut DEF Relay

\* Own: the relay connects to the scheduler.
LEMMA OwnConnect ==
  ASSUME Inv, Own, Connect
  PROVE  Own'
<1>1. /\ UNCHANGED <<pc, seq, inFlight, respBuf, clean, drainer, batch, txBuf, pending, opened, rx,
                     out, toSched, fromSched, coord>>
      /\ relay = "wait" /\ relay' = "session" /\ peer' = TRUE
  BY DEF Connect, RelayAt, client, drain, port, run
<1>2. RelayInvariant' /\ PortInvariant'
  BY <1>1 DEF Own, RelayInvariant, PortInvariant
<1>3. /\ ~Dead /\ (InEmpty' <=> InEmpty) /\ (OutEmpty' <=> OutEmpty)
      /\ (HalfIn' <=> HalfIn) /\ (WholeIn' <=> WholeIn)
  BY <1>1 DEF Dead, InEmpty, OutEmpty, HalfIn, WholeIn
<1>4. AnswerOut' <=> AnswerOut
  BY <1>1 DEF AnswerOut
<1>5. drainer' \notin {"route", "append"} => batch' = <<>>
  BY <1>1 DEF Own, CallerInvariant
<1> QED
  BY <1>1, <1>2, <1>3, <1>4, <1>5, OwnMove

\* Own: the guest side ends.
LEMMA OwnGuestStops ==
  ASSUME Inv, Own, GuestStops, UNCHANGED <<client, drain, port, coord>>
  PROVE  Own'
<1>1. UNCHANGED <<pc, seq, inFlight, respBuf, clean, drainer, batch, txBuf, pending, opened, coord>>
  BY DEF client, drain, port
<1>2. RelayInvariant' /\ PortInvariant'
  BY <1>1 DEF GuestStops, Own, RelayInvariant, PortInvariant
<1>3. Dead' /\ (InEmpty => InEmpty') /\ (OutEmpty => OutEmpty')
  BY <1>1 DEF GuestStops, Dead, InEmpty, OutEmpty
<1>4. AnswerOut => AnswerOut'
  BY <1>1, GoodEmpty DEF GuestStops, AnswerOut
<1>5. drainer' \notin {"route", "append"} => batch' = <<>>
  BY <1>1 DEF Own, CallerInvariant
<1> QED
  BY <1>1, <1>2, <1>3, <1>4, <1>5, OwnMove

---------------------------------------------------------------------------
\* Only the last byte of an answer ends a line.
LEMMA GoodAnswer ==
  ASSUME NEW k \in Nat, NEW n \in Answers
  PROVE  Good(Answer(k, n), k)
<1>1. Len(Answer(k, n)) = n /\ DOMAIN Answer(k, n) = 1..n
  BY AnswerFresh DEF Answer
<1>2. \A i \in DOMAIN Answer(k, n) : Answer(k, n)[i].of = k /\ (Answer(k, n)[i].end => i = n)
  BY <1>1 DEF Answer, Byte
<1> QED
  BY <1>1, <1>2 DEF Good

\* The only line that can reach a scheduler is the request of the moment.
LEMMA OwnSchedAnswer ==
  ASSUME Inv, Own, SchedAnswer
  PROVE  Own'
<1>1. /\ UNCHANGED <<pc, seq, inFlight, respBuf, clean, drainer, batch, txBuf, pending, opened, rx,
                     relay, out, peer, coord>>
      /\ peer
  BY DEF SchedAnswer, client, drain, port, run
<1>2. PICK e \in DOMAIN toSched, n \in Answers :
        /\ toSched[e] = 0 /\ \A i \in 1..(e - 1) : toSched[i] # 0
        /\ toSched' = SubSeq(toSched, e + 1, Len(toSched))
        /\ fromSched' = fromSched \o Answer(IF e = 2 THEN toSched[1] ELSE 0, n)
  BY DEF SchedAnswer
<1>3. toSched # <<>> /\ seq \in Nat
  BY <1>2, SMT DEF Inv, InTypes
<1>4. RelayInvariant'
  <2>1. clean => relay \notin {"closed", "wait", "lost"}
    BY <1>1 DEF Own, RelayInvariant
  <2> QED
    BY <1>1, <2>1 DEF RelayInvariant
<1>5. PortInvariant'
  BY <1>1 DEF Own, PortInvariant
<1>6. ~InEmpty
  BY <1>3 DEF InEmpty
<1>7. Half \/ Waits => seq # 0
  BY DEF Own, CallerInvariant, Holders, Half, Waits, Waiting
<1>8. clean => ~Dead
  BY <1>1 DEF Own, RelayInvariant, Dead, SchedAnswer, Running
<1>9. toSched = <<seq>> => seq = 0
  BY <1>2, SMT
<1>10. clean /\ Half => ~HalfIn
  BY <1>3, <1>7, <1>9 DEF HalfIn
<1>11. ASSUME clean, Waits, OutEmpty, WholeIn PROVE InEmpty' /\ AnswerOut'
  <2>1. pending = <<>> /\ rx = <<>> /\ toSched = <<seq, 0>> /\ seq # 0
    BY <1>3, <1>7, <1>9, <1>11 DEF WholeIn
  <2>2. e = 2 /\ toSched[1] = seq /\ Len(toSched) = 2
    BY <1>2, <2>1, SMT
  <2>3. toSched' = <<>>
    <3>1. toSched \in Seq(Nat)
      BY DEF Inv, InTypes
    <3>2. SubSeq(toSched, 3, 2) = <<>>
      BY <3>1, SubSeqEmpty, SMT
    <3> QED
      BY <1>2, <2>2, <3>2, SMT
  <2>4. fromSched' = Answer(seq, n)
    <3>1. fromSched' = <<>> \o Answer(seq, n)
      BY <1>2, <1>11, <2>2 DEF OutEmpty
    <3>2. Answer(seq, n) \in Seq(FreshByte)
      BY <1>3, AnswerFresh
    <3> QED
      BY <3>1, <3>2, ConcatEmptySeq
  <2>5. Good(fromSched', seq)
    BY <1>3, <2>4, GoodAnswer
  <2>6. AnswerOut'
    BY <1>1, <1>11, <2>5, GoodEmpty DEF OutEmpty, AnswerOut
  <2> QED
    BY <1>1, <2>1, <2>3, <2>6 DEF InEmpty
<1>12. drainer' \notin {"route", "append"} => batch' = <<>>
  BY <1>1 DEF Own, CallerInvariant
<1> QED
  BY <1>1, <1>4, <1>5, <1>6, <1>8, <1>10, <1>11, <1>12, OwnMove

\* Own: the scheduler exits.
LEMMA OwnSchedExit ==
  ASSUME Inv, Own, SchedExit
  PROVE  Own'
<1>1. /\ UNCHANGED <<pc, seq, inFlight, respBuf, clean, drainer, batch, txBuf, pending, opened, rx,
                     relay, out, fromSched, coord>>
      /\ peer' = FALSE /\ toSched' = <<>>
  BY DEF SchedExit, client, drain, port, run
<1>2. RelayInvariant' /\ PortInvariant'
  BY <1>1 DEF Own, RelayInvariant, PortInvariant
<1>3. (InEmpty => InEmpty') /\ (OutEmpty => OutEmpty')
  BY <1>1 DEF InEmpty, OutEmpty
<1>4. clean => Dead' \/ (toSched' = toSched /\ ~Dead)
  BY <1>1 DEF Dead, Own, RelayInvariant, PortInvariant
<1>5. toSched' = toSched => (HalfIn' <=> HalfIn) /\ (WholeIn' <=> WholeIn)
  BY <1>1 DEF HalfIn, WholeIn
<1>6. AnswerOut => AnswerOut'
  BY <1>1 DEF AnswerOut
<1>7. drainer' \notin {"route", "append"} => batch' = <<>>
  BY <1>1 DEF Own, CallerInvariant
<1> QED
  BY <1>1, <1>2, <1>3, <1>4, <1>5, <1>6, <1>7, OwnMove

\* Own: steps that move no bytes.
LEMMA OwnRun ==
  ASSUME Inv, Own, SchedStart \/ Coordinator \/ Kill \/ CollectResults \/ UNCHANGED vars
  PROVE  Own'
<1>1. UNCHANGED <<client, drain, port, rx, relay, out, toSched, fromSched, peer>>
  BY DEF SchedStart, Coordinator, Kill, CollectResults, vars, guest, PeriodicFreeze, Rendezvous,
         PeriodicStore, CoordReadsKill, CoordExits
<1>2. coord' = coord \/ coord # "asking" \/ pc[Coord] = "idle"
  BY DEF SchedStart, Coordinator, Kill, CollectResults, vars, run, PeriodicFreeze, Rendezvous,
         PeriodicStore, Freeze, CoordReadsKill, CoordExits
<1>3. coord' = coord \/ pc[Coord] = "idle"
  BY <1>2 DEF Own, CallerInvariant
<1>4. drainer' \notin {"route", "append"} => batch' = <<>>
  BY <1>1 DEF drain, Own, CallerInvariant
<1> QED
  BY <1>1, <1>3, <1>4, OwnFrame DEF client, drain, port

\* Every step keeps Own.
LEMMA NextOwn == Inv /\ Own /\ [Next]_vars => Own'
<1> SUFFICES ASSUME Inv, Own, [Next]_vars PROVE Own'
  OBVIOUS
<1>1. ASSUME NEW c \in Clones, Call(c) PROVE Own'
  <2>1. c \in Callers /\ c # Coord /\ pc[c] = "idle" /\ Go(c, "lock") /\ coord' = coord
    BY <1>1, StatsAssumption DEF Call, Callers, run
  <2>2. UNCHANGED <<seq, inFlight, respBuf, clean, drain, port, guest>>
    BY <1>1 DEF Call
  <2> QED
    BY <2>1, <2>2, OwnCall
<1>2. ASSUME NEW c \in Callers, Request(c) PROVE Own'
  BY <1>2, OwnStart, OwnPush, OwnSteps, OwnCheck DEF Request
<1>3. CASE Stop
  BY <1>3, OwnGuestStops DEF Stop, run
<1>4. CASE PeriodicDue
  <2>1. Coord \in Callers /\ pc[Coord] = "idle"
    BY <1>4 DEF PeriodicDue, Own, CallerInvariant, Callers
  <2> QED
    BY <1>4, <2>1, OwnCall DEF PeriodicDue
<1>5. CASE BspEnds
  BY <1>5, OwnGuestStops DEF BspEnds
<1>6. CASE Drainer
  BY <1>6, OwnDrainer
<1>7. CASE Relay \/ Connect
  BY <1>7, OwnRelay, OwnConnect
<1>8. CASE SchedAnswer \/ SchedExit
  BY <1>8, OwnSchedAnswer, OwnSchedExit
<1>9. CASE SchedStart \/ Coordinator \/ Kill \/ CollectResults \/ UNCHANGED vars
  BY <1>9, OwnRun
<1> QED
  BY <1>1, <1>2, <1>3, <1>4, <1>5, <1>6, <1>7, <1>8, <1>9 DEF Next

\* For any number of callers, requests, captures and schedulers: as long as
\* no envelope has been sent and no request given up, what request_raw finds
\* in the response buffer answers the request it has just made.
THEOREM AnswersAlwaysOwn == Spec => []AnswersAreOwn
<1>1. Init => Inv /\ Own
  BY InitInv, OwnInit
<1>2. Inv /\ Own /\ [Next]_vars => Inv' /\ Own'
  BY NextInv, NextOwn
<1>3. Inv /\ Own => AnswersAreOwn
  <2> SUFFICES ASSUME Inv, Own, Reads, clean, NEW i \in DOMAIN respBuf PROVE respBuf[i].of = seq
    BY DEF AnswersAreOwn
  <2>1. Waits /\ respBuf # <<>>
    BY SMT DEF Reads, Waits, Waiting
  <2>2. Good(respBuf, seq)
    BY <2>1 DEF Own, OneWay, OutEmpty, AnswerOut
  <2> QED
    BY <2>2 DEF Good
<1> QED
  BY <1>1, <1>2, <1>3, PTL DEF Spec
============================================================================

--------------------------- MODULE NrRlcUm_proofs ---------------------------
(***************************************************************************)
(* RLC UM.  The transmitter, for every SDU size, every sequence of         *)
(* opportunities and every limit: its byte count is that of the queue, a   *)
(* report is pending while it holds data, its PDUs fit what MAC offers and *)
(* continue one another.  The receiver, for every window, link and         *)
(* framing: what waits is in the window and has a timer, and what reaches  *)
(* PDCP is whole and in order, while two t-Reorderings and a run of losses *)
(* fit the window.  At the end, both together.                             *)
(*                                                                         *)
(* Sequence numbers are proved about through the PDU numbers they stand    *)
(* for: the invariant names the ones VR(UR) and VR(UX) stand for.          *)
(***************************************************************************)
EXTENDS NrRlcUmTx, NrRlcUmRx, SequenceTheorems, WellFoundedInduction, TLAPS

(* The queue holds the last SDUs accepted, and only its head may have been *)
(* cut.                                                                    *)
Numbered ==
    /\ txBuffer \in Seq(TxPdu) /\ sent \in Nat
    /\ \A i \in 1..Len(txBuffer) :
          /\ txBuffer[i].sdu = sent - Len(txBuffer) + i
          /\ i > 1 => txBuffer[i].seg = 1

(* The loop over the queue ends at an SDU of it. *)
LEMMA LoopEnds ==
    ASSUME NEW buf \in Seq(TxPdu), buf # <<>>, NEW room
    PROVE  /\ LastTaken(buf, room) \in 1..Len(buf)
           /\ \A i \in 1..(LastTaken(buf, room) - 1) : GoesOn(buf, room, i)
<1> DEFINE Stops == {k \in 1..Len(buf) : ~GoesOn(buf, room, k)}
<1>1. Len(buf) \in Nat \ {0}
  BY EmptySeq, LenProperties
<1>2. Stops # {} /\ Stops \subseteq Nat
  <2>1. ~GoesOn(buf, room, Len(buf))
    BY <1>1 DEF GoesOn
  <2> QED
    BY <1>1, <2>1
<1>3. PICK k \in Stops : \A i \in Stops : <<i, k>> \notin OpToRel(<, Nat)
  BY <1>2, WFMin, NatLessThanWellFounded, Zenon
<1>4. \A i \in Stops : ~(i < k)
  BY <1>2, <1>3, Zenon DEF OpToRel
<1>5. \A i \in 1..(k - 1) : GoesOn(buf, room, i)
  BY <1>1, <1>4
<1>6. \E j \in 1..Len(buf) :
         ~GoesOn(buf, room, j) /\ \A i \in 1..(j - 1) : GoesOn(buf, room, i)
  BY <1>5
<1> QED
  BY <1>6, Zenon DEF LastTaken

(* An entry that is logged, and one that is cut, stay entries. *)
LEMMA Logged ==
    ASSUME NEW e \in TxPdu, NEW h \in Nat
    PROVE  LET f == [e EXCEPT !.hol = h] IN
           f \in TxPdu /\ f.sdu = e.sdu /\ f.seg = e.seg /\ f.size = e.size
  BY DEF TxPdu

LEMMA CutEntry ==
    ASSUME NEW e \in TxPdu, NEW n \in 1..(e.size - 1)
    PROVE  LET f == [e EXCEPT !.size = @ - n, !.seg = @ + 1] IN
           f \in TxPdu /\ f.sdu = e.sdu /\ f.seg = e.seg + 1 /\ f.size = e.size - n
<1>1. e.size \in Nat /\ e.seg \in Nat
  BY DEF TxPdu
<1>2. e.size - n \in Nat \ {0} /\ e.seg + 1 \in Nat \ {0}
  BY <1>1
<1> QED
  BY <1>2 DEF TxPdu

(* What stays in the queue behind the PDU keeps number, segment and size. *)
LEMMA BehindIs ==
    ASSUME NEW buf \in Seq(TxPdu), NEW k \in 1..Len(buf)
    PROVE  /\ Behind(buf, k) \in Seq(TxPdu)
           /\ Len(Behind(buf, k)) = Len(buf) - k
           /\ \A i \in 1..(Len(buf) - k) :
                 /\ Behind(buf, k)[i].sdu = buf[k + i].sdu
                 /\ Behind(buf, k)[i].seg = buf[k + i].seg
                 /\ Behind(buf, k)[i].size = buf[k + i].size
<1>1. Len(buf) - k \in Nat
  BY LenProperties
<1>2. \A i \in 1..(Len(buf) - k) : buf[k + i] \in TxPdu
  BY <1>1, ElementOfSeq, LenProperties
<1>3. \A i \in 1..(Len(buf) - k) :
         /\ Behind(buf, k)[i] \in TxPdu
         /\ Behind(buf, k)[i].sdu = buf[k + i].sdu
         /\ Behind(buf, k)[i].seg = buf[k + i].seg
         /\ Behind(buf, k)[i].size = buf[k + i].size
  <2> TAKE i \in 1..(Len(buf) - k)
  <2> DEFINE e == buf[k + i]
             h == IF i = 1 THEN e.hol + 1 ELSE e.hol
  <2>1. e \in TxPdu
    BY <1>2
  <2>2. Behind(buf, k)[i] = [e EXCEPT !.hol = h]
    BY DEF Behind
  <2> HIDE DEF e
  <2>4. h \in Nat
    <3>1. e.hol \in Nat
      BY <2>1 DEF TxPdu
    <3> QED
      BY <3>1
  <2> HIDE DEF h
  <2>3. /\ Behind(buf, k)[i] \in TxPdu /\ Behind(buf, k)[i].sdu = e.sdu
        /\ Behind(buf, k)[i].seg = e.seg /\ Behind(buf, k)[i].size = e.size
    BY <2>1, <2>2, <2>4, Logged
  <2> QED
    BY <2>3 DEF e
<1>4. Behind(buf, k) \in [1..(Len(buf) - k) -> TxPdu]
  BY <1>3, Zenon DEF Behind
<1> QED
  BY <1>1, <1>3, <1>4, SeqDef, LenProperties

LEMMA Prepended ==
    ASSUME NEW e \in TxPdu, NEW buf \in Seq(TxPdu)
    PROVE  /\ <<e>> \o buf \in Seq(TxPdu) /\ Len(<<e>> \o buf) = 1 + Len(buf)
           /\ (<<e>> \o buf)[1] = e
           /\ \A i \in 2..(1 + Len(buf)) : (<<e>> \o buf)[i] = buf[i - 1]
<1>1. <<e>> \in Seq(TxPdu) /\ Len(<<e>>) = 1 /\ <<e>>[1] = e
  OBVIOUS
<1> QED
  BY <1>1, ConcatProperties

(* The rest of the queue after a PDU that ends in its k-th SDU. *)
Kept(buf, room, k) == IF IsCut(buf, room, k) THEN 1 ELSE 0

LEMMA RestIs ==
    ASSUME NEW buf \in Seq(TxPdu), NEW k \in 1..Len(buf), NEW room
    PROVE  /\ Rest(buf, room, k) \in Seq(TxPdu)
           /\ Len(Rest(buf, room, k)) = Len(buf) - k + Kept(buf, room, k)
           /\ \A i \in 1..Len(Rest(buf, room, k)) :
                 /\ Rest(buf, room, k)[i].sdu = buf[k + i - Kept(buf, room, k)].sdu
                 /\ Rest(buf, room, k)[i].seg =
                       IF i = 1 /\ Kept(buf, room, k) = 1 THEN buf[k].seg + 1
                       ELSE buf[k + i - Kept(buf, room, k)].seg
                 /\ Rest(buf, room, k)[i].size =
                       IF i = 1 /\ Kept(buf, room, k) = 1 THEN buf[k].size - room[k]
                       ELSE buf[k + i - Kept(buf, room, k)].size
<1> DEFINE behind == Behind(buf, k)
           front == [buf[k] EXCEPT !.size = @ - room[k], !.seg = @ + 1]
<1>1. /\ behind \in Seq(TxPdu) /\ Len(behind) = Len(buf) - k
      /\ \A i \in 1..(Len(buf) - k) :
            /\ behind[i].sdu = buf[k + i].sdu /\ behind[i].seg = buf[k + i].seg
            /\ behind[i].size = buf[k + i].size
  BY BehindIs
<1>1a. behind \in Seq(TxPdu) /\ Len(behind) = Len(buf) - k
  BY <1>1
<1>2. Len(buf) \in Nat /\ buf[k] \in TxPdu
  BY LenProperties, ElementOfSeq
<1> HIDE DEF behind
<1>3. CASE IsCut(buf, room, k)
  <2>1. /\ front \in TxPdu /\ front.sdu = buf[k].sdu /\ front.seg = buf[k].seg + 1
        /\ front.size = buf[k].size - room[k]
    BY <1>2, <1>3, CutEntry DEF IsCut
  <2> HIDE DEF front
  <2>2. Rest(buf, room, k) = <<front>> \o behind
    BY <1>3 DEF Rest, behind, front
  <2>4. /\ <<front>> \o behind \in Seq(TxPdu)
        /\ Len(<<front>> \o behind) = 1 + Len(buf) - k
        /\ (<<front>> \o behind)[1] = front
        /\ \A i \in 2..(1 + Len(buf) - k) : (<<front>> \o behind)[i] = behind[i - 1]
    BY <1>1a, <1>2, <2>1, Prepended
  <2>5. \A i \in 2..(1 + Len(buf) - k) :
           /\ i - 1 \in 1..(Len(buf) - k)
           /\ k + (i - 1) = k + i - 1
    BY <1>2
  <2>6. \A i \in 2..(1 + Len(buf) - k) :
           /\ (<<front>> \o behind)[i].sdu = buf[k + i - 1].sdu
           /\ (<<front>> \o behind)[i].seg = buf[k + i - 1].seg
           /\ (<<front>> \o behind)[i].size = buf[k + i - 1].size
    BY <1>1, <2>4, <2>5
  <2> HIDE DEF front
  <2> DEFINE rest == <<front>> \o behind
  <2>7. /\ rest \in Seq(TxPdu) /\ Len(rest) = 1 + Len(buf) - k /\ rest[1] = front
        /\ \A i \in 2..(1 + Len(buf) - k) :
              /\ rest[i].sdu = buf[k + i - 1].sdu /\ rest[i].seg = buf[k + i - 1].seg
              /\ rest[i].size = buf[k + i - 1].size
    BY <2>4, <2>6
  <2> HIDE DEF rest
  <2>8. Rest(buf, room, k) = rest
    BY <2>2 DEF rest
  <2> QED
    BY <1>2, <1>3, <2>1, <2>7, <2>8 DEF Kept
<1>4. CASE ~IsCut(buf, room, k)
  <2>1. Rest(buf, room, k) = behind
    BY <1>4 DEF Rest, behind
  <2> QED
    BY <1>1, <1>2, <1>4, <2>1 DEF Kept
<1> QED
  BY <1>3, <1>4

-----------------------------------------------------------------------------
(* The pieces of a PDU, read off the queue. *)
LEMMA PiecesAre ==
    ASSUME NEW buf \in Seq(TxPdu), NEW k \in 1..Len(buf), NEW room
    PROVE  /\ TxPieces(buf, room, k) \in Seq(TxPiece) /\ Len(TxPieces(buf, room, k)) = k
           /\ \A i \in 1..k :
                 /\ TxPieces(buf, room, k)[i].sdu = buf[i].sdu
                 /\ TxPieces(buf, room, k)[i].seg = buf[i].seg
                 /\ i < k => TxPieces(buf, room, k)[i].last = TRUE
                 /\ TxPieces(buf, room, k)[i].size =
                       IF i = k /\ Kept(buf, room, k) = 1 THEN room[k] ELSE buf[i].size
           /\ TxPieces(buf, room, k)[k].last = TRUE <=> Kept(buf, room, k) = 0
<1> DEFINE p == TxPieces(buf, room, k)
<1>1. k \in Nat \ {0} /\ \A i \in 1..k : buf[i] \in TxPdu
  BY LenProperties, ElementOfSeq
<1>2. ASSUME NEW i \in 1..k
      PROVE  /\ p[i] \in TxPiece
             /\ p[i].sdu = buf[i].sdu /\ p[i].seg = buf[i].seg
             /\ i < k => p[i].last = TRUE
             /\ i = k => (p[i].last = TRUE <=> Kept(buf, room, k) = 0)
             /\ p[i].size = IF i = k /\ Kept(buf, room, k) = 1 THEN room[k] ELSE buf[i].size
  <2> DEFINE cut == i = k /\ IsCut(buf, room, k)
             e == buf[i]
  <2>1. p[i] = [sdu |-> e.sdu, seg |-> e.seg, last |-> ~cut,
                size |-> IF cut THEN room[k] ELSE e.size]
    BY DEF TxPieces
  <2>2. e.sdu \in Nat /\ e.seg \in Nat \ {0} /\ e.size \in Nat \ {0}
    BY <1>1, <1>2 DEF TxPdu
  <2>3. CASE cut
    <3>1. room[k] \in Nat \ {0} /\ i = k /\ Kept(buf, room, k) = 1
      BY <2>2, <2>3 DEF IsCut, Kept
    <3>2. p[i] = [sdu |-> e.sdu, seg |-> e.seg, last |-> FALSE, size |-> room[k]]
      BY <2>1, <2>3
    <3> HIDE DEF p, e, cut
    <3>3. /\ p[i] \in TxPiece /\ p[i].sdu = e.sdu /\ p[i].seg = e.seg /\ p[i].last = FALSE
          /\ p[i].size = room[k]
      BY <2>2, <3>1, <3>2 DEF TxPiece
    <3> QED
      BY <1>1, <3>1, <3>3 DEF e
  <2>4. CASE ~cut
    <3>1. p[i] = [sdu |-> e.sdu, seg |-> e.seg, last |-> TRUE, size |-> e.size]
      BY <2>1, <2>4
    <3>2. i = k => Kept(buf, room, k) = 0
      BY <2>4 DEF Kept
    <3> HIDE DEF p, e, cut
    <3>3. /\ p[i] \in TxPiece /\ p[i].sdu = e.sdu /\ p[i].seg = e.seg /\ p[i].last = TRUE
          /\ p[i].size = e.size
      BY <2>2, <3>1 DEF TxPiece
    <3> QED
      BY <3>2, <3>3 DEF e
  <2> QED
    BY <2>3, <2>4
<1>3. p \in [1..k -> TxPiece]
  BY <1>2, Zenon DEF TxPieces
<1>4. k \in 1..k
  BY <1>1
<1>5. p \in Seq(TxPiece) /\ Len(p) = k
  BY <1>1, <1>3, SeqDef, LenProperties
<1> HIDE DEF p
<1>6. p[k].last = TRUE <=> Kept(buf, room, k) = 0
  BY <1>2, <1>4
<1>7. \A i \in 1..k : p[i].sdu = buf[i].sdu /\ p[i].seg = buf[i].seg
                      /\ (i < k => p[i].last = TRUE)
                      /\ p[i].size = IF i = k /\ Kept(buf, room, k) = 1 THEN room[k]
                                     ELSE buf[i].size
  BY <1>2
<1> QED
  BY <1>5, <1>6, <1>7 DEF p

(* A transmission opportunity keeps the numbering and frames its PDU. *)
FramedNow ==
    pdu' # <<>> =>
      /\ \A i \in DOMAIN pdu' :
            /\ pdu'[i].sdu = Place.sdu + i - 1
            /\ pdu'[i].seg = IF i = 1 THEN Place.seg ELSE 1
            /\ i < Len(pdu') => pdu'[i].last
      /\ Place' = IF Last(pdu').last THEN [sdu |-> Last(pdu').sdu + 1, seg |-> 1]
                  ELSE [sdu |-> Last(pdu').sdu, seg |-> Last(pdu').seg + 1]

LEMMA OpportunityFrames ==
    ASSUME Numbered, NEW bytes \in Opportunities, DoNotifyTxOpportunity(bytes)
    PROVE  Numbered' /\ FramedNow /\ pdu' \in Seq(TxPiece) /\ pdu' # <<>>
<1> DEFINE room == Room(txBuffer, bytes)
           k == LastTaken(txBuffer, room)
           cut == Kept(txBuffer, room, k)
           n == Len(txBuffer)
<1>1. /\ txBuffer # <<>> /\ pdu' = TxPieces(txBuffer, room, k)
      /\ txBuffer' = Rest(txBuffer, room, k) /\ sent' = sent
  BY DEF DoNotifyTxOpportunity, Transmits
<1>a. txBuffer \in Seq(TxPdu)
  BY DEF Numbered
<1>2. /\ sent \in Nat /\ n \in Nat
      /\ \A i \in 1..n : txBuffer[i].sdu = sent - n + i
      /\ \A i \in 1..n : i > 1 => txBuffer[i].seg = 1
  BY LenProperties DEF Numbered
<1> HIDE DEF room
<1>3. k \in 1..n
  BY <1>1, <1>a, LoopEnds
<1> HIDE DEF k
<1>c. cut \in {0, 1}
  BY DEF Kept
<1>4. /\ txBuffer' \in Seq(TxPdu) /\ Len(txBuffer') = n - k + cut
      /\ \A i \in 1..Len(txBuffer') :
            /\ txBuffer'[i].sdu = txBuffer[k + i - cut].sdu
            /\ txBuffer'[i].seg = IF i = 1 /\ cut = 1 THEN txBuffer[k].seg + 1
                                  ELSE txBuffer[k + i - cut].seg
  BY <1>1, <1>a, <1>3, RestIs, Zenon
<1>5. /\ pdu' \in Seq(TxPiece) /\ Len(pdu') = k
      /\ \A i \in 1..k :
            /\ pdu'[i].sdu = txBuffer[i].sdu
            /\ pdu'[i].seg = txBuffer[i].seg
            /\ i < k => pdu'[i].last = TRUE
      /\ pdu'[k].last = TRUE <=> cut = 0
  BY <1>1, <1>a, <1>3, PiecesAre, Zenon
<1> HIDE DEF cut
<1>6. Numbered'
  <2> DEFINE m == Len(txBuffer')
  <2>1. \A i \in 1..m : k + i - cut \in 1..n /\ (i > 1 => k + i - cut > 1)
    BY <1>2, <1>3, <1>4, <1>c
  <2>2. /\ m = n - k + cut
        /\ \A i \in 1..m : txBuffer'[i].sdu = txBuffer[k + i - cut].sdu
        /\ \A i \in 1..m : i > 1 => txBuffer'[i].seg = txBuffer[k + i - cut].seg
    BY <1>4
  <2> HIDE DEF m, n
  <2>3. \A i \in 1..m : txBuffer'[i].sdu = sent - m + i
    BY <1>2, <1>3, <1>c, <2>1, <2>2
  <2>4. \A i \in 1..m : i > 1 => txBuffer'[i].seg = 1
    BY <1>2, <2>1, <2>2
  <2> QED
    BY <1>1, <1>2, <1>4, <2>3, <2>4 DEF Numbered, m
<1>7. Place = [sdu |-> txBuffer[1].sdu, seg |-> txBuffer[1].seg]
  BY <1>1 DEF Place
<1>8. \A i \in DOMAIN pdu' :
         /\ pdu'[i].sdu = Place.sdu + i - 1
         /\ pdu'[i].seg = IF i = 1 THEN Place.seg ELSE 1
         /\ i < Len(pdu') => pdu'[i].last
  <2>1. DOMAIN pdu' = 1..k /\ Len(pdu') = k
    BY <1>5, LenProperties
  <2>2. Place.sdu = sent - n + 1 /\ Place.seg = txBuffer[1].seg
    BY <1>2, <1>3, <1>7
  <2>3. \A i \in 1..k : /\ pdu'[i].sdu = txBuffer[i].sdu
                        /\ pdu'[i].seg = txBuffer[i].seg
                        /\ i < k => pdu'[i].last = TRUE
    BY <1>5
  <2> HIDE DEF n
  <2>4. \A i \in 1..k : i \in 1..n
    BY <1>2, <1>3
  <2>5. \A i \in 1..k : pdu'[i].sdu = Place.sdu + i - 1
    BY <1>2, <1>3, <2>2, <2>3, <2>4
  <2>6. \A i \in 1..k : pdu'[i].seg = IF i = 1 THEN Place.seg ELSE 1
    BY <1>2, <1>3, <2>2, <2>3, <2>4
  <2> QED
    BY <2>1, <2>3, <2>5, <2>6
<1>9. Place' = IF Last(pdu').last THEN [sdu |-> Last(pdu').sdu + 1, seg |-> 1]
               ELSE [sdu |-> Last(pdu').sdu, seg |-> Last(pdu').seg + 1]
  <2> DEFINE e == pdu'[k]
             to == txBuffer'[1]
             now == [sdu |-> to.sdu, seg |-> to.seg]
  <2>1. Last(pdu') = e
    BY <1>5 DEF Last
  <2>2. /\ e.sdu = txBuffer[k].sdu /\ e.seg = txBuffer[k].seg
        /\ e.last = TRUE <=> cut = 0
    BY <1>3, <1>5, <1>c
  <2>3. Place' = IF txBuffer' = <<>> THEN [sdu |-> sent + 1, seg |-> 1] ELSE now
    BY <1>1 DEF Place
  <2>4. txBuffer' = <<>> <=> k = n /\ cut = 0
    BY <1>2, <1>3, <1>4, <1>c, EmptySeq
  <2>5. ASSUME txBuffer' # <<>>
        PROVE  /\ to.sdu = txBuffer[k + 1 - cut].sdu
               /\ to.seg = IF cut = 1 THEN txBuffer[k].seg + 1 ELSE txBuffer[k + 1 - cut].seg
    <3>1. 1 \in 1..Len(txBuffer')
      BY <1>2, <1>3, <1>4, <1>c, <2>4, <2>5
    <3> QED
      BY <1>4, <3>1
  <2>6. txBuffer[k].sdu = sent - n + k
    BY <1>2, <1>3
  <2>7. n \in Nat /\ sent \in Nat
    BY <1>2
  <2> HIDE DEF e, to, n
  <2>8. CASE cut = 1
    <3>1. k + 1 - cut = k /\ txBuffer' # <<>>
      BY <1>3, <2>4, <2>7, <2>8
    <3>2. to.sdu = e.sdu /\ to.seg = e.seg + 1
      BY <1>3, <2>2, <2>5, <2>6, <2>7, <2>8, <3>1
    <3> QED
      BY <2>1, <2>2, <2>3, <2>8, <3>1, <3>2
  <2>9. CASE cut = 0 /\ k < n
    <3>1. k + 1 - cut = k + 1 /\ txBuffer' # <<>> /\ k + 1 \in 1..n /\ k + 1 > 1
      BY <1>3, <2>4, <2>7, <2>9
    <3>2. txBuffer[k + 1].sdu = sent - n + (k + 1) /\ txBuffer[k + 1].seg = 1
      BY <1>2, <3>1
    <3>3. to.sdu = txBuffer[k + 1].sdu /\ to.seg = 1
      BY <2>5, <2>9, <3>1, <3>2
    <3>4. to.sdu = e.sdu + 1
      BY <1>3, <2>2, <2>6, <2>7, <3>2, <3>3
    <3> QED
      BY <2>1, <2>2, <2>3, <2>9, <3>1, <3>3, <3>4
  <2>10. CASE cut = 0 /\ k = n
    <3>1. e.sdu = sent /\ txBuffer' = <<>>
      BY <2>2, <2>4, <2>6, <2>7, <2>10
    <3> QED
      BY <2>1, <2>2, <2>3, <2>10, <3>1
  <2> QED
    BY <1>3, <1>c, <2>7, <2>8, <2>9, <2>10
<1>10. pdu' # <<>>
  BY <1>2, <1>3, <1>5, EmptySeq
<1> QED
  BY <1>5, <1>6, <1>8, <1>9, <1>10 DEF FramedNow

-----------------------------------------------------------------------------
TxInv == Numbered /\ ReportPending

LEMMA AcceptKeeps ==
    ASSUME TxInv, NEW n \in Sizes, Accept(n)
    PROVE  TxInv'
<1> DEFINE e == [sdu |-> sent + 1, size |-> n, seg |-> 1, late |-> FALSE,
                 hol |-> IF txBuffer = <<>> THEN 1 ELSE 0]
           l == Len(txBuffer)
<1>1. /\ txBuffer' = Append(txBuffer, e) /\ sent' = sent + 1 /\ bsrTimer' = TRUE
  BY DEF Accept
<1>2. txBuffer \in Seq(TxPdu) /\ sent \in Nat /\ l \in Nat
  BY LenProperties DEF TxInv, Numbered
<1>3. e \in TxPdu /\ e.sdu = sent + 1 /\ e.seg = 1
  BY <1>2, SizeAssumption DEF TxPdu
<1> HIDE DEF e
<1>4. /\ txBuffer' \in Seq(TxPdu) /\ Len(txBuffer') = l + 1
      /\ \A i \in 1..l : txBuffer'[i] = txBuffer[i]
      /\ txBuffer'[l + 1] = e
  BY <1>1, <1>2, <1>3, AppendProperties
<1>5. /\ \A i \in 1..l : txBuffer[i].sdu = sent - l + i
      /\ \A i \in 1..l : i > 1 => txBuffer[i].seg = 1
  BY DEF TxInv, Numbered
<1> HIDE DEF l
<1>6. ASSUME NEW i \in 1..(l + 1)
      PROVE  txBuffer'[i].sdu = sent' - (l + 1) + i /\ (i > 1 => txBuffer'[i].seg = 1)
  <2>1. CASE i = l + 1
    BY <1>1, <1>2, <1>3, <1>4, <2>1
  <2>2. CASE i # l + 1
    <3>1. i \in 1..l
      BY <1>2, <1>6, <2>2
    <3> QED
      BY <1>1, <1>2, <1>4, <1>5, <3>1
  <2> QED
    BY <2>1, <2>2
<1>7. Numbered'
  BY <1>1, <1>2, <1>4, <1>6 DEF Numbered
<1> QED
  BY <1>1, <1>7 DEF TxInv, ReportPending

(* Time passes: entries only become late. *)
LEMMA AgeKeeps ==
    ASSUME TxInv, NEW k \in DOMAIN txBuffer, Age(k)
    PROVE  TxInv'
<1> DEFINE n == Len(txBuffer)
<1>1. /\ txBuffer \in Seq(TxPdu) /\ sent \in Nat /\ n \in Nat /\ DOMAIN txBuffer = 1..n
      /\ \A i \in 1..n : txBuffer[i] \in TxPdu
  BY LenProperties, ElementOfSeq DEF TxInv, Numbered
<1>2. \A i \in 1..n : /\ txBuffer'[i] \in TxPdu
                      /\ txBuffer'[i].sdu = txBuffer[i].sdu
                      /\ txBuffer'[i].seg = txBuffer[i].seg
  <2> TAKE i \in 1..n
  <2> DEFINE e == txBuffer[i]
             late == e.late \/ i <= k
  <2>1. e \in TxPdu
    BY <1>1
  <2>2. txBuffer'[i] = [e EXCEPT !.late = late]
    BY <1>1 DEF Age
  <2>3. late \in BOOLEAN
    OBVIOUS
  <2> HIDE DEF e, late
  <2>4. txBuffer'[i] \in TxPdu /\ txBuffer'[i].sdu = e.sdu /\ txBuffer'[i].seg = e.seg
    BY <2>1, <2>2, <2>3 DEF TxPdu
  <2> QED
    BY <2>4 DEF e
<1>3. txBuffer' \in [1..n -> TxPdu]
  BY <1>1, <1>2, Zenon DEF Age
<1>4. txBuffer' \in Seq(TxPdu) /\ Len(txBuffer') = n
  BY <1>1, <1>3, SeqDef, LenProperties
<1>5. Numbered'
  BY <1>1, <1>2, <1>4 DEF TxInv, Numbered, Age
<1>6. ReportPending'
  BY <1>1, <1>4, EmptySeq DEF TxInv, ReportPending, Age
<1> QED
  BY <1>5, <1>6 DEF TxInv

LEMMA TxInitially == TxInit => TxInv
  BY DEF TxInit, TxInv, Numbered, ReportPending

(* Every step keeps the numbering and the report, and frames its PDU. *)
LEMMA TxStepKeeps ==
    ASSUME TxInv, TxNext
    PROVE  TxInv' /\ FramedNow
<1>1. CASE \E n \in Sizes : Accept(n)
  BY <1>1, AcceptKeeps DEF FramedNow, Accept
<1>2. CASE \E n \in Sizes : DiscardLate(n) \/ DiscardFull(n)
  <2>1. /\ txBuffer' = txBuffer /\ sent' = sent /\ pdu' = <<>>
        /\ bsrTimer' = bsrTimer \/ bsrTimer' = (bsrTimer \/ txBuffer # <<>>)
    BY <1>2, Zenon DEF DiscardLate, DiscardFull
  <2> QED
    BY <2>1 DEF FramedNow, TxInv, Numbered, ReportPending
<1>3. CASE \E k \in DOMAIN txBuffer : Age(k)
  BY <1>3, AgeKeeps DEF FramedNow, Age
<1>4. ASSUME NEW bytes \in Opportunities, DoNotifyTxOpportunity(bytes)
      PROVE  TxInv' /\ FramedNow
  <2>1. Numbered' /\ FramedNow
    BY <1>4, OpportunityFrames DEF TxInv
  <2>2. ReportPending'
    BY <1>4 DEF DoNotifyTxOpportunity, ReportPending
  <2> QED
    BY <2>1, <2>2 DEF TxInv
<1>5. CASE \E bytes \in Opportunities : UnusedTxOpportunity(bytes)
  BY <1>5 DEF UnusedTxOpportunity, FramedNow, TxInv, Numbered, ReportPending
<1>6. CASE ExpireBsrTimer
  BY <1>6 DEF ExpireBsrTimer, FramedNow, TxInv, Numbered, ReportPending
<1> QED
  BY <1>1, <1>2, <1>3, <1>4, <1>5, <1>6 DEF TxNext, DoTransmitPdcpPdu

LEMMA TxStutterKeeps == TxInv /\ UNCHANGED txVars => TxInv'
  BY DEF TxInv, Numbered, ReportPending, txVars

THEOREM TxInvariance == TxSpec => []TxInv
<1>1. TxInv /\ [TxNext]_txVars => TxInv'
  BY TxStepKeeps, TxStutterKeeps
<1> QED
  BY TxInitially, <1>1, PTL DEF TxSpec

(* Data in the queue is never without a pending report, whatever MAC       *)
(* offers and however often the head is too late or the queue full.        *)
THEOREM AlwaysReports == TxSpec => []ReportPending
<1>1. TxInv => ReportPending
  BY DEF TxInv
<1> QED
  BY <1>1, TxInvariance, PTL

(* Every PDU continues where the one before it ended, so that the receiver *)
(* can join segments by sequence number alone.                             *)
THEOREM AlwaysFramed == TxSpec => Framed
<1>1. TxInv /\ TxNext => FramedNow
  BY TxStepKeeps
<1>2. TxInv /\ [TxNext]_txVars => [FramedNow]_txVars
  BY <1>1
<1> QED
  BY <1>2, TxInvariance, PTL DEF TxSpec, Framed, FramedNow

-----------------------------------------------------------------------------
(***************************************************************************)
(* Sums along the queue.  The set holds the numbers a fact is true of.     *)
(***************************************************************************)
LEMMA CountsUp ==
    ASSUME NEW S, 0 \in S, \A n \in Nat : n \in S => n + 1 \in S
    PROVE  Nat \subseteq S
<1> DEFINE Others == Nat \ S
<1>1. SUFFICES ASSUME Others # {} PROVE FALSE
  OBVIOUS
<1>2. PICK k \in Others : \A i \in Others : <<i, k>> \notin OpToRel(<, Nat)
  BY <1>1, WFMin, NatLessThanWellFounded, Zenon
<1>3. \A i \in Others : ~(i < k)
  BY <1>2, Zenon DEF OpToRel
<1>4. k \in Nat /\ k \notin S
  BY <1>2, Zenon
<1>5. k - 1 \in Nat /\ (k - 1) + 1 = k /\ k - 1 < k
  BY <1>4
<1>6. k - 1 \in S
  BY <1>3, <1>5
<1> QED
  BY <1>4, <1>5, <1>6

(* A function on b..n that starts with c and grows by d. *)
Grows(f, b, c, d, n) == f = [i \in b..n |-> IF i = b THEN c ELSE f[i - 1] + d[i]]

LEMMA GrowthExists ==
    ASSUME NEW b \in {0, 1}, NEW c, NEW d
    PROVE  \A n \in Nat : \E f : Grows(f, b, c, d, n)
<1> DEFINE S == {n \in Nat : \E f : Grows(f, b, c, d, n)}
<1>1. 0 \in S
  <2> DEFINE f == [i \in b..0 |-> c]
  <2>1. f = [i \in b..0 |-> IF i = b THEN c ELSE f[i - 1] + d[i]]
    OBVIOUS
  <2> QED
    BY <2>1, Zenon DEF Grows
<1>2. ASSUME NEW n \in Nat, n \in S
      PROVE  n + 1 \in S
  <2>1. PICK f : Grows(f, b, c, d, n)
    BY <1>2
  <2> DEFINE g == [i \in b..(n + 1) |->
                     IF i = n + 1 THEN (IF i = b THEN c ELSE f[n] + d[n + 1]) ELSE f[i]]
             e == [i \in b..(n + 1) |-> IF i = b THEN c ELSE g[i - 1] + d[i]]
  <2>2. \A i \in b..n : f[i] = IF i = b THEN c ELSE f[i - 1] + d[i]
    BY <2>1 DEF Grows
  <2>3. \A i \in b..n : g[i] = f[i]
    OBVIOUS
  <2>4. ASSUME NEW i \in b..(n + 1)
        PROVE  g[i] = e[i]
    <3>1. CASE i = n + 1 /\ i # b
      <4>1. i - 1 = n /\ n \in b..n
        BY <3>1
      <4>2. g[i - 1] = f[n]
        BY <2>3, <4>1
      <4> QED
        BY <3>1, <4>1, <4>2
    <3>2. CASE i = n + 1 /\ i = b
      BY <3>2
    <3>3. CASE i # n + 1
      <4>1. i \in b..n /\ (i # b => i - 1 \in b..n)
        BY <3>3
      <4>2. i # b => g[i - 1] = f[i - 1]
        BY <2>3, <4>1
      <4> HIDE DEF g
      <4> QED
        BY <2>2, <2>3, <4>1, <4>2
    <3> QED
      BY <3>1, <3>2, <3>3
  <2>5. g = e
    BY <2>4
  <2>6. Grows(g, b, c, d, n + 1)
    BY <2>5, Zenon DEF Grows
  <2> QED
    BY <2>6
<1> HIDE DEF S
<1>3. Nat \subseteq S
  BY <1>1, <1>2, CountsUp
<1> QED
  BY <1>3 DEF S

(* Entries and pieces have sizes. *)
HasSizes(buf) == Len(buf) \in Nat /\ \A i \in 1..Len(buf) : buf[i].size \in Nat

LEMMA UptoIs ==
    ASSUME NEW buf, HasSizes(buf)
    PROVE  /\ Upto(buf)[0] = 0
           /\ \A i \in 1..Len(buf) : Upto(buf)[i] = Upto(buf)[i - 1] + buf[i].size
           /\ \A i \in 0..Len(buf) : Upto(buf)[i] \in Nat
<1> DEFINE n == Len(buf)
           d == [i \in 1..n |-> buf[i].size]
           Is(f) == f = [i \in 0..n |-> IF i = 0 THEN 0 ELSE f[i - 1] + buf[i].size]
           u == Upto(buf)
<1>1. n \in Nat
  BY DEF HasSizes
<1>2. PICK f : Grows(f, 0, 0, d, n)
  BY <1>1, GrowthExists
<1>3. Is(f)
  <2>1. \A i \in 0..n : i # 0 => d[i] = buf[i].size
    OBVIOUS
  <2> HIDE DEF d, n
  <2>2. f = [i \in 0..n |-> IF i = 0 THEN 0 ELSE f[i - 1] + d[i]]
    BY <1>2 DEF Grows
  <2>3. [i \in 0..n |-> IF i = 0 THEN 0 ELSE f[i - 1] + d[i]]
          = [i \in 0..n |-> IF i = 0 THEN 0 ELSE f[i - 1] + buf[i].size]
    BY <2>1
  <2> QED
    BY <2>2, <2>3
<1>4. u = CHOOSE g : Is(g)
  BY Zenon DEF Upto
<1> HIDE DEF u
<1>5. Is(u)
  <2> HIDE DEF Is
  <2> QED
    BY <1>3, <1>4, Zenon
<1>6. u[0] = 0 /\ \A i \in 1..n : u[i] = u[i - 1] + buf[i].size
  BY <1>1, <1>5
<1>7. \A i \in 0..n : u[i] \in Nat
  <2> DEFINE S == {i \in Nat : i <= n => u[i] \in Nat}
  <2>1. 0 \in S
    BY <1>6
  <2>2. ASSUME NEW i \in Nat, i \in S
        PROVE  i + 1 \in S
    <3>1. i + 1 <= n => i <= n /\ i + 1 \in 1..n /\ (i + 1) - 1 = i
      BY <1>1
    <3>2. i + 1 <= n => buf[i + 1].size \in Nat
      BY <3>1 DEF HasSizes
    <3> QED
      BY <1>6, <2>2, <3>1, <3>2
  <2> HIDE DEF S
  <2>3. Nat \subseteq S
    BY <2>1, <2>2, CountsUp
  <2> QED
    BY <1>1, <2>3 DEF S
<1> QED
  BY <1>6, <1>7 DEF u

(* A stretch of one queue and a stretch of another, entry by entry of the  *)
(* same size, add the same.                                                *)
SameSizes(a, i, b, j, n) ==
    /\ HasSizes(a) /\ HasSizes(b)
    /\ i \in Nat /\ j \in Nat /\ n \in Nat
    /\ i + n <= Len(a) /\ j + n <= Len(b)
    /\ \A m \in 1..n : a[i + m].size = b[j + m].size

LEMMA SameStretch ==
    ASSUME NEW a, NEW b, NEW i, NEW j, NEW n, SameSizes(a, i, b, j, n)
    PROVE  Upto(a)[i + n] - Upto(a)[i] = Upto(b)[j + n] - Upto(b)[j]
<1> USE DEF SameSizes
<1> DEFINE S == {m \in Nat : m <= n =>
                   Upto(a)[i + m] - Upto(a)[i] = Upto(b)[j + m] - Upto(b)[j]}
<1>1. Len(a) \in Nat /\ Len(b) \in Nat
  BY DEF HasSizes
<1>2. /\ \A m \in 0..Len(a) : Upto(a)[m] \in Nat
      /\ \A m \in 0..Len(b) : Upto(b)[m] \in Nat
  BY UptoIs
<1>3. 0 \in S
  <2>1. i \in 0..Len(a) /\ j \in 0..Len(b) /\ i + 0 = i /\ j + 0 = j
    BY <1>1
  <2> QED
    BY <1>2, <2>1
<1>4. ASSUME NEW m \in Nat, m \in S
      PROVE  m + 1 \in S
  <2> SUFFICES ASSUME m + 1 <= n
               PROVE  Upto(a)[i + (m + 1)] - Upto(a)[i] = Upto(b)[j + (m + 1)] - Upto(b)[j]
    OBVIOUS
  <2>1. /\ i + (m + 1) \in 1..Len(a) /\ j + (m + 1) \in 1..Len(b)
        /\ (i + (m + 1)) - 1 = i + m /\ (j + (m + 1)) - 1 = j + m
        /\ i + m \in 0..Len(a) /\ j + m \in 0..Len(b)
        /\ i \in 0..Len(a) /\ j \in 0..Len(b)
        /\ m + 1 \in 1..n /\ m <= n
    BY <1>1
  <2>2. Upto(a)[i + (m + 1)] = Upto(a)[i + m] + a[i + (m + 1)].size
    BY <2>1, UptoIs
  <2>3. Upto(b)[j + (m + 1)] = Upto(b)[j + m] + b[j + (m + 1)].size
    BY <2>1, UptoIs
  <2>4. a[i + (m + 1)].size = b[j + (m + 1)].size /\ a[i + (m + 1)].size \in Nat
    BY <2>1 DEF HasSizes
  <2>5. Upto(a)[i + m] - Upto(a)[i] = Upto(b)[j + m] - Upto(b)[j]
    BY <1>4, <2>1
  <2>6. /\ Upto(a)[i + m] \in Nat /\ Upto(a)[i] \in Nat
        /\ Upto(b)[j + m] \in Nat /\ Upto(b)[j] \in Nat
    BY <1>2, <2>1
  <2> DEFINE u == Upto(a)[i + (m + 1)]
             v == Upto(b)[j + (m + 1)]
             u0 == Upto(a)[i + m]
             v0 == Upto(b)[j + m]
             ua == Upto(a)[i]
             vb == Upto(b)[j]
             size == a[i + (m + 1)].size
  <2>7. /\ u = u0 + size /\ v = v0 + size /\ size \in Nat
        /\ u0 - ua = v0 - vb
        /\ u0 \in Nat /\ v0 \in Nat /\ ua \in Nat /\ vb \in Nat
    BY <2>2, <2>3, <2>4, <2>5, <2>6
  <2> HIDE DEF u, v, u0, v0, ua, vb, size
  <2>8. u - ua = v - vb
    BY <2>7
  <2> QED
    BY <2>8 DEF u, v, ua, vb
<1> HIDE DEF S
<1>5. Nat \subseteq S
  BY <1>3, <1>4, CountsUp
<1> QED
  BY <1>5 DEF S

(* The room left at the i-th SDU is what the header and the SDUs before    *)
(* leave of the opportunity.                                               *)
LEMMA HeaderGrows ==
    ASSUME NEW i \in Nat \ {0}
    PROVE  /\ HeaderLength(i) \in Nat
           /\ HeaderLength(i + 1) = HeaderLength(i) + LiSize(i)
           /\ LiSize(i) \in {1, 2}
<1>1. LiSize(i) \in {1, 2}
  BY DEF LiSize
<1>2. CASE i % 2 = 1
  <2>1. PICK m \in Nat : i = 2 * m + 1
    BY <1>2
  <2>2. (3 * (i - 1) + 1) \div 2 = 3 * m
    BY <2>1
  <2>3. (3 * ((i + 1) - 1) + 1) \div 2 = 3 * m + 2
    BY <2>1
  <2> QED
    BY <1>1, <1>2, <2>1, <2>2, <2>3 DEF HeaderLength, LiSize
<1>3. CASE i % 2 # 1
  <2>1. PICK m \in Nat : i = 2 * m /\ m > 0
    BY <1>3
  <2>2. (3 * (i - 1) + 1) \div 2 = 3 * m - 1
    BY <2>1
  <2>3. (3 * ((i + 1) - 1) + 1) \div 2 = 3 * m
    BY <2>1
  <2> QED
    BY <1>1, <1>3, <2>1, <2>2, <2>3 DEF HeaderLength, LiSize
<1> QED
  BY <1>2, <1>3

LEMMA RoomIs ==
    ASSUME NEW buf, HasSizes(buf), NEW bytes \in Int
    PROVE  \A i \in 1..Len(buf) :
              Room(buf, bytes)[i] = bytes - HeaderLength(i) - Upto(buf)[i - 1]
<1> DEFINE n == Len(buf)
           d == [i \in 2..n |-> (0 - buf[i - 1].size) - LiSize(i - 1)]
           Is(f) == f = [i \in 1..n |-> IF i = 1 THEN bytes - 2
                                        ELSE f[i - 1] - buf[i - 1].size - LiSize(i - 1)]
           room == Room(buf, bytes)
<1>1. n \in Nat /\ \A i \in 1..n : buf[i].size \in Nat
  BY DEF HasSizes
<1>2. PICK f : Grows(f, 1, bytes - 2, d, n)
  BY <1>1, GrowthExists
<1>a. \A i \in 2..n : i - 1 \in 1..n /\ i - 1 \in Nat \ {0} /\ LiSize(i - 1) \in {1, 2}
  <2> TAKE i \in 2..n
  <2>1. i - 1 \in 1..n /\ i - 1 \in Nat \ {0}
    BY <1>1
  <2> QED
    BY <2>1, HeaderGrows
<1>3. Is(f)
  <2>1. f = [i \in 1..n |-> IF i = 1 THEN bytes - 2 ELSE f[i - 1] + d[i]]
    BY <1>2 DEF Grows
  <2>2. \A i \in 2..n : d[i] = (0 - buf[i - 1].size) - LiSize(i - 1)
    OBVIOUS
  <2> DEFINE S == {i \in Nat : i + 1 <= n => f[i + 1] \in Int}
  <2>3. 0 \in S
    BY <1>1, <2>1
  <2>4. ASSUME NEW i \in Nat, i \in S
        PROVE  i + 1 \in S
    <3> SUFFICES ASSUME i + 2 <= n PROVE f[i + 2] \in Int
      OBVIOUS
    <3>1. i + 2 \in 2..n /\ i + 2 \in 1..n /\ (i + 2) - 1 = i + 1 /\ i + 2 # 1
      BY <1>1
    <3> HIDE DEF d
    <3>2. f[i + 2] = f[i + 1] + d[i + 2]
      BY <2>1, <3>1
    <3>3. d[i + 2] \in Int
      BY <1>1, <1>a, <2>2, <3>1
    <3> QED
      BY <1>1, <2>4, <3>2, <3>3
  <2> HIDE DEF S
  <2>5. Nat \subseteq S
    BY <2>3, <2>4, CountsUp
  <2>6. \A i \in 1..n : f[i] \in Int
    <3> TAKE i \in 1..n
    <3>1. i - 1 \in S
      BY <1>1, <2>5
    <3> QED
      BY <1>1, <3>1 DEF S
  <2> HIDE DEF d
  <2>7. \A i \in 1..n : i # 1 =>
           /\ i \in 2..n /\ i - 1 \in 1..n
           /\ f[i - 1] + d[i] = f[i - 1] - buf[i - 1].size - LiSize(i - 1)
    BY <1>1, <1>a, <2>2, <2>6
  <2>8. [i \in 1..n |-> IF i = 1 THEN bytes - 2 ELSE f[i - 1] + d[i]]
          = [i \in 1..n |-> IF i = 1 THEN bytes - 2
                            ELSE f[i - 1] - buf[i - 1].size - LiSize(i - 1)]
    BY <2>7
  <2> QED
    BY <2>1, <2>8
<1>4. room = CHOOSE g : Is(g)
  BY Zenon DEF Room
<1> HIDE DEF room
<1>5. Is(room)
  <2> HIDE DEF Is
  <2> QED
    BY <1>3, <1>4, Zenon
<1>6. \A i \in 1..n : room[i] = IF i = 1 THEN bytes - 2
                                ELSE room[i - 1] - buf[i - 1].size - LiSize(i - 1)
  BY <1>5
<1>b. \A i \in 0..n : Upto(buf)[i] \in Nat
  BY UptoIs
<1> DEFINE T == {i \in Nat : i + 1 <= n =>
                   room[i + 1] = bytes - HeaderLength(i + 1) - Upto(buf)[i]}
<1>7. 0 \in T
  <2>1. HeaderLength(1) = 2 /\ Upto(buf)[0] = 0
    BY UptoIs DEF HeaderLength
  <2> QED
    BY <1>1, <1>6, <2>1
<1>8. ASSUME NEW i \in Nat, i \in T
      PROVE  i + 1 \in T
  <2> SUFFICES ASSUME i + 2 <= n
               PROVE  room[i + 2] = bytes - HeaderLength(i + 2) - Upto(buf)[i + 1]
    OBVIOUS
  <2>1. /\ i + 2 \in 1..n /\ (i + 2) - 1 = i + 1 /\ i + 1 \in 1..n /\ i \in 0..n
        /\ i + 1 \in 0..n /\ (i + 1) - 1 = i /\ i + 1 \in Nat \ {0} /\ (i + 1) + 1 = i + 2
        /\ i + 2 # 1
    BY <1>1
  <2>2. room[i + 2] = room[i + 1] - buf[i + 1].size - LiSize(i + 1)
    BY <1>6, <2>1
  <2>3. room[i + 1] = bytes - HeaderLength(i + 1) - Upto(buf)[i]
    BY <1>8, <1>1, <2>1
  <2>4. Upto(buf)[i + 1] = Upto(buf)[i] + buf[i + 1].size
    BY <2>1, UptoIs
  <2>5. /\ HeaderLength(i + 1) \in Nat /\ LiSize(i + 1) \in {1, 2}
        /\ HeaderLength(i + 2) = HeaderLength(i + 1) + LiSize(i + 1)
    BY <2>1, HeaderGrows
  <2>6. Upto(buf)[i] \in Nat /\ buf[i + 1].size \in Nat
    BY <1>1, <1>b, <2>1
  <2> QED
    BY <2>2, <2>3, <2>4, <2>5, <2>6
<1> HIDE DEF T
<1>9. Nat \subseteq T
  BY <1>7, <1>8, CountsUp
<1>10. ASSUME NEW i \in 1..n
       PROVE  room[i] = bytes - HeaderLength(i) - Upto(buf)[i - 1]
  <2>1. i - 1 \in Nat /\ (i - 1) + 1 = i /\ i <= n
    BY <1>1
  <2>2. i - 1 \in T
    BY <1>9, <2>1
  <2> QED
    BY <2>1, <2>2 DEF T
<1> QED
  BY <1>10 DEF room

-----------------------------------------------------------------------------
(* A transmission opportunity moves bytes from the queue to the PDU and    *)
(* neither drops nor invents one.                                          *)
LEMMA QueueHasSizes ==
    ASSUME NEW buf \in Seq(TxPdu)
    PROVE  HasSizes(buf)
<1>1. \A i \in 1..Len(buf) : buf[i] \in TxPdu
  BY ElementOfSeq, LenProperties
<1> QED
  BY <1>1, LenProperties DEF HasSizes, TxPdu

LEMMA PduHasSizes ==
    ASSUME NEW buf \in Seq(TxPiece)
    PROVE  HasSizes(buf)
<1>1. \A i \in 1..Len(buf) : buf[i] \in TxPiece
  BY ElementOfSeq, LenProperties
<1> QED
  BY <1>1, LenProperties DEF HasSizes, TxPiece

LEMMA BytesAre ==
    ASSUME NEW buf, HasSizes(buf)
    PROVE  Bytes(buf) \in Nat /\ Bytes(buf) = Upto(buf)[Len(buf)]
<1>1. Len(buf) \in 0..Len(buf)
  BY DEF HasSizes
<1> QED
  BY <1>1, UptoIs DEF Bytes

LEMMA PduBytes ==
    ASSUME NEW buf \in Seq(TxPdu), NEW k \in 1..Len(buf), NEW room
    PROVE  Bytes(TxPieces(buf, room, k)) =
              Upto(buf)[k - 1] + (IF Kept(buf, room, k) = 1 THEN room[k] ELSE buf[k].size)
<1> DEFINE p == TxPieces(buf, room, k)
           last == IF Kept(buf, room, k) = 1 THEN room[k] ELSE buf[k].size
<1>1. /\ p \in Seq(TxPiece) /\ Len(p) = k
      /\ \A i \in 1..k : p[i].size = IF i = k /\ Kept(buf, room, k) = 1 THEN room[k]
                                     ELSE buf[i].size
  BY PiecesAre
<1>2. HasSizes(p) /\ HasSizes(buf) /\ Len(buf) \in Nat
  BY <1>1, PduHasSizes, QueueHasSizes, LenProperties
<1> HIDE DEF p
<1>3. /\ k \in Nat /\ k - 1 \in Nat /\ 0 + (k - 1) = k - 1 /\ k \in 1..k
      /\ \A i \in 1..(k - 1) : i \in 1..k /\ i # k /\ 0 + i = i
      /\ k - 1 <= Len(p) /\ k - 1 <= Len(buf)
  BY <1>1, <1>2
<1>4. \A i \in 1..(k - 1) : p[0 + i].size = buf[0 + i].size
  BY <1>1, <1>3
<1>5. Upto(p)[k - 1] - Upto(p)[0] = Upto(buf)[k - 1] - Upto(buf)[0]
  <2>1. Upto(p)[0 + (k - 1)] - Upto(p)[0] = Upto(buf)[0 + (k - 1)] - Upto(buf)[0]
    <3>1. 0 \in Nat /\ k - 1 \in Nat /\ 0 + (k - 1) <= Len(p) /\ 0 + (k - 1) <= Len(buf)
      BY <1>3
    <3>2. SameSizes(p, 0, buf, 0, k - 1)
      BY <1>2, <1>4, <3>1 DEF SameSizes
    <3> QED
      BY <3>2, SameStretch
  <2> QED
    BY <1>3, <2>1
<1>6. Upto(p)[0] = 0 /\ Upto(buf)[0] = 0
  BY <1>2, UptoIs
<1>7. Upto(p)[k - 1] \in Nat /\ Upto(buf)[k - 1] \in Nat
  BY <1>1, <1>2, <1>3, UptoIs
<1>8. Upto(p)[k - 1] = Upto(buf)[k - 1]
  BY <1>5, <1>6, <1>7
<1>9. Upto(p)[k] = Upto(p)[k - 1] + p[k].size
  BY <1>1, <1>2, <1>3, UptoIs
<1>10. p[k].size = last
  BY <1>1, <1>3
<1> QED
  BY <1>1, <1>8, <1>9, <1>10 DEF Bytes, p

LEMMA RestBytes ==
    ASSUME NEW buf \in Seq(TxPdu), NEW k \in 1..Len(buf), NEW room
    PROVE  Bytes(Rest(buf, room, k)) =
              (Bytes(buf) - Upto(buf)[k])
              + (IF Kept(buf, room, k) = 1 THEN buf[k].size - room[k] ELSE 0)
<1> DEFINE r == Rest(buf, room, k)
           kept == Kept(buf, room, k)
           n == Len(buf)
<1>1. /\ r \in Seq(TxPdu) /\ Len(r) = n - k + kept
      /\ \A i \in 1..Len(r) :
            r[i].size = IF i = 1 /\ kept = 1 THEN buf[k].size - room[k] ELSE buf[k + i - kept].size
  BY RestIs
<1>2. /\ HasSizes(r) /\ HasSizes(buf) /\ n \in Nat /\ kept \in {0, 1}
  BY <1>1, QueueHasSizes, LenProperties DEF Kept
<1> HIDE DEF r, kept
<1>3. /\ n - k \in Nat /\ kept \in Nat /\ k \in Nat
      /\ kept + (n - k) = Len(r) /\ k + (n - k) = n
      /\ \A m \in 1..(n - k) : /\ kept + m \in 1..Len(r)
                               /\ ~(kept + m = 1 /\ kept = 1)
                               /\ k + (kept + m) - kept = k + m
  BY <1>1, <1>2
<1>4. \A m \in 1..(n - k) : r[kept + m].size = buf[k + m].size
  BY <1>1, <1>3
<1>5. Upto(r)[Len(r)] - Upto(r)[kept] = Upto(buf)[n] - Upto(buf)[k]
  <2>1. kept + (n - k) <= Len(r) /\ k + (n - k) <= n
    BY <1>1, <1>2
  <2>2. Upto(r)[kept + (n - k)] - Upto(r)[kept] = Upto(buf)[k + (n - k)] - Upto(buf)[k]
    <3>1. kept \in Nat /\ k \in Nat /\ n - k \in Nat
      BY <1>3
    <3>2. SameSizes(r, kept, buf, k, n - k)
      BY <1>2, <1>4, <2>1, <3>1 DEF SameSizes
    <3> QED
      BY <3>2, SameStretch
  <2> QED
    BY <1>3, <2>2
<1>6. Upto(r)[kept] = IF kept = 1 THEN buf[k].size - room[k] ELSE 0
  <2>1. CASE kept = 0
    BY <1>2, <2>1, UptoIs
  <2>2. CASE kept = 1
    <3>1. 1 \in 1..Len(r) /\ 1 - 1 = 0
      BY <1>1, <1>2, <2>2
    <3>2. Upto(r)[1] = Upto(r)[0] + r[1].size /\ Upto(r)[0] = 0
      BY <1>2, <3>1, UptoIs
    <3>3. r[1].size \in Nat /\ r[1].size = buf[k].size - room[k]
      BY <1>1, <1>2, <2>2, <3>1 DEF HasSizes
    <3> QED
      BY <2>2, <3>2, <3>3
  <2> QED
    BY <1>2, <2>1, <2>2
<1>7. /\ Upto(r)[Len(r)] \in Nat /\ Upto(r)[kept] \in Nat
      /\ Upto(buf)[n] \in Nat /\ Upto(buf)[k] \in Nat
  <2>1. Len(r) \in 0..Len(r) /\ kept \in 0..Len(r) /\ n \in 0..n /\ k \in 0..n
    BY <1>1, <1>2, <1>3
  <2> QED
    BY <1>2, <2>1, UptoIs
<1> DEFINE ur == Upto(r)[Len(r)]
           rk == Upto(r)[kept]
           un == Upto(buf)[n]
           uk == Upto(buf)[k]
<1>8. ur - rk = un - uk /\ ur \in Nat /\ rk \in Nat /\ un \in Nat /\ uk \in Nat
  BY <1>5, <1>7
<1> HIDE DEF ur, rk, un, uk
<1>9. ur = (un - uk) + rk
  BY <1>8
<1> QED
  BY <1>6, <1>9 DEF Bytes, r, kept, ur, rk, un, uk

LEMMA BytesMove ==
    ASSUME NEW buf \in Seq(TxPdu), NEW k \in 1..Len(buf), NEW room
    PROVE  Bytes(TxPieces(buf, room, k)) + Bytes(Rest(buf, room, k)) = Bytes(buf)
<1> DEFINE before == Upto(buf)[k - 1]
           after == Upto(buf)[k]
           size == buf[k].size
           part == room[k]
           all == Bytes(buf)
<1>1. HasSizes(buf) /\ Len(buf) \in Nat
  BY QueueHasSizes, LenProperties
<1>2. after = before + size
  BY <1>1, UptoIs
<1>3. all \in Nat /\ before \in Nat /\ size \in Nat
  <2>1. k - 1 \in 0..Len(buf)
    BY <1>1
  <2> QED
    BY <1>1, <2>1, BytesAre, UptoIs DEF HasSizes
<1>4. Kept(buf, room, k) = 1 => part \in Int
  BY <1>1, <1>3 DEF Kept, IsCut
<1>5. Kept(buf, room, k) \in {0, 1}
  BY DEF Kept
<1>6. Bytes(TxPieces(buf, room, k)) =
         before + (IF Kept(buf, room, k) = 1 THEN part ELSE size)
  BY PduBytes
<1>7. Bytes(Rest(buf, room, k)) =
         (all - after) + (IF Kept(buf, room, k) = 1 THEN size - part ELSE 0)
  BY RestBytes
<1> HIDE DEF before, after, size, part, all
<1>8. CASE Kept(buf, room, k) = 1
  <2>1. /\ Bytes(TxPieces(buf, room, k)) = before + part
        /\ Bytes(Rest(buf, room, k)) = (all - after) + (size - part)
    BY <1>6, <1>7, <1>8
  <2> QED
    BY <1>2, <1>3, <1>4, <1>8, <2>1 DEF all
<1>9. CASE Kept(buf, room, k) = 0
  <2>1. /\ Bytes(TxPieces(buf, room, k)) = before + size
        /\ Bytes(Rest(buf, room, k)) = (all - after) + 0
    BY <1>6, <1>7, <1>9
  <2> QED
    BY <1>2, <1>3, <1>9, <2>1 DEF all
<1> QED
  BY <1>5, <1>8, <1>9

(* The PDU with its header is as long as the opportunity at most.          *)
LEMMA PduFits ==
    ASSUME NEW buf \in Seq(TxPdu), buf # <<>>, NEW bytes \in Nat, bytes > 2
    PROVE  LET room == Room(buf, bytes)
               k == LastTaken(buf, room)
           IN  HeaderLength(k) + Bytes(TxPieces(buf, room, k)) <= bytes
<1> DEFINE room == Room(buf, bytes)
           k == LastTaken(buf, room)
           before == Upto(buf)[k - 1]
           size == buf[k].size
<1>1. HasSizes(buf) /\ Len(buf) \in Nat
  BY QueueHasSizes, LenProperties
<1>2. \A i \in 1..Len(buf) : room[i] = bytes - HeaderLength(i) - Upto(buf)[i - 1]
  BY <1>1, RoomIs
<1>3. k \in 1..Len(buf) /\ \A i \in 1..(k - 1) : GoesOn(buf, room, i)
  BY LoopEnds
<1> HIDE DEF room, k
<1>4. k \in Nat \ {0} /\ k - 1 \in 0..Len(buf)
  BY <1>1, <1>3
<1>5. HeaderLength(k) \in Nat /\ before \in Nat /\ size \in Nat
  BY <1>1, <1>3, <1>4, HeaderGrows, UptoIs DEF HasSizes
<1>6. room[k] = bytes - HeaderLength(k) - before
  BY <1>2, <1>3
<1>7. room[k] > 0
  <2>1. CASE k = 1
    <3>1. Upto(buf)[0] = 0 /\ HeaderLength(1) = 2 /\ 1 - 1 = 0
      BY <1>1, UptoIs DEF HeaderLength
    <3> QED
      BY <1>6, <2>1, <3>1
  <2>2. CASE k # 1
    <3> DEFINE j == k - 1
    <3>1. /\ j \in 1..(k - 1) /\ j \in 1..Len(buf) /\ j \in Nat \ {0} /\ j + 1 = k
          /\ j - 1 \in 0..Len(buf)
      BY <1>1, <1>3, <1>4, <2>2
    <3>2. room[j] - buf[j].size > 2
      BY <1>3, <3>1 DEF GoesOn
    <3>3. room[j] = bytes - HeaderLength(j) - Upto(buf)[j - 1]
      BY <1>2, <3>1
    <3>4. before = Upto(buf)[j - 1] + buf[j].size
      BY <1>1, <3>1, UptoIs
    <3>5. /\ HeaderLength(k) = HeaderLength(j) + LiSize(j) /\ LiSize(j) \in {1, 2}
          /\ HeaderLength(j) \in Nat
      BY <3>1, HeaderGrows
    <3>6. Upto(buf)[j - 1] \in Nat /\ buf[j].size \in Nat
      BY <1>1, <3>1, UptoIs DEF HasSizes
    <3> HIDE DEF before, j
    <3> QED
      BY <1>6, <3>2, <3>3, <3>4, <3>5, <3>6
  <2> QED
    BY <2>1, <2>2
<1>8. Bytes(TxPieces(buf, room, k)) =
         before + (IF Kept(buf, room, k) = 1 THEN room[k] ELSE size)
  BY <1>3, PduBytes
<1>9. Kept(buf, room, k) # 1 => size <= room[k]
  <2>1. Kept(buf, room, k) # 1 => room[k] \notin 1..(size - 1)
    BY DEF Kept, IsCut
  <2> HIDE DEF before, size
  <2> QED
    BY <1>5, <1>6, <1>7, <2>1
<1> HIDE DEF before, size
<1>10. HeaderLength(k) + Bytes(TxPieces(buf, room, k)) <= bytes
  BY <1>5, <1>6, <1>8, <1>9
<1> QED
  BY <1>10 DEF room, k

-----------------------------------------------------------------------------
(* The byte count is that of the queue. *)
Counted == TxTypeOK /\ SizeMatches

LEMMA CountedInitially == TxInit => Counted
<1>1. TxInit => HasSizes(txBuffer) /\ Len(txBuffer) = 0
  BY DEF TxInit, HasSizes
<1>2. TxInit => Bytes(txBuffer) = 0
  BY <1>1, UptoIs DEF Bytes
<1>3. TxInit => TxTypeOK
  <2>1. <<>> \in Seq(TxPdu) /\ <<>> \in Seq(TxPiece)
    OBVIOUS
  <2>2. 0 \in Nat /\ FALSE \in BOOLEAN
    OBVIOUS
  <2> QED
    BY <2>1, <2>2, Zenon DEF TxInit, TxTypeOK
<1> QED
  BY <1>2, <1>3 DEF TxInit, Counted, SizeMatches

(* Queues whose entries have the same sizes have the same bytes. *)
LEMMA SameBytes ==
    ASSUME NEW a, NEW b, HasSizes(a), HasSizes(b), Len(a) = Len(b),
           \A i \in 1..Len(a) : a[i].size = b[i].size
    PROVE  Bytes(a) = Bytes(b)
<1> DEFINE n == Len(a)
           ua == Upto(a)[n]
           ub == Upto(b)[n]
<1>1. n \in Nat /\ n \in 0..n /\ 0 + n = n /\ n <= Len(a) /\ n <= Len(b)
  BY DEF HasSizes
<1>2. \A m \in 1..n : 0 + m = m
  BY <1>1
<1>3. SameSizes(a, 0, b, 0, n)
  BY <1>1, <1>2 DEF SameSizes
<1>4. Upto(a)[0 + n] - Upto(a)[0] = Upto(b)[0 + n] - Upto(b)[0]
  BY <1>3, SameStretch
<1>5. Upto(a)[0] = 0 /\ Upto(b)[0] = 0 /\ ua \in Nat /\ ub \in Nat
  BY <1>1, UptoIs
<1>6. ua = ub
  BY <1>1, <1>4, <1>5
<1> QED
  BY <1>6 DEF Bytes

LEMMA AcceptCounts ==
    ASSUME TxInv, Counted, NEW n \in Sizes, Accept(n)
    PROVE  Counted'
<1> DEFINE e == [sdu |-> sent + 1, size |-> n, seg |-> 1, late |-> FALSE,
                 hol |-> IF txBuffer = <<>> THEN 1 ELSE 0]
           buf == Append(txBuffer, e)
           l == Len(txBuffer)
<1>1. /\ txBuffer' = buf /\ txBufferSize' = txBufferSize + n /\ sent' = sent + 1
      /\ bsrTimer' = TRUE /\ pdu' = <<>>
      /\ known' = QueueSize(txBuffer', txBufferSize')
  BY DEF Accept
<1>2. /\ txBuffer \in Seq(TxPdu) /\ sent \in Nat /\ l \in Nat /\ txBufferSize \in Nat
      /\ txBufferSize = Bytes(txBuffer) /\ n \in Nat
  BY LenProperties, SizeAssumption DEF Counted, TxTypeOK, SizeMatches
<1>3. e \in TxPdu /\ e.size = n
  BY <1>2, SizeAssumption DEF TxPdu
<1> HIDE DEF e
<1>4. /\ buf \in Seq(TxPdu) /\ Len(buf) = l + 1
      /\ \A i \in 1..l : buf[i] = txBuffer[i]
      /\ buf[l + 1] = e
  BY <1>2, <1>3, AppendProperties
<1>5. HasSizes(txBuffer) /\ HasSizes(buf)
  BY <1>2, <1>4, QueueHasSizes
<1> HIDE DEF buf
<1>6. Upto(buf)[l] = Upto(txBuffer)[l]
  <2>1. /\ 0 + l = l /\ l <= Len(buf) /\ l <= Len(txBuffer) /\ l \in 0..Len(buf)
        /\ l \in 0..Len(txBuffer)
        /\ \A m \in 1..l : 0 + m = m
    BY <1>2, <1>4
  <2>2. SameSizes(buf, 0, txBuffer, 0, l)
    BY <1>2, <1>4, <1>5, <2>1 DEF SameSizes
  <2>3. Upto(buf)[0 + l] - Upto(buf)[0] = Upto(txBuffer)[0 + l] - Upto(txBuffer)[0]
    BY <2>2, SameStretch
  <2>4. /\ Upto(buf)[0] = 0 /\ Upto(txBuffer)[0] = 0
        /\ Upto(buf)[l] \in Nat /\ Upto(txBuffer)[l] \in Nat
    BY <1>5, <2>1, UptoIs
  <2> QED
    BY <2>1, <2>3, <2>4
<1>7. Upto(buf)[l + 1] = Upto(buf)[l] + buf[l + 1].size
  <2>1. l + 1 \in 1..Len(buf) /\ (l + 1) - 1 = l
    BY <1>2, <1>4
  <2> QED
    BY <1>5, <2>1, UptoIs
<1>8. Bytes(buf) = Bytes(txBuffer) + n
  BY <1>3, <1>4, <1>6, <1>7 DEF Bytes
<1>9. txBufferSize' \in Nat /\ txBufferSize' = Bytes(txBuffer')
  BY <1>1, <1>2, <1>8
<1>10. known' \in Nat
  BY <1>1, <1>4, <1>2, <1>9 DEF QueueSize
<1> QED
  BY <1>1, <1>2, <1>4, <1>9, <1>10 DEF Counted, TxTypeOK, SizeMatches

LEMMA AgeCounts ==
    ASSUME TxInv, Counted, NEW k \in DOMAIN txBuffer, Age(k)
    PROVE  Counted'
<1> DEFINE n == Len(txBuffer)
<1>1. txBuffer \in Seq(TxPdu) /\ txBuffer' \in Seq(TxPdu)
  <2>1. TxInv'
    BY AgeKeeps
  <2> QED
    BY <2>1 DEF TxInv, Numbered
<1>2. HasSizes(txBuffer) /\ HasSizes(txBuffer') /\ n \in Nat /\ DOMAIN txBuffer = 1..n
  BY <1>1, QueueHasSizes, LenProperties
<1>3. txBuffer' = [i \in 1..n |-> [txBuffer[i] EXCEPT !.late = @ \/ i <= k]]
  BY <1>2 DEF Age
<1>4. Len(txBuffer') = n
  BY <1>1, <1>2, <1>3, LenProperties
<1>5. \A i \in 1..n : txBuffer'[i].size = txBuffer[i].size
  <2> TAKE i \in 1..n
  <2> DEFINE e == txBuffer[i]
             late == e.late \/ i <= k
  <2>1. e \in TxPdu
    BY <1>1, <1>2, ElementOfSeq
  <2>2. txBuffer'[i] = [e EXCEPT !.late = late]
    BY <1>3
  <2> HIDE DEF e, late
  <2>3. txBuffer'[i].size = e.size
    BY <2>1, <2>2 DEF TxPdu
  <2> QED
    BY <2>3 DEF e
<1>6. Bytes(txBuffer') = Bytes(txBuffer)
  BY <1>2, <1>4, <1>5, SameBytes
<1> QED
  BY <1>1, <1>6 DEF Counted, TxTypeOK, SizeMatches, Age

LEMMA OpportunityCounts ==
    ASSUME TxInv, Counted, NEW bytes \in Opportunities, DoNotifyTxOpportunity(bytes)
    PROVE  Counted'
<1> DEFINE room == Room(txBuffer, bytes)
           k == LastTaken(txBuffer, room)
<1>1. /\ txBuffer # <<>> /\ pdu' = TxPieces(txBuffer, room, k)
      /\ txBuffer' = Rest(txBuffer, room, k) /\ sent' = sent
      /\ txBufferSize' = txBufferSize - Bytes(pdu')
      /\ bsrTimer' = (bsrTimer \/ txBuffer' # <<>>)
      /\ Offered(bytes)
  BY DEF DoNotifyTxOpportunity, Transmits, SizeAfter
<1>2. /\ txBuffer \in Seq(TxPdu) /\ txBufferSize = Bytes(txBuffer)
      /\ known \in Nat /\ sent \in Nat /\ bsrTimer \in BOOLEAN
  BY DEF Counted, TxTypeOK, SizeMatches
<1>3. txBuffer' \in Seq(TxPdu) /\ pdu' \in Seq(TxPiece)
  BY OpportunityFrames DEF TxInv, Numbered
<1> HIDE DEF room
<1>4. k \in 1..Len(txBuffer)
  BY <1>1, <1>2, LoopEnds
<1> HIDE DEF k
<1>5. Bytes(pdu') + Bytes(txBuffer') = Bytes(txBuffer)
  BY <1>1, <1>2, <1>4, BytesMove
<1>6. Bytes(pdu') \in Nat /\ Bytes(txBuffer') \in Nat /\ Bytes(txBuffer) \in Nat
  BY <1>2, <1>3, QueueHasSizes, PduHasSizes, BytesAre
<1>7. txBufferSize' \in Nat /\ txBufferSize' = Bytes(txBuffer')
  BY <1>1, <1>2, <1>5, <1>6
<1>8. known' \in Nat
  BY <1>1, <1>2, SizeAssumption DEF Offered
<1> QED
  BY <1>1, <1>2, <1>3, <1>7, <1>8 DEF Counted, TxTypeOK, SizeMatches

(* The other events leave queue and count alone and may report it. *)
LEMMA ReportCounts ==
    ASSUME Counted, UNCHANGED <<txBuffer, txBufferSize, sent>>, pdu' = <<>>,
           bsrTimer' \in BOOLEAN, known' \in Nat
    PROVE  Counted'
  BY DEF Counted, TxTypeOK, SizeMatches

LEMMA QueueSizeIs ==
    ASSUME Counted
    PROVE  QueueSize(txBuffer, txBufferSize) \in Nat
  BY LenProperties DEF Counted, TxTypeOK, QueueSize

LEMMA StepCounts ==
    ASSUME TxInv, Counted, [TxNext]_txVars
    PROVE  Counted'
<1>a. bsrTimer \in BOOLEAN /\ known \in Nat
  BY DEF Counted, TxTypeOK
<1>b. (bsrTimer \/ txBuffer # <<>>) \in BOOLEAN /\ FALSE \in BOOLEAN
  OBVIOUS
<1>1. CASE \E n \in Sizes : Accept(n)
  BY <1>1, AcceptCounts
<1>2. CASE \E n \in Sizes : DiscardLate(n)
  BY <1>2, <1>a, ReportCounts DEF DiscardLate
<1>3. CASE \E n \in Sizes : DiscardFull(n)
  BY <1>3, <1>b, QueueSizeIs, ReportCounts DEF DiscardFull
<1>4. CASE \E k \in DOMAIN txBuffer : Age(k)
  BY <1>4, AgeCounts
<1>5. CASE \E bytes \in Opportunities : DoNotifyTxOpportunity(bytes)
  BY <1>5, OpportunityCounts
<1>6. ASSUME NEW bytes \in Opportunities, UnusedTxOpportunity(bytes)
      PROVE  Counted'
  <2>1. known' \in Nat
    BY <1>6, <1>a, SizeAssumption DEF UnusedTxOpportunity, Offered
  <2> QED
    BY <1>6, <1>a, <2>1, ReportCounts DEF UnusedTxOpportunity
<1>7. CASE ExpireBsrTimer
  <2>1. known' \in Nat /\ bsrTimer' \in BOOLEAN
    BY <1>7, <1>a, <1>b, QueueSizeIs DEF ExpireBsrTimer
  <2> QED
    BY <1>7, <2>1, ReportCounts DEF ExpireBsrTimer
<1>8. CASE UNCHANGED txVars
  BY <1>8 DEF Counted, TxTypeOK, SizeMatches, txVars
<1> QED
  BY <1>1, <1>2, <1>3, <1>4, <1>5, <1>6, <1>7, <1>8 DEF TxNext, DoTransmitPdcpPdu

(* After every event the byte count, by which SDUs are discarded and       *)
(* reports made, is that of the queue; no subtraction from it wraps; and a *)
(* report is pending while the queue holds data.                           *)
THEOREM QueueHolds == TxSpec => []QueueInv
<1>1. TxInv /\ Counted /\ [TxNext]_txVars => Counted'
  BY StepCounts
<1>2. TxInv /\ Counted => QueueInv
  BY DEF TxInv, Counted, QueueInv
<1> QED
  BY <1>1, <1>2, CountedInitially, TxInvariance, PTL DEF TxSpec

(* No PDU with its header is longer than the opportunity MAC gave, for any *)
(* number of SDUs in it.                                                   *)
THEOREM AlwaysFits == TxSpec => FitsOpportunity
<1> DEFINE PduFitsNow ==
       \A bytes \in Opportunities :
          DoNotifyTxOpportunity(bytes) => HeaderLength(Len(pdu')) + Bytes(pdu') <= bytes
<1>1. ASSUME TxInv, NEW bytes \in Opportunities, DoNotifyTxOpportunity(bytes)
      PROVE  HeaderLength(Len(pdu')) + Bytes(pdu') <= bytes
  <2> DEFINE room == Room(txBuffer, bytes)
             k == LastTaken(txBuffer, room)
  <2>1. /\ bytes \in Nat /\ bytes > 2 /\ txBuffer # <<>> /\ txBuffer \in Seq(TxPdu)
        /\ pdu' = TxPieces(txBuffer, room, k)
    BY <1>1, SizeAssumption DEF DoNotifyTxOpportunity, Transmits, TxInv, Numbered
  <2>2. HeaderLength(k) + Bytes(TxPieces(txBuffer, room, k)) <= bytes
    BY <2>1, PduFits
  <2>3. k \in 1..Len(txBuffer)
    BY <2>1, LoopEnds
  <2> HIDE DEF room, k
  <2>4. Len(TxPieces(txBuffer, room, k)) = k
    BY <2>1, <2>3, PiecesAre
  <2> QED
    BY <2>1, <2>2, <2>4
<1>2. TxInv /\ [TxNext]_txVars => [PduFitsNow]_txVars
  BY <1>1
<1> QED
  BY <1>2, TxInvariance, PTL DEF TxSpec, FitsOpportunity

-----------------------------------------------------------------------------
(* The receiver. *)

(* What two t-Reorderings and a run of losses build fits the window. *)
Timely == Lag < W /\ Gap + 2 * MaxRun <= W /\ Gap + W < M

(* PDUs that may still reach the reassembler. *)
Held == {rxBuffer[sn] : sn \in DOMAIN rxBuffer}
Pdus == air \cup Held

(* Where a PDU starts, and where the next one has to. *)
Start(p) == [sdu |-> p.pieces[1].sdu, seg |-> p.pieces[1].seg]
After(p) ==
    IF Last(p.pieces).last THEN [sdu |-> Last(p.pieces).sdu + 1, seg |-> 1]
    ELSE [sdu |-> Last(p.pieces).sdu, seg |-> Last(p.pieces).seg + 1]

(* Only its first SDU may have begun before a PDU, only its last one may   *)
(* go on after it.                                                         *)
FramedPdu(p) ==
    /\ p.pieces # <<>>
    /\ \A i \in 1..Len(p.pieces) :
          /\ p.pieces[i].sdu = p.pieces[1].sdu + i - 1
          /\ i > 1 => p.pieces[i].seg = 1
          /\ i < Len(p.pieces) => p.pieces[i].last

(* The PDUs of Q continue one another, the last one up to c. *)
Stream(Q, nx, c) ==
    /\ \A p \in Q :
          /\ p \in Pdu /\ p.n < nx /\ FramedPdu(p)
          /\ After(p).sdu <= c.sdu
          /\ p.n + 1 = nx => After(p) = c
    /\ \A p, q \in Q :
          /\ p.n = q.n => p = q
          /\ p.n < q.n => After(p).sdu <= Start(q).sdu
          /\ q.n = p.n + 1 => Start(q) = After(p)

(* The first segments of an SDU. *)
Fragment(s) ==
    /\ s \in Seq(Piece) /\ s # <<>>
    /\ \A i \in 1..Len(s) : s[i].sdu = s[1].sdu /\ s[i].seg = i
    /\ \A i \in 1..(Len(s) - 1) : ~s[i].last

(* Whole SDUs in the order they were sent, after SDU t; the last of them. *)
Handed(sdus, t) ==
    \A i \in 1..Len(sdus) :
        /\ Fragment(sdus[i]) /\ Last(sdus[i]).last
        /\ sdus[i][1].sdu > (IF i = 1 THEN t ELSE sdus[i - 1][1].sdu)
LastOf(sdus, t) == IF sdus = <<>> THEN t ELSE Last(sdus)[1].sdu

(* What is kept is continued by the PDU number e. *)
Continued(keep, e, Q, nx, c) ==
    LET next1 == [sdu |-> keep[1].sdu, seg |-> Len(keep) + 1] IN
    /\ \A q \in Q : q.n = e => Start(q) = next1
    /\ e = nx => c = next1

ReassemblerType == [expected : SNs, state : {"WAITING_S0_FULL", "WAITING_SI_SF"},
                    keep : Seq(Piece), sdus : {<<>>}, up : Seq(Seq(Piece))]

(* The reassembler has gone through the PDUs below number e. *)
Reaches(r, e, t, Q, nx, c) ==
    /\ r \in ReassemblerType
    /\ r.expected = e % M
    /\ r.state = "WAITING_SI_SF" <=> r.keep # <<>>
    /\ r.keep # <<>> =>
          /\ Fragment(r.keep) /\ ~Last(r.keep).last
          /\ LastOf(r.up, t) < r.keep[1].sdu
          /\ Continued(r.keep, e, Q, nx, c)
    /\ LastOf(r.up, t) \in Nat /\ LastOf(r.up, t) < c.sdu
    /\ \A q \in Q : q.n >= e => LastOf(r.up, t) < Start(q).sdu
    /\ Handed(r.up, t)

(* u and x are the PDUs VR(UR) and VR(UX) stand for. *)
Windowed(u, x) ==
    /\ vrUh = heard % M /\ vrUr = u % M
    /\ next <= heard + Gap
    /\ \A p \in air : next <= p.n + Lag + 1
    /\ \A p \in Held : u <= p.n /\ p.n < heard
    /\ u < heard => timer /\ \E p \in Held : p.n = heard - 1
    /\ timer => /\ vrUx = x % M /\ u < x /\ x <= heard
                /\ \E p \in Held : p.n = x - 1
                /\ next - run <= x + Gap
                /\ next + MaxRun - run <= u + W

IInv ==
    /\ TypeOK /\ Handed(up, top)
    /\ Stream(Pdus, next, cur)
    /\ \E u, x \in 0..heard :
          Windowed(u, x) /\ Reaches(Reassembler, u, LastOf(up, top), Pdus, next, cur)

-----------------------------------------------------------------------------
(* Sequence numbers. *)

LEMMA Divides ==
    ASSUME NEW n \in Int
    PROVE  n % M \in 0..(M - 1) /\ \E q \in Int : n = M * q + (n % M)
<1>1. n \div M \in Int
  BY SnAssumption, SMT
<1>2. n = M * (n \div M) + (n % M)
  BY SnAssumption, SMT
<1>3. n % M \in 0..(M - 1)
  BY SnAssumption, SMT
<1> QED
  BY <1>1, <1>2, <1>3, Zenon

LEMMA Multiples ==
    ASSUME NEW d \in Int
    PROVE  /\ d >= 1 => M * d >= M
           /\ \A e \in Int : M * (d - e) = M * d - M * e /\ M * (d + e) = M * d + M * e
<1>1. ASSUME d >= 1 PROVE M * d >= M
  BY <1>1, SnAssumption, SMT
<1>2. ASSUME NEW e \in Int PROVE M * (d - e) = M * d - M * e
  BY SnAssumption, SMT
<1>3. ASSUME NEW e \in Int PROVE M * (d + e) = M * d + M * e
  BY SnAssumption, SMT
<1> QED
  BY <1>1, <1>2, <1>3

LEMMA Remainder ==
    ASSUME NEW p \in Int, NEW q \in Int, NEW r \in 0..(M - 1), NEW s \in 0..(M - 1),
           M * p + r = M * q + s
    PROVE  p = q /\ r = s
<1> DEFINE mp == M * p
           mq == M * q
<1>1. M \in Nat \ {0}
  BY SnAssumption
<1>2. mp \in Int /\ mq \in Int /\ mp + r = mq + s
  BY <1>1
<1>3. M * (p - q) = mp - mq /\ M * (q - p) = mq - mp
  BY Multiples
<1>4. p - q \in Int /\ q - p \in Int
  OBVIOUS
<1>5. ~(p - q >= 1)
  <2> SUFFICES ASSUME p - q >= 1 PROVE FALSE
    OBVIOUS
  <2>1. M * (p - q) >= M
    BY <1>4, Multiples
  <2> HIDE DEF mp, mq
  <2> QED
    BY <1>1, <1>2, <1>3, <2>1
<1>6. ~(q - p >= 1)
  <2> SUFFICES ASSUME q - p >= 1 PROVE FALSE
    OBVIOUS
  <2>1. M * (q - p) >= M
    BY <1>4, Multiples
  <2> HIDE DEF mp, mq
  <2> QED
    BY <1>1, <1>2, <1>3, <2>1
<1>7. p = q
  BY <1>5, <1>6
<1>8. mp = mq
  BY <1>7
<1> HIDE DEF mp, mq
<1> QED
  BY <1>1, <1>2, <1>7, <1>8

(* Adding a remainder is adding the number. *)
LEMMA ModOfSum ==
    ASSUME NEW n \in Int, NEW k \in Int
    PROVE  ((n % M) + k) % M = (n + k) % M /\ (k - (n % M)) % M = (k - n) % M
<1>1. PICK q \in Int : n = M * q + (n % M)
  BY Divides
<1> DEFINE r == n % M
           mq == M * q
<1>2. r \in Int /\ mq \in Int /\ n = mq + r
  BY <1>1, Divides, SnAssumption
<1>3. (r + k) % M = (n + k) % M
  <2>1. PICK u \in Int : r + k = M * u + ((r + k) % M)
    BY <1>2, Divides
  <2>2. PICK v \in Int : n + k = M * v + ((n + k) % M)
    BY <1>2, Divides
  <2>3. M * (q + u) = mq + M * u
    BY Multiples
  <2>4. (r + k) % M \in 0..(M - 1) /\ (n + k) % M \in 0..(M - 1)
    BY <1>2, Divides
  <2>5. M * (q + u) + ((r + k) % M) = M * v + ((n + k) % M)
    <3> DEFINE a == (r + k) % M
               b == (n + k) % M
               mu == M * u
               mv == M * v
               mqu == M * (q + u)
    <3>1. mu \in Int /\ mv \in Int /\ mqu \in Int /\ a \in Int /\ b \in Int
      BY <2>4, SnAssumption
    <3>2. r + k = mu + a /\ n + k = mv + b /\ mqu = mq + mu
      BY <2>1, <2>2, <2>3
    <3> HIDE DEF mq, r, a, b, mu, mv, mqu
    <3>3. mqu + a = mv + b
      BY <1>2, <3>1, <3>2
    <3> QED
      BY <3>3 DEF a, b, mv, mqu
  <2>6. q + u \in Int
    OBVIOUS
  <2> QED
    BY <2>4, <2>5, <2>6, Remainder
<1>4. (k - r) % M = (k - n) % M
  <2>1. PICK u \in Int : k - r = M * u + ((k - r) % M)
    BY <1>2, Divides
  <2>2. PICK v \in Int : k - n = M * v + ((k - n) % M)
    BY <1>2, Divides
  <2>3. M * (u - q) = M * u - mq
    BY Multiples
  <2>4. (k - r) % M \in 0..(M - 1) /\ (k - n) % M \in 0..(M - 1)
    BY <1>2, Divides
  <2>5. M * (u - q) + ((k - r) % M) = M * v + ((k - n) % M)
    <3> DEFINE a == (k - r) % M
               b == (k - n) % M
               mu == M * u
               mv == M * v
               mqu == M * (u - q)
    <3>1. mu \in Int /\ mv \in Int /\ mqu \in Int /\ a \in Int /\ b \in Int
      BY <2>4, SnAssumption
    <3>2. k - r = mu + a /\ k - n = mv + b /\ mqu = mu - mq
      BY <2>1, <2>2, <2>3
    <3> HIDE DEF mq, r, a, b, mu, mv, mqu
    <3>3. mqu + a = mv + b
      BY <1>2, <3>1, <3>2
    <3> QED
      BY <3>3 DEF a, b, mv, mqu
  <2>6. u - q \in Int
    OBVIOUS
  <2> QED
    BY <2>4, <2>5, <2>6, Remainder
<1> QED
  BY <1>3, <1>4

LEMMA SmallMod ==
    ASSUME NEW r \in 0..(M - 1)
    PROVE  r % M = r
  BY SnAssumption, SMT

LEMMA PlusIs ==
    ASSUME NEW n \in Int, NEW d \in 0..(M - 1)
    PROVE  Plus(n % M, d) = (n + d) % M
<1>1. PICK q \in Int : n = M * q + (n % M)
  BY Divides
<1>2. n % M \in 0..(M - 1) /\ M \in Nat \ {0}
  BY Divides, SnAssumption
<1>3. ((n % M) + d) % M = (n + d) % M
  BY ModOfSum
<1>4. CASE (n % M) + d < M
  <2>1. (n % M) + d \in 0..(M - 1)
    BY <1>2, <1>4
  <2> QED
    BY <1>3, <1>4, <2>1, SmallMod DEF Plus
<1>5. CASE ~((n % M) + d < M)
  <2> DEFINE s == n % M
             k == s + d
  <2>1. k - M \in 0..(M - 1) /\ k \in Int
    BY <1>2, <1>5
  <2>2. PICK u \in Int : k = M * u + (k % M)
    BY <2>1, Divides
  <2>3. M * (u - 1) = M * u - M * 1 /\ M * 1 = M
    BY Multiples, <1>2
  <2>4. M * 0 + (k - M) = M * (u - 1) + (k % M)
    <3> DEFINE mu == M * u
               mv == M * (u - 1)
               km == k % M
    <3>1. mu \in Int /\ km \in Int /\ mv \in Int /\ M * 0 = 0
      BY <1>2, <2>1, Divides
    <3>2. k = mu + km /\ mv = mu - M
      BY <2>2, <2>3
    <3> HIDE DEF k, mu, mv, km
    <3>3. 0 + (k - M) = mv + km
      BY <1>2, <2>1, <3>1, <3>2
    <3> QED
      BY <3>1, <3>3 DEF mv, km
  <2>5. k - M = k % M
    <3>1. k % M \in 0..(M - 1) /\ 0 \in Int /\ u - 1 \in Int
      BY <2>1, Divides
    <3> HIDE DEF k
    <3> QED
      BY <2>1, <2>4, <3>1, Remainder
  <2>6. Plus(s, d) = k - M
    <3>1. s \in Int /\ d \in Int /\ M \in Int /\ ~(s + d < M)
      BY <1>2, <1>5
    <3> HIDE DEF s
    <3> QED
      BY ONLY <3>1 DEF Plus
  <2> QED
    BY <1>3, <2>5, <2>6
<1> QED
  BY <1>4, <1>5

LEMMA MinusIs ==
    ASSUME NEW n \in Int, NEW d \in 0..(M - 1)
    PROVE  Minus(n % M, d) = (n - d) % M
<1>1. n % M \in 0..(M - 1) /\ M \in Nat \ {0}
  BY Divides, SnAssumption
<1>2. -d \in Int /\ (n % M) + (-d) = (n % M) - d /\ n + (-d) = n - d
  BY <1>1
<1>3. ((n % M) - d) % M = (n - d) % M
  BY <1>2, ModOfSum
<1>4. CASE n % M >= d
  <2>1. (n % M) - d \in 0..(M - 1)
    BY <1>1, <1>4
  <2> QED
    BY <1>3, <1>4, <2>1, SmallMod DEF Minus
<1>5. CASE ~(n % M >= d)
  <2> DEFINE k == (n % M) - d
  <2>1. k \in Int /\ k + M \in 0..(M - 1) /\ k + M - M = k
    BY <1>1, <1>5
  <2>2. PICK u \in Int : k = M * u + (k % M)
    BY <2>1, Divides
  <2>3. M * (u + 1) = M * u + M * 1 /\ M * 1 = M
    BY Multiples, <1>1
  <2>4. M * 0 + (k + M) = M * (u + 1) + (k % M)
    <3> DEFINE mu == M * u
               mv == M * (u + 1)
               km == k % M
    <3>1. mu \in Int /\ km \in Int /\ mv \in Int /\ M * 0 = 0
      BY <1>1, <2>1, Divides
    <3>2. k = mu + km /\ mv = mu + M
      BY <2>2, <2>3
    <3> HIDE DEF k, mu, mv, km
    <3>3. 0 + (k + M) = mv + km
      BY <1>1, <2>1, <3>1, <3>2
    <3> QED
      BY <3>1, <3>3 DEF mv, km
  <2>5. k + M = k % M
    <3>1. k % M \in 0..(M - 1) /\ 0 \in Int /\ u + 1 \in Int
      BY <2>1, Divides
    <3> HIDE DEF k
    <3> QED
      BY <2>1, <2>4, <3>1, Remainder
  <2> QED
    BY <1>3, <1>5, <2>5 DEF Minus
<1> QED
  BY <1>4, <1>5

(* Less than M apart, numbers are as far apart as their sequence numbers. *)
LEMMA RelIs ==
    ASSUME NEW n \in Int, NEW b \in Int, n - b \in 0..(M - 1)
    PROVE  Rel(n % M, b % M) = n - b
<1>1. b % M \in 0..(M - 1) /\ b % M \in Int /\ n - (b % M) \in Int /\ M \in Nat
  BY Divides, SnAssumption
<1>2. Rel(n % M, b % M) = (n - (b % M)) % M
  BY <1>1, MinusIs DEF Rel
<1>3. (n - (b % M)) % M = (n - b) % M
  BY ModOfSum
<1> QED
  BY <1>2, <1>3, SmallMod

LEMMA SameSn ==
    ASSUME NEW n \in Int, NEW b \in Int, n - b \in 0..(M - 1), n % M = b % M
    PROVE  n = b
<1>1. b - b \in 0..(M - 1)
  BY SnAssumption
<1>2. Rel(b % M, b % M) = b - b /\ Rel(n % M, b % M) = n - b
  BY <1>1, RelIs
<1> QED
  BY <1>2

LEMMA SnIs == ASSUME NEW n \in Int PROVE n % M \in SNs
  BY Divides DEF SNs

-----------------------------------------------------------------------------
(* Reassembly. *)

LEMMA Sequences ==
    ASSUME NEW S, NEW s \in Seq(S), s # <<>>
    PROVE  /\ Len(s) \in Nat \ {0} /\ Last(s) = s[Len(s)] /\ Last(s) \in S /\ Head(s) = s[1]
           /\ Tail(s) \in Seq(S) /\ Len(Tail(s)) = Len(s) - 1
           /\ \A i \in 1..(Len(s) - 1) : Tail(s)[i] = s[i + 1]
           /\ Front(s) \in Seq(S) /\ Len(Front(s)) = Len(s) - 1
           /\ \A i \in 1..(Len(s) - 1) : Front(s)[i] = s[i]
<1>1. Len(s) \in Nat \ {0}
  BY EmptySeq, LenProperties
<1>2. Last(s) = s[Len(s)] /\ Last(s) \in S
  BY <1>1, ElementOfSeq DEF Last
<1>3. Head(s) = s[1] /\ Tail(s) \in Seq(S) /\ Len(Tail(s)) = Len(s) - 1
      /\ \A i \in 1..(Len(s) - 1) : Tail(s)[i] = s[i + 1]
  BY <1>1, HeadTailProperties
<1>4. Front(s) \in Seq(S) /\ Len(Front(s)) = Len(s) - 1
      /\ \A i \in 1..(Len(s) - 1) : Front(s)[i] = s[i]
  <2>1. \A i \in 1..(Len(s) - 1) : s[i] \in S
    BY <1>1, ElementOfSeq
  <2>2. Front(s) = [i \in 1..(Len(s) - 1) |-> s[i]]
    BY <1>1 DEF Front
  <2> QED
    BY <1>1, <2>1, <2>2
<1> QED
  BY <1>1, <1>2, <1>3, <1>4

LEMMA SingleIs ==
    ASSUME NEW s \in Seq(Piece)
    PROVE  /\ Single(s) \in Seq(Seq(Piece)) /\ Len(Single(s)) = Len(s)
           /\ \A i \in 1..Len(s) : Single(s)[i] = <<s[i]>>
<1>1. Len(s) \in Nat /\ \A i \in 1..Len(s) : s[i] \in Piece
  BY LenProperties, ElementOfSeq
<1>2. \A i \in 1..Len(s) : <<s[i]>> \in Seq(Piece)
  BY <1>1
<1> QED
  BY <1>1, <1>2 DEF Single

(* The SDUs a PDU begins, ends or carries. *)
Skipped(r, p) == IF Joins(r, p) \/ Begins(p) THEN 0 ELSE 1

LEMMA ItemsAre ==
    ASSUME NEW r, NEW p \in Pdu, r.sdus = <<>>, r.keep \in Seq(Piece), p.pieces # <<>>
    PROVE  /\ Items(r, p) \in Seq(Seq(Piece))
           /\ Len(Items(r, p)) = Len(p.pieces) - Skipped(r, p)
           /\ \A i \in 1..(Len(p.pieces) - Skipped(r, p)) :
                 Items(r, p)[i] = IF Joins(r, p) /\ i = 1 THEN Append(r.keep, p.pieces[1])
                                  ELSE <<p.pieces[i + Skipped(r, p)]>>
<1> DEFINE P == p.pieces
           n == Len(P)
<1>1. P \in Seq(Piece) /\ P # <<>>
  BY DEF Pdu
<1>2. n \in Nat \ {0} /\ Head(P) = P[1] /\ P[1] \in Piece /\ Tail(P) \in Seq(Piece)
      /\ Len(Tail(P)) = n - 1 /\ \A i \in 1..(n - 1) : Tail(P)[i] = P[i + 1]
  <2>1. /\ n \in Nat \ {0} /\ Head(P) = P[1] /\ Tail(P) \in Seq(Piece)
        /\ Len(Tail(P)) = n - 1 /\ \A i \in 1..(n - 1) : Tail(P)[i] = P[i + 1]
    BY <1>1, Sequences, Zenon
  <2>2. 1 \in 1..n
    BY <2>1
  <2> QED
    BY <1>1, <2>1, <2>2, ElementOfSeq
<1>3. <<>> \o P = P
  BY <1>1, ConcatEmptySeq
<1>4. /\ Single(P) \in Seq(Seq(Piece)) /\ Len(Single(P)) = n
      /\ \A i \in 1..n : Single(P)[i] = <<P[i]>>
  BY <1>1, SingleIs
<1>5. /\ Single(Tail(P)) \in Seq(Seq(Piece)) /\ Len(Single(Tail(P))) = n - 1
      /\ \A i \in 1..(n - 1) : Single(Tail(P))[i] = <<P[i + 1]>>
  <2> DEFINE T == Tail(P)
  <2>1. T \in Seq(Piece) /\ Len(T) = n - 1 /\ \A i \in 1..(n - 1) : T[i] = P[i + 1]
    BY <1>2
  <2> HIDE DEF T, P
  <2>2. /\ Single(T) \in Seq(Seq(Piece)) /\ Len(Single(T)) = n - 1
        /\ \A i \in 1..(n - 1) : Single(T)[i] = <<T[i]>>
    BY <2>1, SingleIs
  <2> QED
    BY <2>1, <2>2 DEF T
<1>6. CASE Joins(r, p)
  <2> DEFINE first == Append(r.keep, P[1])
             rest == Single(Tail(P))
  <2>1. Items(r, p) = <<first>> \o rest /\ Skipped(r, p) = 0
    BY <1>2, <1>3, <1>6 DEF Items, Skipped
  <2>2. first \in Seq(Piece)
    BY <1>2, AppendProperties
  <2> HIDE DEF first, rest
  <2>3. <<first>> \in Seq(Seq(Piece)) /\ Len(<<first>>) = 1 /\ <<first>>[1] = first
    BY <2>2
  <2>4. /\ <<first>> \o rest \in Seq(Seq(Piece)) /\ Len(<<first>> \o rest) = n
        /\ \A i \in 1..n : (<<first>> \o rest)[i] = IF i = 1 THEN first ELSE <<P[i]>>
    <3>1. rest \in Seq(Seq(Piece)) /\ Len(rest) = n - 1
          /\ \A i \in 1..(n - 1) : rest[i] = <<P[i + 1]>>
      BY <1>5 DEF rest
    <3> HIDE DEF n, P
    <3>2. <<first>> \o rest \in Seq(Seq(Piece)) /\ Len(<<first>> \o rest) = 1 + (n - 1)
          /\ \A i \in 1..(1 + (n - 1)) : (<<first>> \o rest)[i] =
                IF i <= 1 THEN <<first>>[i] ELSE rest[i - 1]
      BY <2>3, <3>1, ConcatProperties
    <3>3. n \in Nat \ {0}
      BY <1>2
    <3>4. ASSUME NEW i \in 1..n
          PROVE  (<<first>> \o rest)[i] = IF i = 1 THEN first ELSE <<P[i]>>
      <4>1. CASE i = 1
        BY <2>3, <3>2, <3>3, <4>1
      <4>2. CASE i # 1
        <5>1. i - 1 \in 1..(n - 1) /\ (i - 1) + 1 = i /\ i \in 1..(1 + (n - 1)) /\ ~(i <= 1)
          BY <3>3, <4>2
        <5>2. rest[i - 1] = <<P[i]>>
          BY <3>1, <5>1
        <5> QED
          BY <3>2, <4>2, <5>1, <5>2
      <4> QED
        BY <4>1, <4>2
    <3> QED
      BY <3>2, <3>3, <3>4
  <2>5. \A i \in 1..n : i + 0 = i
    BY <1>2
  <2>6. n - 0 = n
    BY <1>2
  <2> QED
    BY <1>6, <2>1, <2>4, <2>5, <2>6 DEF first
<1>7. CASE ~Joins(r, p) /\ Begins(p)
  <2>1. Items(r, p) = Single(P) /\ Skipped(r, p) = 0
    BY <1>3, <1>7 DEF Items, Skipped
  <2>2. n - 0 = n /\ \A i \in 1..n : i + 0 = i
    BY <1>2
  <2> QED
    BY <1>4, <1>7, <2>1, <2>2
<1>8. CASE ~Joins(r, p) /\ ~Begins(p)
  <2>1. Items(r, p) = Single(Tail(P)) /\ Skipped(r, p) = 1
    BY <1>3, <1>8 DEF Items, Skipped
  <2> QED
    BY <1>5, <1>8, <2>1
<1> QED
  BY <1>6, <1>7, <1>8

(* Each of them is the first segments of an SDU, or all of them. *)
LEMMA ItemsFragments ==
    ASSUME NEW r, NEW p \in Pdu, r.sdus = <<>>, r.keep \in Seq(Piece), FramedPdu(p),
           ~(Joins(r, p) /\ Begins(p)),
           Joins(r, p) => /\ Fragment(r.keep) /\ ~Last(r.keep).last
                          /\ p.pieces[1].sdu = r.keep[1].sdu
                          /\ p.pieces[1].seg = Len(r.keep) + 1,
           NEW i \in 1..(Len(p.pieces) - Skipped(r, p))
    PROVE  LET s == Items(r, p)[i]
               piece == p.pieces[i + Skipped(r, p)]
           IN  /\ Fragment(s) /\ s[1].sdu = piece.sdu
               /\ Last(s).last = piece.last /\ Len(s) = piece.seg
<1> DEFINE P == p.pieces
           n == Len(P)
           o == Skipped(r, p)
           s == Items(r, p)[i]
<1>1. P \in Seq(Piece) /\ n \in Nat \ {0} /\ o \in {0, 1} /\ P # <<>>
  <2>1. P \in Seq(Piece) /\ P # <<>>
    BY DEF Pdu, FramedPdu
  <2> QED
    BY <2>1, Sequences, Zenon DEF Skipped
<1>2. i + o \in 1..n /\ P[i + o] \in Piece /\ P[1] \in Piece
  <2>1. i + o \in 1..n /\ 1 \in 1..n
    <3>1. i \in 1..(n - o)
      OBVIOUS
    <3> HIDE DEF n, o
    <3> QED
      BY <1>1, <3>1
  <2> QED
    BY <1>1, <2>1, ElementOfSeq
<1>3. s = IF Joins(r, p) /\ i = 1 THEN Append(r.keep, P[1]) ELSE <<P[i + o]>>
  BY <1>1, ItemsAre
<1>4. CASE Joins(r, p) /\ i = 1
  <2> DEFINE keep == r.keep
             m == Len(keep)
  <2>1. keep \in Seq(Piece) /\ m \in Nat \ {0} /\ keep # <<>>
    <3>1. keep \in Seq(Piece) /\ keep # <<>>
      BY <1>4 DEF Fragment
    <3> QED
      BY <3>1, Sequences, Zenon
  <2>2. o = 0
    BY <1>4 DEF Skipped
  <2>3. P[i + o] = P[1]
    BY <1>4, <2>2
  <2>4. s = Append(keep, P[1])
    BY <1>3, <1>4
  <2>5. P[1].sdu = keep[1].sdu /\ P[1].seg = m + 1 /\ Fragment(keep) /\ ~Last(keep).last
    BY <1>4
  <2> HIDE DEF keep, s, P, o, n
  <2>6. s \in Seq(Piece) /\ Len(s) = m + 1 /\ s[m + 1] = P[1] /\ \A j \in 1..m : s[j] = keep[j]
    BY <1>2, <2>1, <2>4, AppendProperties
  <2>7. \A j \in 1..m : keep[j].sdu = keep[1].sdu /\ keep[j].seg = j
    BY <2>5 DEF Fragment
  <2>8. \A j \in 1..m : ~keep[j].last
    <3>1. \A j \in 1..(m - 1) : ~keep[j].last
      BY <2>5 DEF Fragment
    <3>2. ~keep[m].last
      BY <2>5 DEF Last
    <3> QED
      BY <2>1, <3>1, <3>2
  <2> HIDE DEF m
  <2>9. s[1] = keep[1] /\ 1 \in 1..m
    BY <2>1, <2>6
  <2>10. \A j \in 1..(m + 1) : s[j].sdu = s[1].sdu /\ s[j].seg = j
    BY <2>1, <2>5, <2>6, <2>7, <2>9
  <2>11. \A j \in 1..m : ~s[j].last
    BY <2>6, <2>8
  <2>12. s # <<>> /\ (m + 1) - 1 = m
    BY <2>1, <2>6
  <2>13. Fragment(s)
    BY <2>6, <2>10, <2>11, <2>12 DEF Fragment
  <2>14. Last(s) = P[1]
    BY <2>6 DEF Last
  <2> QED
    BY <2>3, <2>5, <2>6, <2>9, <2>13, <2>14 DEF s, P, o
<1>5. CASE ~(Joins(r, p) /\ i = 1)
  <2> DEFINE b == P[i + o]
  <2>1. s = <<b>> /\ b \in Piece
    BY <1>2, <1>3, <1>5
  <2>2. b.seg = 1
    <3>1. CASE i + o > 1
      BY <1>1, <1>2, <3>1 DEF FramedPdu
    <3>2. CASE ~(i + o > 1)
      <4>1. i = 1 /\ o = 0 /\ i + o = 1
        BY <1>1, <1>2, <3>2
      <4>2. Begins(p)
        BY <1>5, <4>1 DEF Skipped
      <4> QED
        BY <4>1, <4>2 DEF Begins
    <3> QED
      BY <3>1, <3>2
  <2> HIDE DEF b
  <2>3. <<b>> \in Seq(Piece) /\ Len(<<b>>) = 1 /\ <<b>>[1] = b /\ <<b>> # <<>>
    BY <2>1
  <2>4. Fragment(<<b>>)
    BY <2>2, <2>3 DEF Fragment
  <2>5. Last(<<b>>) = b
    BY <2>3 DEF Last
  <2> HIDE DEF s
  <2> QED
    BY <2>1, <2>2, <2>3, <2>4, <2>5 DEF b, s
<1> QED
  BY <1>4, <1>5

LEMMA HandedMore ==
    ASSUME NEW a \in Seq(Seq(Piece)), NEW b \in Seq(Seq(Piece)), NEW t,
           Handed(a, t), Handed(b, LastOf(a, t))
    PROVE  /\ a \o b \in Seq(Seq(Piece)) /\ Handed(a \o b, t)
           /\ LastOf(a \o b, t) = LastOf(b, LastOf(a, t))
<1> DEFINE k == Len(a)
           m == Len(b)
           s == a \o b
<1>1. k \in Nat /\ m \in Nat
  BY LenProperties
<1>2. /\ s \in Seq(Seq(Piece)) /\ Len(s) = k + m
      /\ \A i \in 1..(k + m) : s[i] = IF i <= k THEN a[i] ELSE b[i - k]
  BY ConcatProperties
<1>3. (a = <<>> <=> k = 0) /\ (b = <<>> <=> m = 0)
  BY EmptySeq
<1> HIDE DEF k, m, s
<1>4. ASSUME NEW i \in 1..(k + m)
      PROVE  /\ Fragment(s[i]) /\ Last(s[i]).last
             /\ s[i][1].sdu > (IF i = 1 THEN t ELSE s[i - 1][1].sdu)
  <2>1. CASE i <= k
    <3>1. i \in 1..k /\ s[i] = a[i] /\ (i # 1 => i - 1 \in 1..(k + m) /\ i - 1 <= k)
      BY <1>1, <1>2, <2>1
    <3>2. i # 1 => s[i - 1] = a[i - 1]
      BY <1>2, <3>1
    <3>3. /\ Fragment(a[i]) /\ Last(a[i]).last
          /\ a[i][1].sdu > (IF i = 1 THEN t ELSE a[i - 1][1].sdu)
      BY <3>1 DEF Handed, k
    <3> QED
      BY <3>1, <3>2, <3>3
  <2>2. CASE ~(i <= k)
    <3> DEFINE j == i - k
    <3>1. j \in 1..m /\ s[i] = b[j]
      BY <1>1, <1>2, <2>2
    <3>2. /\ Fragment(b[j]) /\ Last(b[j]).last
          /\ b[j][1].sdu > (IF j = 1 THEN LastOf(a, t) ELSE b[j - 1][1].sdu)
      BY <3>1 DEF Handed, m
    <3>3. (IF j = 1 THEN LastOf(a, t) ELSE b[j - 1][1].sdu) = IF i = 1 THEN t ELSE s[i - 1][1].sdu
      <4>1. CASE j # 1
        <5>1. i # 1 /\ i - 1 \in 1..(k + m) /\ ~(i - 1 <= k) /\ (i - 1) - k = j - 1
          BY <1>1, <2>2, <3>1, <4>1
        <5>2. s[i - 1] = b[j - 1]
          BY <1>2, <5>1
        <5> QED
          BY <4>1, <5>1, <5>2
      <4>2. CASE j = 1 /\ k = 0
        <5>1. i = 1 /\ a = <<>>
          BY <1>3, <4>2
        <5> QED
          BY <4>2, <5>1 DEF LastOf
      <4>3. CASE j = 1 /\ k # 0
        <5>1. i # 1 /\ i - 1 = k /\ k \in 1..(k + m) /\ a # <<>>
          BY <1>1, <1>3, <3>1, <4>3
        <5>2. s[i - 1] = a[k]
          BY <1>2, <5>1
        <5>3. LastOf(a, t) = a[k][1].sdu
          BY <5>1 DEF LastOf, Last, k
        <5> QED
          BY <4>3, <5>1, <5>2, <5>3
      <4> QED
        BY <4>1, <4>2, <4>3
    <3> HIDE DEF j
    <3> QED
      BY <3>1, <3>2, <3>3
  <2> QED
    BY <2>1, <2>2
<1>5. Handed(s, t)
  BY <1>2, <1>4 DEF Handed
<1>6. LastOf(s, t) = LastOf(b, LastOf(a, t))
  <2>1. CASE m = 0
    <3>1. b = <<>> /\ s = a
      BY <1>3, <2>1, ConcatEmptySeq DEF s
    <3> QED
      BY <3>1 DEF LastOf
  <2>2. CASE m # 0
    <3>1. k + m \in 1..(k + m) /\ ~(k + m <= k) /\ (k + m) - k = m /\ s # <<>> /\ b # <<>>
      BY <1>1, <1>2, <1>3, <2>2
    <3>2. Last(s) = b[m] /\ Last(b) = b[m]
      BY <1>2, <3>1 DEF Last, m
    <3> QED
      BY <3>1, <3>2 DEF LastOf
  <2> QED
    BY <2>1, <2>2
<1> QED
  BY <1>2, <1>5, <1>6 DEF s

(* A PDU the peer sent, at or beyond the next one expected. *)
LEMMA Delivers ==
    ASSUME NEW Q, NEW nx \in Nat, NEW c, c.sdu \in Nat, Stream(Q, nx, c),
           NEW r, NEW e \in Nat, NEW t, Reaches(r, e, t, Q, nx, c),
           NEW p \in Q, e <= p.n, p.n < e + M
    PROVE  Reaches(ReassembleAndDeliver(r, p), p.n + 1, t, Q, nx, c)
<1> DEFINE P == p.pieces
           n == Len(P)
           o == Skipped(r, p)
           items == Items(r, p)
           g == LastOf(r.up, t)
<1>1. /\ p \in Pdu /\ FramedPdu(p) /\ p.n < nx /\ After(p).sdu <= c.sdu
      /\ (p.n + 1 = nx => After(p) = c)
      /\ \A q \in Q : /\ p.n < q.n => After(p).sdu <= Start(q).sdu
                      /\ q.n = p.n + 1 => Start(q) = After(p)
  BY DEF Stream
<1>2. /\ r \in ReassemblerType /\ r.expected = e % M
      /\ (r.state = "WAITING_SI_SF" <=> r.keep # <<>>)
      /\ (r.keep # <<>> => /\ Fragment(r.keep) /\ ~Last(r.keep).last
                           /\ Continued(r.keep, e, Q, nx, c))
      /\ g \in Nat /\ g < c.sdu /\ g < Start(p).sdu /\ Handed(r.up, t)
      /\ r.keep \in Seq(Piece) /\ r.sdus = <<>> /\ r.up \in Seq(Seq(Piece))
  BY DEF Reaches, ReassemblerType
<1>3. P \in Seq(Piece) /\ P # <<>> /\ p.n \in Nat
  BY <1>1 DEF Pdu, FramedPdu
<1>4. n \in Nat \ {0} /\ Last(P) = P[n] /\ P[n] \in Piece /\ P[1] \in Piece
  <2>1. n \in Nat \ {0} /\ Last(P) = P[n]
    BY <1>3, Sequences, Zenon
  <2>2. n \in 1..n /\ 1 \in 1..n
    BY <2>1
  <2> QED
    BY <1>3, <2>1, <2>2, ElementOfSeq
<1>5. Joins(r, p) => /\ Fragment(r.keep) /\ ~Last(r.keep).last
                     /\ P[1].sdu = r.keep[1].sdu /\ P[1].seg = Len(r.keep) + 1
                     /\ P[1].seg # 1
  <2> SUFFICES ASSUME Joins(r, p)
               PROVE  /\ Fragment(r.keep) /\ ~Last(r.keep).last
                      /\ P[1].sdu = r.keep[1].sdu /\ P[1].seg = Len(r.keep) + 1
                      /\ P[1].seg # 1
    OBVIOUS
  <2>1. r.keep # <<>> /\ p.n % M = e % M
    BY <1>2 DEF Joins
  <2>2. p.n = e
    <3>1. p.n - e \in 0..(M - 1) /\ p.n \in Int /\ e \in Int
      BY <1>3, SnAssumption
    <3> QED
      BY <2>1, <3>1, SameSn
  <2>3. Start(p) = [sdu |-> r.keep[1].sdu, seg |-> Len(r.keep) + 1]
    BY <1>2, <2>1, <2>2 DEF Continued
  <2>4. P[1].sdu = r.keep[1].sdu /\ P[1].seg = Len(r.keep) + 1
    BY <2>3 DEF Start
  <2>5. Len(r.keep) \in Nat \ {0}
    BY <1>2, <2>1, Sequences
  <2>6. Len(r.keep) + 1 # 1
    BY <2>5
  <2> QED
    BY <1>2, <2>1, <2>4, <2>6
<1>6. ~(Joins(r, p) /\ Begins(p))
  BY <1>5 DEF Begins
<1>7. /\ items \in Seq(Seq(Piece)) /\ Len(items) = n - o
      /\ \A i \in 1..(n - o) : /\ Fragment(items[i]) /\ items[i][1].sdu = P[i + o].sdu
                               /\ Last(items[i]).last = P[i + o].last
                               /\ Len(items[i]) = P[i + o].seg
  <2>1. items \in Seq(Seq(Piece)) /\ Len(items) = n - o
    BY <1>1, <1>2, <1>3, ItemsAre
  <2>2. ASSUME NEW i \in 1..(n - o)
        PROVE  /\ Fragment(items[i]) /\ items[i][1].sdu = P[i + o].sdu
               /\ Last(items[i]).last = P[i + o].last /\ Len(items[i]) = P[i + o].seg
    BY <1>1, <1>2, <1>5, <1>6, ItemsFragments
  <2> QED
    BY <2>1, <2>2
<1>8. o \in {0, 1} /\ (items = <<>> <=> n - o = 0)
  <2>1. items = <<>> <=> Len(items) = 0
    BY <1>7, EmptySeq
  <2> QED
    BY <1>7, <2>1 DEF Skipped
<1>9. /\ \A i \in 1..n : P[i].sdu = P[1].sdu + i - 1 /\ (i < n => P[i].last)
      /\ P[1].sdu \in Nat /\ g < P[1].sdu
  <2>1. P[1].sdu \in Nat
    BY <1>4 DEF Piece
  <2>2. g < P[1].sdu
    BY <1>2 DEF Start
  <2> QED
    BY <1>1, <2>1, <2>2 DEF FramedPdu
<1>10. \A d \in 0..n : d <= n - o => \A i \in 1..d : i + o \in 1..n /\ i \in 1..(n - o)
  BY <1>4, <1>8
<1> DEFINE Sent(d, b) ==
              /\ b \in Seq(Seq(Piece)) /\ Len(b) = d
              /\ \A i \in 1..d : b[i] = items[i]
(* Some of the items, all of them complete, are given to PDCP. *)
<1>11. ASSUME NEW d \in 0..n, d <= n - o, NEW b, Sent(d, b),
              d + o = n => d = 0 \/ P[n].last
       PROVE  /\ Handed(b, g) /\ LastOf(b, g) \in Nat
              /\ LastOf(b, g) <= P[1].sdu + d + o - 1
              /\ d = 0 => LastOf(b, g) = g
  <2>1. ASSUME NEW i \in 1..d
        PROVE  /\ Fragment(b[i]) /\ Last(b[i]).last /\ b[i][1].sdu = P[1].sdu + i + o - 1
               /\ b[i][1].sdu > (IF i = 1 THEN g ELSE b[i - 1][1].sdu)
    <3>1. i + o \in 1..n /\ i \in 1..(n - o) /\ b[i] = items[i]
      BY <1>10, <1>11
    <3>2. P[i + o].last
      <4>1. CASE i + o < n
        BY <1>9, <3>1, <4>1
      <4>2. CASE ~(i + o < n)
        <5>1. i + o = n /\ d + o = n /\ d # 0
          <6> HIDE DEF o, n, items, P
          <6> QED
            BY <1>4, <1>8, <1>11, <3>1, <4>2
        <5> QED
          BY <1>11, <5>1
      <4> QED
        BY <4>1, <4>2
    <3>3. Fragment(b[i]) /\ Last(b[i]).last /\ b[i][1].sdu = P[i + o].sdu
      BY <1>7, <3>1, <3>2
    <3>4. b[i][1].sdu = P[1].sdu + i + o - 1
      <4>1. P[i + o].sdu = P[1].sdu + (i + o) - 1
        BY <1>9, <3>1
      <4>2. o \in Int /\ P[1].sdu \in Int
        BY <1>8, <1>9
      <4> HIDE DEF P, o, n, items
      <4>3. P[1].sdu + (i + o) - 1 = P[1].sdu + i + o - 1
        BY <4>2
      <4> QED
        BY <3>3, <4>1, <4>3
    <3>5. b[i][1].sdu > (IF i = 1 THEN g ELSE b[i - 1][1].sdu)
      <4>1. CASE i = 1
        <5> HIDE DEF P, o, n, g
        <5> QED
          BY <1>2, <1>8, <1>9, <3>4, <4>1
      <4>2. CASE i # 1
        <5> DEFINE j == i - 1
        <5>1. j \in 1..d
          BY <4>2
        <5>2. j + o \in 1..n /\ j \in 1..(n - o) /\ b[j] = items[j]
          BY <1>10, <1>11, <5>1
        <5>3. b[j][1].sdu = P[j + o].sdu /\ P[j + o].sdu = P[1].sdu + (j + o) - 1
          BY <1>7, <1>9, <5>2
        <5>4. P[1].sdu + (j + o) - 1 < P[1].sdu + i + o - 1
          <6> HIDE DEF P, o, n
          <6> QED
            BY <1>8, <1>9, <4>2
        <5> QED
          BY <3>4, <4>2, <5>3, <5>4
      <4> QED
        BY <4>1, <4>2
    <3> QED
      BY <3>3, <3>4, <3>5
  <2>2. Handed(b, g)
    BY <1>11, <2>1 DEF Handed
  <2>3. CASE d = 0
    <3>1. b = <<>>
      BY <1>11, <2>3, EmptySeq
    <3>2. LastOf(b, g) = g
      BY <3>1 DEF LastOf
    <3> HIDE DEF P, o, n, g
    <3> QED
      BY <1>2, <1>8, <1>9, <2>2, <2>3, <3>2
  <2>4. CASE d # 0
    <3>1. d \in 1..d /\ b # <<>>
      BY <1>4, <1>11, <2>4, EmptySeq
    <3>2. LastOf(b, g) = b[d][1].sdu
      BY <1>11, <3>1 DEF LastOf, Last
    <3>3. b[d][1].sdu = P[1].sdu + d + o - 1
      BY <2>1, <3>1
    <3>4. P[1].sdu + d + o - 1 \in Nat
      <4> HIDE DEF P, o, n
      <4> QED
        BY <1>8, <1>9, <2>4
    <3> QED
      BY <2>2, <2>4, <3>2, <3>3, <3>4
  <2> QED
    BY <2>3, <2>4
(* What is given to PDCP and what is kept. *)
<1> DEFINE done == Ends(p) \/ items = <<>>
           b == IF done THEN items ELSE Front(items)
           d == IF done THEN n - o ELSE n - o - 1
           kept == Last(items)
           r2 == ReassembleAndDeliver(r, p)
           h == LastOf(b, g)
<1>12. r2 = [expected |-> Plus(p.n % M, 1),
             state |-> IF done THEN "WAITING_S0_FULL" ELSE "WAITING_SI_SF",
             keep |-> IF done THEN <<>> ELSE Last(items), sdus |-> <<>>, up |-> r.up \o b]
  BY <1>6, Zenon DEF ReassembleAndDeliver
<1>13. d \in 0..n /\ d <= n - o /\ (d + o = n => done) /\ (d # n - o => d = n - o - 1)
  <2>1. ~done => n - o # 0
    BY <1>8
  <2> HIDE DEF n, o, items, done
  <2> QED
    BY <1>4, <1>8, <2>1
<1>14. Sent(d, b)
  <2>1. CASE done
    BY <1>7, <2>1
  <2>2. CASE ~done
    <3>1. items # <<>>
      BY <2>2
    <3>2. /\ Front(items) \in Seq(Seq(Piece)) /\ Len(Front(items)) = Len(items) - 1
          /\ \A i \in 1..(Len(items) - 1) : Front(items)[i] = items[i]
      BY <1>7, <3>1, Sequences
    <3> QED
      BY <1>7, <2>2, <3>2
  <2> QED
    BY <2>1, <2>2
<1>15. d + o = n => d = 0 \/ P[n].last
  <2>1. CASE Ends(p)
    BY <1>4, <2>1 DEF Ends
  <2>2. CASE ~Ends(p)
    BY <1>8, <1>13, <2>2
  <2> QED
    BY <2>1, <2>2
<1>16. /\ Handed(b, g) /\ h \in Nat /\ h <= P[1].sdu + d + o - 1 /\ (d = 0 => h = g)
       /\ b \in Seq(Seq(Piece))
  <2> HIDE DEF n, o, items, done, b, d, g, P
  <2> QED
    BY <1>11, <1>13, <1>14, <1>15
<1>17. r.up \o b \in Seq(Seq(Piece)) /\ Handed(r.up \o b, t) /\ LastOf(r.up \o b, t) = h
  BY <1>2, <1>16, HandedMore
<1>18. P[n].sdu = P[1].sdu + n - 1 /\ P[n].sdu \in Nat
  <2>1. n \in 1..n
    BY <1>4
  <2> QED
    BY <1>4, <1>9, <2>1 DEF Piece
<1>19. h < After(p).sdu
  <2>1. After(p).sdu = IF P[n].last THEN P[n].sdu + 1 ELSE P[n].sdu
    BY <1>4 DEF After
  <2>2. After(p).sdu \in Nat /\ P[n].sdu <= After(p).sdu
    BY <1>18, <2>1
  <2>3. CASE d = 0
    <3>1. h = g /\ g < P[1].sdu /\ g \in Nat
      BY <1>2, <1>9, <1>16, <2>3
    <3>2. P[1].sdu <= P[n].sdu
      <4> HIDE DEF P, n
      <4> QED
        BY <1>4, <1>9, <1>18
    <3> HIDE DEF P, n, h, g
    <3> QED
      BY <1>9, <1>18, <2>2, <3>1, <3>2
  <2>4. CASE d # 0 /\ d + o = n
    <3>1. P[n].last
      BY <1>15, <2>4
    <3>2. P[1].sdu + d + o - 1 = P[n].sdu
      <4>1. o \in Int /\ d \in Int /\ P[1].sdu \in Int /\ n \in Int
        BY <1>4, <1>8, <1>9, <1>13
      <4> HIDE DEF P, n, o, d, items, done
      <4> QED
        BY <1>18, <2>4, <4>1
    <3> HIDE DEF P, n, o, d, h
    <3> QED
      BY <1>16, <1>18, <2>1, <3>1, <3>2
  <2>5. CASE d + o # n
    <3>1. P[1].sdu + d + o - 1 < P[n].sdu
      <4> HIDE DEF P, n, o, d, items, done
      <4> QED
        BY <1>4, <1>8, <1>9, <1>13, <1>18, <2>5
    <3>2. P[1].sdu + d + o - 1 \in Int
      <4> HIDE DEF P, n, o, d, items, done
      <4> QED
        BY <1>4, <1>8, <1>9, <1>13
    <3> HIDE DEF P, n, o, d, h
    <3> QED
      BY <1>16, <1>18, <2>2, <3>1, <3>2
  <2> QED
    BY <2>3, <2>4, <2>5
<1>20. h < c.sdu /\ \A q \in Q : q.n >= p.n + 1 => h < Start(q).sdu
  <2>1. After(p).sdu \in Nat
    BY <1>4, <1>18 DEF After
  <2>2. h < c.sdu
    BY <1>1, <1>16, <1>19, <2>1
  <2>3. ASSUME NEW q \in Q, q.n >= p.n + 1
        PROVE  h < Start(q).sdu
    <3>1. q \in Pdu
      BY DEF Stream
    <3>2. q.n \in Nat /\ p.n < q.n
      BY <1>3, <2>3, <3>1 DEF Pdu
    <3>3. After(p).sdu <= Start(q).sdu /\ Start(q).sdu \in Nat
      <4>1. q.pieces \in Seq(Piece) /\ q.pieces # <<>>
        BY <3>1 DEF Stream, FramedPdu, Pdu
      <4>2. Len(q.pieces) \in Nat \ {0}
        BY <4>1, Sequences
      <4>3. q.pieces[1] \in Piece
        BY <4>1, <4>2, ElementOfSeq
      <4> QED
        BY <1>1, <3>2, <4>3 DEF Start, Piece
    <3> HIDE DEF h
    <3> QED
      BY <1>16, <1>19, <2>1, <3>3
  <2> QED
    BY <2>2, <2>3
<1>21. ~done => /\ Fragment(kept) /\ ~Last(kept).last /\ kept # <<>> /\ kept \in Seq(Piece)
                /\ h < kept[1].sdu /\ Continued(kept, p.n + 1, Q, nx, c)
  <2> SUFFICES ASSUME ~done
               PROVE  /\ Fragment(kept) /\ ~Last(kept).last /\ kept # <<>> /\ kept \in Seq(Piece)
                      /\ h < kept[1].sdu /\ Continued(kept, p.n + 1, Q, nx, c)
    OBVIOUS
  <2>1. n - o \in 1..(n - o) /\ (n - o) + o = n
    <3>1. n - o # 0
      BY <1>8
    <3> HIDE DEF n, o, items
    <3> QED
      BY <1>4, <1>8, <3>1
  <2>2. kept = items[n - o]
    BY <1>7 DEF Last
  <2>3. /\ Fragment(kept) /\ kept[1].sdu = P[n].sdu
        /\ Last(kept).last = P[n].last /\ Len(kept) = P[n].seg
    BY <1>7, <2>1, <2>2
  <2>4. ~P[n].last
    BY <1>4 DEF Ends
  <2>5. After(p) = [sdu |-> kept[1].sdu, seg |-> Len(kept) + 1]
    BY <1>4, <2>3, <2>4 DEF After
  <2>6. h < kept[1].sdu
    BY <1>19, <2>5
  <2>7. Continued(kept, p.n + 1, Q, nx, c)
    BY <1>1, <2>5 DEF Continued
  <2> QED
    BY <2>3, <2>4, <2>6, <2>7 DEF Fragment
<1>22. Plus(p.n % M, 1) = (p.n + 1) % M /\ Plus(p.n % M, 1) \in SNs
  <2>1. M - 1 >= 1 /\ 1 \in 0..(M - 1)
    BY SnAssumption
  <2>2. p.n \in Int /\ p.n + 1 \in Int
    BY <1>3
  <2> QED
    BY <2>1, <2>2, PlusIs, SnIs
<1> HIDE DEF h, kept, b, items, g, P, n, o, d
<1>23. r2 \in ReassemblerType
  <2>1. (IF done THEN <<>> ELSE Last(items)) \in Seq(Piece)
    BY <1>21 DEF kept
  <2>2. (IF done THEN "WAITING_S0_FULL" ELSE "WAITING_SI_SF")
          \in {"WAITING_S0_FULL", "WAITING_SI_SF"}
    OBVIOUS
  <2> HIDE DEF done
  <2> QED
    BY <1>12, <1>17, <1>22, <2>1, <2>2 DEF ReassemblerType
<1>24. /\ r2.expected = (p.n + 1) % M /\ r2.up = r.up \o b
       /\ r2.state = (IF done THEN "WAITING_S0_FULL" ELSE "WAITING_SI_SF")
       /\ r2.keep = (IF done THEN <<>> ELSE kept)
  BY <1>12, <1>22 DEF kept
<1> HIDE DEF r2, done
<1>25. r2.state = "WAITING_SI_SF" <=> r2.keep # <<>>
  BY <1>21, <1>24
<1>26. r2.keep # <<>> => /\ Fragment(r2.keep) /\ ~Last(r2.keep).last
                         /\ LastOf(r2.up, t) < r2.keep[1].sdu
                         /\ Continued(r2.keep, p.n + 1, Q, nx, c)
  BY <1>17, <1>21, <1>24
<1> QED
  BY <1>16, <1>17, <1>20, <1>23, <1>24, <1>25, <1>26 DEF Reaches, r2

-----------------------------------------------------------------------------
(* One turn of the visit, and its reassemblers after each of n turns. *)
Turn(r, i, buf, sns, first) ==
    IF Plus(first, i - 1) \in sns THEN ReassembleAndDeliver(r, buf[Plus(first, i - 1)]) ELSE r
Visit(f, n, r, buf, sns, first) ==
    f = [i \in 0..n |-> IF i = 0 THEN r ELSE Turn(f[i - 1], i, buf, sns, first)]

LEMMA VisitExists ==
    ASSUME NEW r, NEW buf, NEW sns, NEW first
    PROVE  \A n \in Nat : \E f : Visit(f, n, r, buf, sns, first)
<1> DEFINE S == {n \in Nat : \E f : Visit(f, n, r, buf, sns, first)}
           T(x, i) == Turn(x, i, buf, sns, first)
<1>1. 0 \in S
  <2> DEFINE f == [i \in 0..0 |-> r]
  <2>1. f = [i \in 0..0 |-> IF i = 0 THEN r ELSE Turn(f[i - 1], i, buf, sns, first)]
    OBVIOUS
  <2>2. Visit(f, 0, r, buf, sns, first)
    BY <2>1, Zenon DEF Visit
  <2> HIDE DEF f
  <2> QED
    BY <2>2
<1>2. ASSUME NEW n \in Nat, n \in S
      PROVE  n + 1 \in S
  <2>1. PICK f : Visit(f, n, r, buf, sns, first)
    BY <1>2
  <2> DEFINE g == [i \in 0..(n + 1) |-> IF i = n + 1 THEN T(f[n], n + 1) ELSE f[i]]
             e == [i \in 0..(n + 1) |-> IF i = 0 THEN r ELSE T(g[i - 1], i)]
  <2> HIDE DEF T
  <2>2. \A i \in 0..n : f[i] = IF i = 0 THEN r ELSE T(f[i - 1], i)
    BY <2>1 DEF Visit, T
  <2>3. \A i \in 0..n : g[i] = f[i]
    OBVIOUS
  <2>4. ASSUME NEW i \in 0..(n + 1)
        PROVE  g[i] = e[i]
    <3>1. CASE i = n + 1
      <4>1. i - 1 = n /\ n \in 0..n /\ i # 0
        BY <3>1
      <4>2. g[i - 1] = f[n] /\ g[i] = T(f[n], n + 1)
        BY <2>3, <3>1, <4>1
      <4>3. e[i] = T(g[i - 1], i)
        BY <4>1
      <4> HIDE DEF g, e
      <4> QED
        BY <3>1, <4>2, <4>3
    <3>2. CASE i # n + 1
      <4>1. i \in 0..n /\ (i # 0 => i - 1 \in 0..n)
        BY <3>2
      <4>2. i # 0 => g[i - 1] = f[i - 1]
        BY <2>3, <4>1
      <4>3. e[i] = IF i = 0 THEN r ELSE T(g[i - 1], i)
        OBVIOUS
      <4> HIDE DEF g, e
      <4> QED
        BY <2>2, <2>3, <4>1, <4>2, <4>3
    <3> QED
      BY <3>1, <3>2
  <2>5. g = e
    BY <2>4
  <2>6. Visit(g, n + 1, r, buf, sns, first)
    BY <2>5, Zenon DEF Visit, T
  <2> HIDE DEF g
  <2> QED
    BY <2>6
<1> HIDE DEF S
<1>3. Nat \subseteq S
  BY <1>1, <1>2, CountsUp
<1> QED
  BY <1>3 DEF S

LEMMA ReassembledIs ==
    ASSUME NEW r, NEW buf, NEW sns, NEW first
    PROVE  \E f : /\ f[0] = r
                  /\ \A i \in 1..M : f[i] = Turn(f[i - 1], i, buf, sns, first)
                  /\ Reassembled(r, buf, sns, first) = f[M]
<1> DEFINE Is(g) == g = [i \in 0..M |-> IF i = 0 THEN r
                                        ELSE IF Plus(first, i - 1) \in sns
                                        THEN ReassembleAndDeliver(g[i - 1], buf[Plus(first, i - 1)])
                                        ELSE g[i - 1]]
           f == CHOOSE g : Is(g)
<1>1. M \in Nat
  BY SnAssumption
<1>2. \E g : Is(g)
  <2>1. PICK g : Visit(g, M, r, buf, sns, first)
    BY <1>1, VisitExists
  <2>2. Is(g)
    BY <2>1, Zenon DEF Visit, Turn
  <2> QED
    BY <2>2, Zenon
<1>3. Reassembled(r, buf, sns, first) = f[M]
  BY Zenon DEF Reassembled
<1> HIDE DEF f
<1>4. Is(f)
  <2> HIDE DEF Is
  <2> QED
    BY <1>2, Zenon DEF f
<1>5. Visit(f, M, r, buf, sns, first)
  BY <1>4, Zenon DEF Visit, Turn
<1>6. f[0] = r /\ \A i \in 1..M : f[i] = Turn(f[i - 1], i, buf, sns, first)
  BY <1>1, <1>5 DEF Visit
<1> QED
  BY <1>3, <1>6

LEMMA NothingPassed ==
    ASSUME NEW r, NEW buf, NEW first
    PROVE  Reassembled(r, buf, {}, first) = r
<1>1. PICK f : /\ f[0] = r
               /\ \A i \in 1..M : f[i] = Turn(f[i - 1], i, buf, {}, first)
               /\ Reassembled(r, buf, {}, first) = f[M]
  BY ReassembledIs
<1>2. \A i \in 1..M : f[i] = f[i - 1]
  BY <1>1 DEF Turn
<1> DEFINE S == {n \in Nat : n <= M => f[n] = r}
<1>3. 0 \in S
  BY <1>1
<1>4. ASSUME NEW n \in Nat, n \in S PROVE n + 1 \in S
  <2>1. n + 1 <= M => n + 1 \in 1..M /\ (n + 1) - 1 = n /\ n <= M
    BY SnAssumption
  <2> QED
    BY <1>2, <1>4, <2>1
<1> HIDE DEF S
<1>5. Nat \subseteq S
  BY <1>3, <1>4, CountsUp
<1> QED
  BY <1>1, <1>5, SnAssumption DEF S

(* The PDUs of buf at sns are those from u on up to v - 1 that arrived, at *)
(* most M beyond b; v - 1 is one of them.                                  *)
LEMMA Passes ==
    ASSUME NEW Q, NEW nx \in Nat, NEW c, c.sdu \in Nat, Stream(Q, nx, c),
           NEW r, NEW t, NEW u \in Nat, Reaches(r, u, t, Q, nx, c),
           NEW b \in Int, NEW v \in Nat, b <= u, v <= b + M,
           NEW buf, NEW sns,
           \A sn \in sns : buf[sn] \in Q /\ buf[sn].n % M = sn /\ u <= buf[sn].n /\ buf[sn].n < v,
           \E sn \in sns : buf[sn].n = v - 1
    PROVE  Reaches(Reassembled(r, buf, sns, b % M), v, t, Q, nx, c)
<1>1. PICK f : /\ f[0] = r
               /\ \A i \in 1..M : f[i] = Turn(f[i - 1], i, buf, sns, b % M)
               /\ Reassembled(r, buf, sns, b % M) = f[M]
  BY ReassembledIs
<1> DEFINE Passed(i, e) ==
              /\ Reaches(f[i], e, t, Q, nx, c) /\ u <= e
              /\ \A sn \in sns : buf[sn].n < b + i => buf[sn].n < e
              /\ e = u \/ (e <= b + i /\ \E sn \in sns : buf[sn].n = e - 1)
           S == {n \in Nat : n <= M => \E e \in Nat : Passed(n, e)}
<1>2. \A sn \in sns : buf[sn].n \in Nat
  BY DEF Stream, Pdu
<1>3. 0 \in S
  <2>1. \A sn \in sns : ~(buf[sn].n < b + 0)
    BY <1>2
  <2>2. Passed(0, u)
    BY <1>1, <2>1
  <2> HIDE DEF Passed
  <2> QED
    BY <2>2
<1>4. ASSUME NEW i \in Nat, i \in S PROVE i + 1 \in S
  <2>1. SUFFICES ASSUME i + 1 <= M PROVE \E e \in Nat : Passed(i + 1, e)
    BY DEF S
  <2>2. i \in 0..(M - 1) /\ i + 1 \in 1..M /\ (i + 1) - 1 = i /\ i <= M
    BY <2>1, SnAssumption
  <2>3. PICK e \in Nat : Passed(i, e)
    BY <1>4, <2>2
  <2> DEFINE k == b + i
  <2>4. k \in Int /\ Plus(b % M, i) = k % M
    BY <2>2, PlusIs
  <2>5. f[i + 1] = IF k % M \in sns THEN ReassembleAndDeliver(f[i], buf[k % M]) ELSE f[i]
    <3> HIDE DEF k
    <3> QED
      BY <1>1, <2>2, <2>4 DEF Turn
  <2>6. ASSUME NEW sn \in sns
        PROVE  sn = k % M <=> buf[sn].n = k
    <3>1. buf[sn].n \in Nat /\ buf[sn].n % M = sn /\ u <= buf[sn].n /\ buf[sn].n < v
      BY <1>2
    <3> DEFINE n == buf[sn].n
    <3>2. n - b \in 0..(M - 1) /\ k - b = i /\ n \in Int
      BY <3>1, SnAssumption
    <3>3. Rel(n % M, b % M) = n - b /\ Rel(k % M, b % M) = k - b
      BY <2>2, <2>4, <3>2, RelIs
    <3>4. sn = k % M => n - b = k - b
      BY <3>1, <3>3
    <3> QED
      <4>1. n - b = k - b => n = k
        BY <2>4, <3>2
      <4>2. n = k => sn = k % M
        BY <3>1
      <4> QED
        BY <3>4, <4>1, <4>2
  <2>7. CASE k % M \in sns
    <3> DEFINE q == buf[k % M]
    <3>1. q \in Q /\ q.n = k /\ q.n \in Nat /\ u <= q.n /\ q.n < v
      BY <1>2, <2>6, <2>7
    <3>2. e <= q.n /\ q.n < e + M
      <4>1. e = u \/ e <= b + i
        BY <2>3
      <4>2. u <= e
        BY <2>3
      <4> HIDE DEF q
      <4> QED
        BY <3>1, <4>1, <4>2, SnAssumption
    <3>3. Reaches(f[i + 1], q.n + 1, t, Q, nx, c)
      <4>1. Reaches(f[i], e, t, Q, nx, c)
        BY <2>3
      <4>2. f[i + 1] = ReassembleAndDeliver(f[i], q)
        BY <2>5, <2>7
      <4> HIDE DEF q
      <4> QED
        BY <3>1, <3>2, <4>1, <4>2, Delivers
    <3>4. \A sn \in sns : buf[sn].n < b + (i + 1) => buf[sn].n < q.n + 1
      BY <1>2, <3>1
    <3>5. q.n + 1 <= b + (i + 1) /\ u <= q.n + 1 /\ (q.n + 1) - 1 = q.n /\ q.n + 1 \in Nat
      BY <3>1
    <3>6. \E sn \in sns : buf[sn].n = (q.n + 1) - 1
      BY <2>7, <3>5
    <3>7. Passed(i + 1, q.n + 1)
      BY <3>3, <3>4, <3>5, <3>6
    <3> HIDE DEF Passed
    <3> QED
      BY <3>5, <3>7
  <2>8. CASE k % M \notin sns
    <3>1. f[i + 1] = f[i]
      BY <2>5, <2>8
    <3>2. ASSUME NEW sn \in sns, buf[sn].n < b + (i + 1)
          PROVE  buf[sn].n < e
      <4>1. buf[sn].n # k
        BY <2>6, <2>8
      <4>2. buf[sn].n < b + i
        BY <1>2, <2>4, <3>2, <4>1
      <4> QED
        BY <2>3, <4>2
    <3>3. e <= b + i => e <= b + (i + 1)
      OBVIOUS
    <3>4. e = u \/ (e <= b + (i + 1) /\ \E sn \in sns : buf[sn].n = e - 1)
      BY <2>3, <3>3
    <3>5. Passed(i + 1, e)
      BY <2>3, <3>1, <3>2, <3>4
    <3> HIDE DEF Passed
    <3> QED
      BY <3>5
  <2> QED
    BY <2>7, <2>8
<1> HIDE DEF S
<1>5. Nat \subseteq S
  BY <1>3, <1>4, CountsUp
<1>6. PICK e \in Nat : Passed(M, e)
  BY <1>5, SnAssumption DEF S
<1>7. e = v
  <2>1. PICK sn \in sns : buf[sn].n = v - 1
    OBVIOUS
  <2>2. v - 1 < e /\ u <= v - 1
    <3>1. buf[sn].n < b + M
      BY <1>2, <2>1, SnAssumption
    <3>2. buf[sn].n < e /\ u <= buf[sn].n
      BY <1>6, <3>1
    <3> QED
      BY <2>1, <3>2
  <2>3. e # u => e - 1 < v
    <3>1. e # u => \E s \in sns : buf[s].n = e - 1
      BY <1>6
    <3> QED
      BY <3>1
  <2> QED
    BY <2>2, <2>3
<1> QED
  BY <1>1, <1>6, <1>7

-----------------------------------------------------------------------------
(* The window. *)

(* buf holds PDUs from number u to below h, each in its slot. *)
Fits(buf, u, h) ==
    /\ DOMAIN buf \subseteq SNs
    /\ \A s \in DOMAIN buf :
          /\ buf[s].n \in Nat /\ buf[s].n % M = s
          /\ u <= buf[s].n /\ buf[s].n < h

LEMMA InWindow ==
    ASSUME NEW h \in Nat, NEW n \in Int, h - W <= n, n < h - W + M
    PROVE  /\ Base(h % M) = (h - W) % M
           /\ Rel(n % M, Base(h % M)) = n - (h - W)
           /\ IsInsideReorderingWindow(n % M, h % M) <=> n < h
<1>1. W \in 0..(M - 1) /\ h \in Int /\ h - W \in Int
  BY SnAssumption
<1>2. Base(h % M) = (h - W) % M
  BY <1>1, MinusIs DEF Base
<1>3. n - (h - W) \in 0..(M - 1)
  BY <1>1, SnAssumption
<1>4. Rel(n % M, (h - W) % M) = n - (h - W)
  BY <1>1, <1>3, RelIs
<1>5. n - (h - W) < W <=> n < h
  BY <1>1
<1> QED
  BY <1>2, <1>4, <1>5 DEF IsInsideReorderingWindow

(* Between u and M beyond it the buffer has at most one PDU for an SN. *)
LEMMA OwnSlot ==
    ASSUME NEW buf, NEW u \in Nat, NEW h \in Nat, Fits(buf, u, h), h <= u + M,
           NEW n \in Nat, u <= n, n < u + M, n % M \in DOMAIN buf
    PROVE  buf[n % M].n = n /\ n < h
<1> DEFINE q == buf[n % M].n
<1>1. q \in Nat /\ q % M = n % M /\ u <= q /\ q < h
  BY DEF Fits
<1>2. q - u \in 0..(M - 1) /\ n - u \in 0..(M - 1) /\ q \in Int /\ n \in Int /\ u \in Int
  <2> HIDE DEF q
  <2> QED
    BY <1>1, SnAssumption
<1>3. Rel(q % M, u % M) = q - u /\ Rel(n % M, u % M) = n - u
  BY <1>2, RelIs
<1>4. q - u = n - u
  BY <1>1, <1>3
<1>5. q = n
  <2> HIDE DEF q
  <2> QED
    BY <1>1, <1>4
<1> QED
  BY <1>1, <1>5

LEMMA FirstMissingChosen ==
    ASSUME NEW buf, DOMAIN buf \subseteq SNs, NEW f \in SNs
    PROVE  \E k \in f..M : /\ k \notin DOMAIN buf /\ \A j \in f..(k - 1) : j \in DOMAIN buf
                           /\ FirstMissing(buf, f) = k % M
<1> DEFINE Absent == {k \in f..M : k \notin DOMAIN buf}
           Stops(k) == k \notin DOMAIN buf /\ \A j \in f..(k - 1) : j \in DOMAIN buf
           c == CHOOSE k \in f..M : Stops(k)
<1>1. f \in 0..(M - 1) /\ M \in Nat \ {0} /\ M \notin DOMAIN buf
  BY SnAssumption DEF SNs
<1>2. Absent # {} /\ Absent \subseteq Nat
  <2>1. M \in f..M
    BY <1>1
  <2> QED
    BY <1>1, <2>1
<1>3. PICK k0 \in Absent : \A i \in Absent : <<i, k0>> \notin OpToRel(<, Nat)
  BY <1>2, WFMin, NatLessThanWellFounded, Zenon
<1>4. \A i \in Absent : ~(i < k0)
  BY <1>2, <1>3, Zenon DEF OpToRel
<1>5. \A j \in f..(k0 - 1) : j \in DOMAIN buf
  BY <1>1, <1>4
<1>6. \E k \in f..M : Stops(k)
  BY <1>5
<1>7. c \in f..M /\ Stops(c)
  BY <1>6, Zenon
<1>8. FirstMissing(buf, f) = c % M
  BY Zenon DEF FirstMissing
<1> HIDE DEF c
<1> QED
  BY <1>7, <1>8

(* The search counts past the last SN: only there, at 0, may what it finds *)
(* be in the buffer.                                                       *)
LEMMA FirstMissingWraps ==
    ASSUME NEW buf, DOMAIN buf \subseteq SNs, NEW f \in SNs,
           FirstMissing(buf, f) \in DOMAIN buf
    PROVE  FirstMissing(buf, f) = 0
<1>1. PICK k \in f..M : k \notin DOMAIN buf /\ FirstMissing(buf, f) = k % M
  BY FirstMissingChosen
<1>2. CASE k = M
  <2>1. M % M = 0
    BY SnAssumption, SMT
  <2> QED
    BY <1>1, <1>2, <2>1
<1>3. CASE k # M
  <2>1. k \in 0..(M - 1)
    BY <1>3, SnAssumption DEF SNs
  <2> QED
    BY <1>1, <2>1, SmallMod
<1> QED
  BY <1>2, <1>3

LEMMA FirstMissingIs ==
    ASSUME NEW buf, NEW u \in Nat, NEW h \in Nat, Fits(buf, u, h), h <= u + M,
           u % M \in DOMAIN buf
    PROVE  \E v \in (u + 1)..h :
              /\ FirstMissing(buf, u % M) = v % M
              /\ \E s \in DOMAIN buf : buf[s].n = v - 1
<1> DEFINE f == u % M
<1>1. f \in 0..(M - 1) /\ M \in Nat \ {0}
  BY Divides, SnAssumption
<1> HIDE DEF f
<1>2. PICK k \in f..M : /\ k \notin DOMAIN buf /\ \A j \in f..(k - 1) : j \in DOMAIN buf
                        /\ FirstMissing(buf, f) = k % M
  <2>1. DOMAIN buf \subseteq SNs /\ f \in SNs
    BY <1>1 DEF Fits, SNs
  <2> QED
    BY <2>1, FirstMissingChosen
<1>3. k \in Nat /\ f < k
  <2>1. k # f
    BY <1>2 DEF f
  <2> QED
    BY <1>1, <2>1
<1> DEFINE d == k - f
           v == u + d
<1>4. d \in 1..M /\ v \in Nat /\ f + d = k /\ f + (d - 1) = k - 1 /\ v - 1 = u + (d - 1)
      /\ k - 1 \in 0..(M - 1) /\ k - 1 \in f..(k - 1)
  BY <1>1, <1>2, <1>3
<1> HIDE DEF d
<1>5. FirstMissing(buf, f) = v % M
  <2>1. u \in Int /\ d \in Int
    BY <1>4
  <2>2. (f + d) % M = (u + d) % M
    BY <2>1, ModOfSum DEF f
  <2> QED
    BY <1>2, <1>4, <2>2
<1>6. (v - 1) % M \in DOMAIN buf
  <2>1. u \in Int /\ d - 1 \in Int
    BY <1>4
  <2>2. (f + (d - 1)) % M = (u + (d - 1)) % M
    BY <2>1, ModOfSum DEF f
  <2>3. (k - 1) % M = k - 1
    BY <1>4, SmallMod
  <2>4. (v - 1) % M = k - 1
    BY <1>4, <2>2, <2>3
  <2> QED
    BY <1>2, <1>4, <2>4
<1>7. v - 1 \in Nat /\ u <= v - 1 /\ v - 1 < u + M
  BY <1>1, <1>4
<1> HIDE DEF v
<1>8. buf[(v - 1) % M].n = v - 1 /\ v - 1 < h
  BY <1>6, <1>7, OwnSlot
<1>9. v \in (u + 1)..h
  <2>1. v \in Nat
    BY <1>4 DEF v
  <2> QED
    BY <1>7, <1>8, <2>1
<1> QED
  BY <1>5, <1>6, <1>8, <1>9 DEF f

LEMMA FirstMissingFromUxIs ==
    ASSUME NEW u \in Nat, NEW x \in Nat, NEW h \in Nat, u < x, x <= h, h < u + M,
           Fits(rxBuffer, u, h), vrUx = x % M,
           \E s \in DOMAIN rxBuffer : rxBuffer[s].n = x - 1
    PROVE  \E v \in x..h : /\ FirstMissingFromUx = v % M
                           /\ FirstMissingFromUx \notin DOMAIN rxBuffer
                           /\ \E s \in DOMAIN rxBuffer : rxBuffer[s].n = v - 1
<1> DEFINE D == DOMAIN rxBuffer
           At(d) == Plus(vrUx, d)
           Absent == {d \in 0..(M - 1) : At(d) \notin D}
           z == h - x
<1>1. \A d \in 0..(M - 1) : At(d) = (x + d) % M
  BY PlusIs
<1>2. z \in 0..(M - 1) /\ x + z = h /\ M \in Nat \ {0}
  BY SnAssumption
<1>3. z \in Absent
  <2>1. At(z) = h % M
    BY <1>1, <1>2
  <2>2. h % M \notin D
    <3>1. h <= u + M /\ u <= h /\ ~(h < h)
      BY SnAssumption
    <3> QED
      BY <3>1, OwnSlot
  <2> QED
    BY <1>2, <2>1, <2>2
<1> HIDE DEF At
<1>4. PICK d0 \in Absent : \A i \in Absent : <<i, d0>> \notin OpToRel(<, Nat)
  <2>1. Absent \subseteq Nat /\ Absent # {}
    BY <1>2, <1>3
  <2> QED
    BY <2>1, WFMin, NatLessThanWellFounded, Zenon
<1>5. \A i \in Absent : ~(i < d0)
  <2>1. Absent \subseteq Nat
    BY <1>2
  <2> QED
    BY <1>4, <2>1, Zenon DEF OpToRel
<1>6. \A e \in 0..(d0 - 1) : At(e) \in D
  BY <1>2, <1>5
<1>7. PICK d \in 0..(M - 1) : /\ At(d) \notin D /\ \A e \in 0..(d - 1) : At(e) \in D
                              /\ FirstMissingFromUx = At(d)
  <2> DEFINE Stops(d) == At(d) \notin D /\ \A e \in 0..(d - 1) : At(e) \in D
             c == CHOOSE d \in 0..(M - 1) : Stops(d)
  <2>1. \E d \in 0..(M - 1) : Stops(d)
    BY <1>6
  <2>2. c \in 0..(M - 1) /\ Stops(c)
    BY <2>1, Zenon
  <2>3. FirstMissingFromUx = At(c)
    BY Zenon DEF FirstMissingFromUx, At
  <2> HIDE DEF c
  <2> QED
    BY <2>2, <2>3
<1>8. d <= z
  BY <1>2, <1>3, <1>7
<1> DEFINE v == x + d
<1>9. v \in x..h /\ FirstMissingFromUx = v % M
  BY <1>1, <1>2, <1>7, <1>8
<1>10. \E s \in D : rxBuffer[s].n = v - 1
  <2>1. CASE d = 0
    BY <2>1
  <2>2. CASE d # 0
    <3>1. d - 1 \in 0..(d - 1) /\ d - 1 \in 0..(M - 1) /\ x + (d - 1) = v - 1
      BY <1>2, <2>2
    <3>2. (v - 1) % M \in D
      BY <1>1, <1>7, <3>1
    <3>3. v \in Nat /\ x < v /\ v <= h
      BY <1>9, <2>2
    <3> HIDE DEF v, D
    <3>4. v - 1 \in Nat /\ u <= v - 1 /\ v - 1 < u + M /\ h <= u + M
      BY <1>2, <3>3
    <3>5. rxBuffer[(v - 1) % M].n = v - 1
      BY <3>2, <3>4, OwnSlot DEF D
    <3> QED
      BY <3>2, <3>5
  <2> QED
    BY <2>1, <2>2
<1>11. FirstMissingFromUx \notin D
  BY <1>7
<1> HIDE DEF v
<1> QED
  BY <1>9, <1>10, <1>11

(* What VR(UR) frees when it moves on from u to v, by the window below h. *)
FreesUpTo(buf, u, v, h) ==
    SnInterval(buf, u % M, v % M, Base(h % M)) = {s \in DOMAIN buf : buf[s].n < v}

LEMMA FreedAre ==
    ASSUME NEW buf, NEW u \in Nat, NEW v \in Nat, NEW g \in Nat, Fits(buf, u, g),
           NEW h \in Nat, h - W <= u, u <= v, v < h - W + M, g <= h - W + M
    PROVE  FreesUpTo(buf, u, v, h)
<1>1. u \in Int /\ v \in Int /\ h - W <= v /\ u < h - W + M /\ W \in Int /\ M \in Int
  BY SnAssumption
<1>2. Rel(u % M, Base(h % M)) = u - (h - W) /\ Rel(v % M, Base(h % M)) = v - (h - W)
  BY <1>1, InWindow
<1>3. ASSUME NEW s \in DOMAIN buf
      PROVE  /\ Rel(u % M, Base(h % M)) <= Rel(s, Base(h % M))
             /\ Rel(s, Base(h % M)) < Rel(v % M, Base(h % M)) <=> buf[s].n < v
  <2> DEFINE n == buf[s].n
  <2>1. n \in Nat /\ n % M = s /\ u <= n /\ n < g
    BY DEF Fits
  <2> HIDE DEF n
  <2>2. n \in Int /\ h - W <= n /\ n < h - W + M
    BY <1>1, <2>1
  <2>3. Rel(n % M, Base(h % M)) = n - (h - W)
    BY <2>2, InWindow
  <2>4. u - (h - W) <= n - (h - W) /\ (n - (h - W) < v - (h - W) <=> n < v)
    BY <1>1, <2>1
  <2> QED
    BY <1>2, <2>1, <2>3, <2>4 DEF n
<1> QED
  BY <1>3 DEF SnInterval, FreesUpTo

-----------------------------------------------------------------------------
(* The invariant. *)

LEMMA Numbers ==
    ASSUME TypeOK, Timely, NEW u \in 0..heard, NEW x \in 0..heard, Windowed(u, x)
    PROVE  /\ next \in Nat /\ heard \in Nat /\ heard <= next /\ u \in Nat /\ x \in Nat
           /\ run \in 0..MaxRun /\ Gap \in Nat /\ MaxRun \in Nat /\ Lag \in Nat
           /\ W \in Nat /\ M \in Nat /\ W < M
           /\ next <= u + W /\ next < heard - W + M /\ Fits(rxBuffer, u, heard)
<1>1. /\ next \in Nat /\ heard \in 0..next /\ run \in 0..MaxRun /\ timer \in BOOLEAN
      /\ \A p \in air : p \in Pdu
      /\ DOMAIN rxBuffer \subseteq SNs
      /\ \A sn \in DOMAIN rxBuffer : rxBuffer[sn] \in Pdu /\ rxBuffer[sn].n % M = sn
  BY DEF TypeOK
<1>2. /\ next <= heard + Gap /\ (u < heard => timer)
      /\ timer => next + MaxRun - run <= u + W
      /\ \A s \in DOMAIN rxBuffer : u <= rxBuffer[s].n /\ rxBuffer[s].n < heard
  BY DEF Windowed, Held
<1>3. /\ Gap \in Nat /\ MaxRun \in Nat /\ Lag \in Nat /\ W \in Nat /\ M \in Nat /\ W < M
      /\ Gap + 2 * MaxRun <= W /\ Gap + W < M
  BY SnAssumption, BoundAssumption DEF Timely
<1>4. next <= u + W /\ next < heard - W + M
  BY <1>1, <1>2, <1>3
<1>5. Fits(rxBuffer, u, heard)
  BY <1>1, <1>2 DEF Fits, Pdu
<1> QED
  BY <1>1, <1>3, <1>4, <1>5

LEMMA StreamOfFewer ==
    ASSUME NEW Q, NEW R, R \subseteq Q, NEW nx, NEW c, Stream(Q, nx, c)
    PROVE  Stream(R, nx, c)
  BY Zenon DEF Stream

LEMMA ReachesOfFewer ==
    ASSUME NEW Q, NEW R, R \subseteq Q, NEW nx, NEW c, NEW r, NEW e, NEW t,
           Reaches(r, e, t, Q, nx, c)
    PROVE  Reaches(r, e, t, R, nx, c)
<1>1. ASSUME Continued(r.keep, e, Q, nx, c) PROVE Continued(r.keep, e, R, nx, c)
  BY <1>1 DEF Continued
<1> QED
  BY <1>1 DEF Reaches

(* What is given to PDCP in a step is forgotten before the next one. *)
LEMMA Forgets ==
    ASSUME NEW Q, NEW nx, NEW c, NEW r, NEW e, NEW t, Reaches(r, e, t, Q, nx, c),
           NEW r1, r1 = [expected |-> r.expected, state |-> r.state, keep |-> r.keep,
                         sdus |-> r.sdus, up |-> <<>>]
    PROVE  Reaches(r1, e, LastOf(r.up, t), Q, nx, c)
<1>1. /\ r1.expected = r.expected /\ r1.state = r.state /\ r1.keep = r.keep
      /\ r1.sdus = r.sdus /\ r1.up = <<>>
  OBVIOUS
<1>2. r1 \in ReassemblerType
  BY DEF Reaches, ReassemblerType
<1>3. LastOf(r1.up, LastOf(r.up, t)) = LastOf(r.up, t)
  BY <1>1 DEF LastOf
<1>4. Handed(r1.up, LastOf(r.up, t))
  BY <1>1 DEF Handed
<1> HIDE DEF LastOf
<1> QED
  BY <1>1, <1>2, <1>3, <1>4 DEF Reaches

Reassembles ==
    /\ expected \in SNs /\ state \in {"WAITING_S0_FULL", "WAITING_SI_SF"}
    /\ keepS0 \in Seq(Piece) /\ (state = "WAITING_SI_SF" <=> keepS0 # <<>>)
    /\ sdusBuffer = <<>>
    /\ top \in Nat /\ up \in Seq(Seq(Piece))

LEMMA Delivered ==
    ASSUME NEW Q, NEW nx, NEW c, NEW r, NEW e,
           Reaches(r, e, LastOf(up, top), Q, nx, c), LastOf(up, top) \in Nat, Deliver(r)
    PROVE  /\ Reassembles' /\ Handed(up, top)'
           /\ Reaches(Reassembler', e, LastOf(up, top)', Q, nx, c)
<1>1. top' = LastOf(up, top) /\ up' = r.up /\ expected' = r.expected /\ state' = r.state
      /\ keepS0' = r.keep /\ sdusBuffer' = r.sdus
  BY DEF Deliver, LastOf
<1>2. LastOf(up, top)' = LastOf(r.up, LastOf(up, top))
  BY <1>1 DEF LastOf
<1>3. Reassembler' = [expected |-> r.expected, state |-> r.state, keep |-> r.keep,
                      sdus |-> r.sdus, up |-> <<>>]
  BY <1>1 DEF Reassembler
<1>4. Reaches(Reassembler', e, LastOf(up, top)', Q, nx, c)
  BY <1>2, <1>3, Forgets
<1>5. Handed(up, top)'
  BY <1>1 DEF Reaches, Handed
<1>6. Reassembles'
  <2>1. r \in ReassemblerType /\ (r.state = "WAITING_SI_SF" <=> r.keep # <<>>)
    BY DEF Reaches
  <2>2. /\ r.expected \in SNs /\ r.state \in {"WAITING_S0_FULL", "WAITING_SI_SF"}
        /\ r.keep \in Seq(Piece) /\ r.sdus = <<>> /\ r.up \in Seq(Seq(Piece))
    BY <2>1 DEF ReassemblerType
  <2> QED
    BY <1>1, <2>1, <2>2 DEF Reassembles
<1> QED
  BY <1>4, <1>5, <1>6

LEMMA InitHolds == ASSUME Timely, Init PROVE IInv
<1>1. /\ next = 0 /\ cur = [sdu |-> 1, seg |-> 1] /\ air = {} /\ heard = 0 /\ run = 0
      /\ vrUr = 0 /\ vrUx = 0 /\ vrUh = 0 /\ timer = FALSE
      /\ rxBuffer = <<>>
      /\ expected = 0 /\ state = "WAITING_S0_FULL" /\ keepS0 = <<>> /\ sdusBuffer = <<>>
      /\ top = 0 /\ up = <<>>
  BY DEF Init
<1>2. DOMAIN rxBuffer = {} /\ Held = {} /\ Pdus = {}
  BY <1>1 DEF Held, Pdus
<1>3. 0 \in SNs /\ 0 % M = 0 /\ 0 \in 0..MaxRun
  <2>1. 0 \in 0..(M - 1)
    BY SnAssumption
  <2> QED
    BY <2>1, SmallMod, BoundAssumption DEF SNs
<1>4. TypeOK
  <2>1. cur \in [sdu : Nat, seg : 1..MaxSegs]
    BY <1>1, BoundAssumption
  <2>2. keepS0 \in Seq(Piece) /\ up \in Seq(Seq(Piece))
    BY <1>1
  <2>3. 0 \in 0..0
    OBVIOUS
  <2> QED
    BY <1>1, <1>2, <1>3, <2>1, <2>2, <2>3 DEF TypeOK
<1>5. Handed(up, top) /\ LastOf(up, top) = 0
  BY <1>1 DEF Handed, LastOf
<1>6. Stream(Pdus, next, cur)
  BY <1>2 DEF Stream
<1>7. Windowed(0, 0)
  BY <1>1, <1>2, <1>3, BoundAssumption DEF Windowed
<1>8. Reaches(Reassembler, 0, LastOf(up, top), Pdus, next, cur)
  <2>1. Reassembler = [expected |-> 0, state |-> "WAITING_S0_FULL", keep |-> <<>>,
                       sdus |-> <<>>, up |-> <<>>]
    BY <1>1 DEF Reassembler
  <2>2. Reassembler \in ReassemblerType
    BY <1>3, <2>1 DEF ReassemblerType
  <2>3. LastOf(Reassembler.up, 0) = 0 /\ Handed(Reassembler.up, 0)
    BY <2>1 DEF LastOf, Handed
  <2> QED
    BY <1>1, <1>2, <1>3, <1>5, <2>1, <2>2, <2>3 DEF Reaches
<1>9. 0 \in 0..heard
  BY <1>1
<1> QED
  BY <1>4, <1>5, <1>6, <1>7, <1>8, <1>9 DEF IInv

(* t-Reordering once VR(UR) stands for v and VR(UH) for h. *)
LEMMA Timed ==
    ASSUME TypeOK, Timely, NEW u \in 0..heard, NEW x \in 0..heard, Windowed(u, x),
           NEW v \in Nat, NEW h \in Nat, u <= v, v <= h, heard <= h, h <= next,
           NEW running \in BOOLEAN, running => timer /\ v < x, ~running => ~timer \/ x <= v,
           ReorderingTimer(running, v % M, h % M)
    PROVE  /\ timer' \in BOOLEAN /\ vrUx' \in SNs /\ run' \in 0..MaxRun
           /\ timer' <=> v < h
           /\ timer' => LET y == IF running THEN x ELSE h IN
                        /\ vrUx' = y % M /\ v < y /\ y <= h
                        /\ next - run' <= y + Gap
                        /\ next + MaxRun - run' <= v + W
<1>1. /\ next \in Nat /\ heard \in Nat /\ heard <= next /\ u \in Nat /\ x \in Nat /\ x <= heard
      /\ run \in 0..MaxRun /\ Gap \in Nat /\ MaxRun \in Nat
      /\ W \in Nat /\ M \in Nat /\ W < M /\ next <= u + W /\ Gap + 2 * MaxRun <= W
  BY Numbers DEF Timely
<1>2. /\ next <= heard + Gap /\ (u < heard => timer)
      /\ timer => /\ vrUx = x % M /\ u < x /\ x <= heard
                  /\ next - run <= x + Gap /\ next + MaxRun - run <= u + W
  BY DEF Windowed
<1>3. /\ vrUx \in SNs /\ timer \in BOOLEAN
  BY DEF TypeOK
<1>4. h - W <= v /\ v < h - W + M /\ h - W <= h /\ h < h - W + M /\ v \in Int /\ h \in Int
  BY <1>1
<1>5. Rel(v % M, Base(h % M)) = v - (h - W) /\ Rel(h % M, Base(h % M)) = h - (h - W)
  BY <1>4, InWindow
<1>6. Rel(v % M, Base(h % M)) < Rel(h % M, Base(h % M)) <=> v < h
  BY <1>1, <1>4, <1>5
<1>7. /\ timer' = (running \/ (~running /\ v < h))
      /\ vrUx' = IF ~running /\ v < h THEN h % M ELSE vrUx
      /\ run' = IF running THEN run ELSE 0
  BY <1>6 DEF ReorderingTimer
<1>8. h % M \in SNs
  BY <1>4, SnIs
<1>9. CASE running
  <2>1. timer' = TRUE /\ vrUx' = vrUx /\ run' = run /\ v < x /\ timer
    BY <1>7, <1>9
  <2>2. v < h /\ next + MaxRun - run <= v + W
    BY <1>1, <1>2, <2>1
  <2> QED
    BY <1>1, <1>2, <1>3, <1>9, <2>1, <2>2
<1>10. CASE ~running /\ v < h
  <2>1. timer' = TRUE /\ vrUx' = h % M /\ run' = 0
    BY <1>7, <1>10
  <2>2. next <= h + Gap
    BY <1>1, <1>2
  <2>3. next + MaxRun <= v + W
    <3>1. CASE ~timer
      BY <1>1, <1>2, <3>1
    <3>2. CASE timer
      <4>1. x <= v /\ next - run <= x + Gap
        BY <1>2, <1>10, <3>2
      <4> QED
        BY <1>1, <4>1
    <3> QED
      BY <3>1, <3>2
  <2> QED
    BY <1>1, <1>8, <1>10, <2>1, <2>2, <2>3
<1>11. CASE ~running /\ ~(v < h)
  <2>1. timer' = FALSE /\ vrUx' = vrUx /\ run' = 0
    BY <1>7, <1>11
  <2>2. ~timer' /\ timer' \in BOOLEAN /\ (timer' <=> v < h)
    BY <1>11, <2>1
  <2>3. vrUx' \in SNs
    BY <1>3, <2>1
  <2>4. run' \in 0..MaxRun
    BY <1>1, <2>1
  <2> QED
    BY <2>2, <2>3, <2>4
<1> QED
  BY <1>9, <1>10, <1>11

(* A step of the window: VR(UR) moves from u to v, VR(UH) to h, and what   *)
(* buf holds below v has been reassembled.                                 *)
LEMMA Moved ==
    ASSUME IInv, Timely, NEW u \in 0..heard, NEW x \in 0..heard, Windowed(u, x),
           NEW v \in Nat, NEW h \in Nat, u <= v, v <= h, heard <= h, h <= next,
           NEW buf, Fits(buf, u, h), \A s \in DOMAIN buf : buf[s] \in Pdus,
           u < h => \E s \in DOMAIN buf : buf[s].n = h - 1,
           timer => \E s \in DOMAIN buf : buf[s].n = x - 1,
           NEW running \in BOOLEAN, running => timer /\ v < x, ~running => ~timer \/ x <= v,
           ReorderingTimer(running, v % M, h % M),
           NEW r, Deliver(r), Reaches(r, v, LastOf(up, top), Pdus, next, cur),
           LastOf(up, top) \in Nat,
           next' = next, cur' = cur, air' \subseteq air, heard' = h,
           vrUh' = h % M, vrUr' = v % M,
           rxBuffer' = Without(buf, {s \in DOMAIN buf : buf[s].n < v})
    PROVE  IInv'
<1>1. TypeOK /\ Stream(Pdus, next, cur)
  BY DEF IInv
<1>2. /\ next \in Nat /\ heard \in Nat /\ u \in Nat /\ x \in Nat /\ x <= heard
  BY <1>1, Numbers
<1> DEFINE y == IF running THEN x ELSE h
<1>3. /\ timer' \in BOOLEAN /\ vrUx' \in SNs /\ run' \in 0..MaxRun
      /\ timer' <=> v < h
      /\ timer' => /\ vrUx' = y % M /\ v < y /\ y <= h
                   /\ next - run' <= y + Gap
                   /\ next + MaxRun - run' <= v + W
  BY <1>1, Timed
<1>4. /\ Reassembles' /\ Handed(up, top)'
      /\ Reaches(Reassembler', v, LastOf(up, top)', Pdus, next, cur)
  BY Delivered
<1>5. /\ DOMAIN rxBuffer' = {s \in DOMAIN buf : ~(buf[s].n < v)}
      /\ \A s \in DOMAIN rxBuffer' : rxBuffer'[s] = buf[s]
  BY DEF Without
<1>6. /\ DOMAIN buf \subseteq SNs
      /\ \A s \in DOMAIN buf : buf[s].n \in Nat /\ buf[s].n % M = s /\ buf[s].n < h
  BY DEF Fits
<1>7. \A p \in Held' : p \in Pdus /\ p.n \in Nat /\ v <= p.n /\ p.n < h
  <2>1. ASSUME NEW s \in DOMAIN rxBuffer'
        PROVE  LET p == rxBuffer'[s] IN p \in Pdus /\ p.n \in Nat /\ v <= p.n /\ p.n < h
    <3>1. s \in DOMAIN buf /\ ~(buf[s].n < v) /\ rxBuffer'[s] = buf[s]
      BY <1>5
    <3> QED
      BY <1>6, <3>1
  <2> QED
    BY <2>1 DEF Held
<1>8. Pdus' \subseteq Pdus
  BY <1>7 DEF Pdus
<1>9. ASSUME NEW k \in Nat, v <= k, \E s \in DOMAIN buf : buf[s].n = k
      PROVE  \E p \in Held' : p.n = k
  <2>1. PICK s \in DOMAIN buf : buf[s].n = k
    BY <1>9
  <2>2. s \in DOMAIN rxBuffer' /\ rxBuffer'[s] = buf[s]
    BY <1>5, <1>9, <2>1
  <2>3. rxBuffer'[s] \in Held'
    BY <2>2 DEF Held
  <2> QED
    BY <2>1, <2>2, <2>3
<1>10. Stream(Pdus', next', cur')
  BY <1>1, <1>8, StreamOfFewer
<1>11. Reaches(Reassembler', v, LastOf(up, top)', Pdus', next', cur')
  BY <1>4, <1>8, ReachesOfFewer
<1>12. TypeOK'
  <2>1. /\ cur \in [sdu : Nat, seg : 1..MaxSegs]
        /\ \A p \in air : p \in Pdu /\ p.n < next
    BY <1>1 DEF TypeOK
  <2>2. next' \in Nat /\ heard' \in 0..next'
    BY <1>2
  <2>3. vrUr' \in SNs /\ vrUh' \in SNs
    BY SnIs
  <2>4. \A p \in Pdus : p \in Pdu
    BY <1>1 DEF Stream
  <2>5. DOMAIN rxBuffer' \subseteq SNs
    BY <1>5, <1>6
  <2>6. \A s \in DOMAIN rxBuffer' : rxBuffer'[s] \in Pdu /\ rxBuffer'[s].n % M = s
    BY <1>5, <1>6, <2>4
  <2> QED
    BY <1>3, <1>4, <2>1, <2>2, <2>3, <2>5, <2>6 DEF TypeOK, Reassembles
<1>13. Windowed(v, y)'
  <2>1. next <= h + Gap /\ \A p \in air : next <= p.n + Lag + 1
    <3>1. next <= heard + Gap /\ Gap \in Nat /\ \A p \in air : next <= p.n + Lag + 1
      BY <1>1, Numbers DEF Windowed
    <3> QED
      BY <1>2, <3>1
  <2>2. v < h => \E p \in Held' : p.n = h - 1
    <3> SUFFICES ASSUME v < h PROVE \E p \in Held' : p.n = h - 1
      OBVIOUS
    <3>1. u < h /\ h - 1 \in Nat /\ v <= h - 1
      BY <1>2
    <3> QED
      BY <1>9, <3>1
  <2>3. timer' => \E p \in Held' : p.n = y - 1
    <3> SUFFICES ASSUME timer' PROVE \E p \in Held' : p.n = y - 1
      OBVIOUS
    <3>1. CASE running
      <4>1. v < x /\ timer /\ y = x
        BY <3>1
      <4>2. x - 1 \in Nat /\ v <= x - 1
        BY <1>2, <4>1
      <4> QED
        BY <1>9, <4>1, <4>2
    <3>2. CASE ~running
      BY <1>3, <2>2, <3>2
    <3> QED
      BY <3>1, <3>2
  <2> HIDE DEF y
  <2>4. /\ vrUh' = heard' % M /\ vrUr' = v % M
        /\ next' <= heard' + Gap
        /\ \A p \in air' : next' <= p.n + Lag + 1
    BY <2>1
  <2>5. \A p \in Held' : v <= p.n /\ p.n < heard'
    BY <1>7
  <2>6. v < heard' => timer' /\ \E p \in Held' : p.n = heard' - 1
    BY <1>3, <2>2
  <2>7. timer' => /\ vrUx' = y % M /\ v < y /\ y <= heard'
                  /\ \E p \in Held' : p.n = y - 1
                  /\ next' - run' <= y + Gap
                  /\ next' + MaxRun - run' <= v + W
    BY <1>3, <2>3
  <2> QED
    BY <2>4, <2>5, <2>6, <2>7 DEF Windowed
<1>14. v \in 0..heard' /\ y \in 0..heard'
  BY <1>2
<1> HIDE DEF y
<1> QED
  BY <1>4, <1>10, <1>11, <1>12, <1>13, <1>14 DEF IInv

LEMMA BuildKeeps ==
    ASSUME IInv, Timely, NEW k \in 1..MaxPieces, NEW fin \in BOOLEAN, BuildPdu(k, fin)
    PROVE  IInv'
<1> DEFINE P == Pieces(k, fin)
           p0 == [n |-> next, pieces |-> P]
<1>1. PICK u \in 0..heard, x \in 0..heard :
         Windowed(u, x) /\ Reaches(Reassembler, u, LastOf(up, top), Pdus, next, cur)
  BY DEF IInv
<1>2. TypeOK /\ Stream(Pdus, next, cur) /\ Handed(up, top)
  BY DEF IInv
<1>3. /\ next \in Nat /\ heard \in Nat /\ heard <= next /\ u \in Nat /\ run \in 0..MaxRun
      /\ Gap \in Nat /\ MaxRun \in Nat /\ Lag \in Nat
  BY <1>1, <1>2, Numbers
<1>4. /\ \A p \in air : next - p.n <= Lag
      /\ next - heard < Gap /\ (timer => run < MaxRun)
      /\ ~fin => P[k].seg < MaxSegs
      /\ air' = air \cup {p0} /\ next' = next + 1
      /\ cur' = IF fin THEN [sdu |-> P[k].sdu + 1, seg |-> 1]
                ELSE [sdu |-> P[k].sdu, seg |-> P[k].seg + 1]
      /\ run' = IF timer THEN run + 1 ELSE 0
      /\ UNCHANGED <<heard, window, rxBuffer, reassembly, top, up>>
  BY DEF BuildPdu, MayBuild
<1>5. UNCHANGED <<heard, vrUr, vrUx, vrUh, timer, rxBuffer, expected, state, keepS0,
                  sdusBuffer, top, up>>
  BY <1>4 DEF window, reassembly
<1>6. k \in Nat /\ 1 <= k /\ MaxSegs \in Nat \ {0} /\ cur.sdu \in Nat /\ cur.seg \in 1..MaxSegs
      /\ cur = [sdu |-> cur.sdu, seg |-> cur.seg]
  BY <1>2, BoundAssumption DEF TypeOK
(* The PDU continues the stream. *)
<1>7. /\ P \in Seq(Piece) /\ Len(P) = k
      /\ \A i \in 1..k : P[i] = [sdu |-> cur.sdu + i - 1, seg |-> IF i = 1 THEN cur.seg ELSE 1,
                                last |-> i < k \/ fin]
  <2>1. \A i \in 1..k : [sdu |-> cur.sdu + i - 1, seg |-> IF i = 1 THEN cur.seg ELSE 1,
                        last |-> i < k \/ fin] \in Piece
    <3> SUFFICES ASSUME NEW i \in 1..k
                 PROVE  [sdu |-> cur.sdu + i - 1, seg |-> IF i = 1 THEN cur.seg ELSE 1,
                         last |-> i < k \/ fin] \in Piece
      OBVIOUS
    <3>1. cur.sdu + i - 1 \in Nat
      BY <1>6
    <3>2. (IF i = 1 THEN cur.seg ELSE 1) \in 1..MaxSegs
      BY <1>6
    <3>3. (i < k \/ fin) \in BOOLEAN
      OBVIOUS
    <3> QED
      BY <3>1, <3>2, <3>3 DEF Piece
  <2>2. P = [i \in 1..k |-> [sdu |-> cur.sdu + i - 1, seg |-> IF i = 1 THEN cur.seg ELSE 1,
                            last |-> i < k \/ fin]]
    BY Zenon DEF Pieces
  <2> HIDE DEF P
  <2> QED
    BY <1>6, <2>1, <2>2
<1> HIDE DEF P
<1>8. 1 \in 1..k /\ k \in 1..k
  BY <1>6
<1>9. Start(p0) = cur
  <2>1. P[1].sdu = cur.sdu + 1 - 1 /\ P[1].seg = cur.seg
    BY <1>7, <1>8
  <2>2. cur.sdu + 1 - 1 = cur.sdu
    BY <1>6
  <2> QED
    BY <1>6, <2>1, <2>2 DEF Start
<1>10. After(p0) = cur'
  <2>1. Last(P) = P[k]
    BY <1>7 DEF Last
  <2>2. P[k].last = fin
    BY <1>7, <1>8
  <2> QED
    BY <1>4, <2>1, <2>2 DEF After
<1>11. p0 \in Pdu /\ FramedPdu(p0) /\ p0.n = next /\ p0.n < next'
  <2>1. p0 \in Pdu
    BY <1>3, <1>7 DEF Pdu
  <2>2. P # <<>>
    BY <1>6, <1>7
  <2>3. ASSUME NEW i \in 1..k
        PROVE  /\ P[i].sdu = P[1].sdu + i - 1 /\ (i > 1 => P[i].seg = 1) /\ (i < k => P[i].last)
    <3>1. P[i].sdu = cur.sdu + i - 1 /\ P[1].sdu = cur.sdu + 1 - 1
      BY <1>7, <1>8
    <3>2. P[1].sdu = cur.sdu
      BY <1>6, <3>1
    <3>3. P[i].seg = (IF i = 1 THEN cur.seg ELSE 1) /\ P[i].last = (i < k \/ fin)
      BY <1>7
    <3>4. i > 1 => i # 1
      OBVIOUS
    <3> QED
      BY <3>1, <3>2, <3>3, <3>4
  <2> QED
    BY <1>3, <1>4, <1>7, <2>1, <2>2, <2>3 DEF FramedPdu
<1>12. cur' \in [sdu : Nat, seg : 1..MaxSegs] /\ cur.sdu <= cur'.sdu
  <2>1. P[k].sdu = cur.sdu + k - 1 /\ P[k].seg = (IF k = 1 THEN cur.seg ELSE 1)
    BY <1>7, <1>8
  <2>2. P[k].sdu \in Nat /\ cur.sdu <= P[k].sdu
    BY <1>6, <2>1
  <2>3. P[k].seg \in 1..MaxSegs
    BY <1>6, <2>1
  <2>4. CASE fin
    <3>1. cur' = [sdu |-> P[k].sdu + 1, seg |-> 1] /\ 1 \in 1..MaxSegs
      BY <1>4, <1>6, <2>4
    <3>2. P[k].sdu + 1 \in Nat /\ cur.sdu <= P[k].sdu + 1
      BY <1>6, <2>2
    <3> QED
      BY <3>1, <3>2
  <2>5. CASE ~fin
    <3>1. cur' = [sdu |-> P[k].sdu, seg |-> P[k].seg + 1] /\ P[k].seg < MaxSegs
      BY <1>4, <2>5
    <3>2. P[k].seg + 1 \in 1..MaxSegs
      BY <1>6, <2>3, <3>1
    <3> QED
      BY <2>2, <3>1, <3>2
  <2> QED
    BY <2>4, <2>5
<1> HIDE DEF p0
<1>13. Held' = Held /\ Pdus' = Pdus \cup {p0}
  BY <1>4, <1>5 DEF Held, Pdus
<1>14. ASSUME NEW p \in Pdus
       PROVE  /\ p \in Pdu /\ p.n \in Nat /\ p.n < next /\ FramedPdu(p) /\ After(p).sdu <= cur.sdu
              /\ p.n + 1 = next => After(p) = cur
              /\ After(p).sdu \in Nat
  <2>1. /\ p \in Pdu /\ p.n < next /\ FramedPdu(p) /\ After(p).sdu <= cur.sdu
        /\ (p.n + 1 = next => After(p) = cur)
    BY <1>2 DEF Stream
  <2>2. p.pieces \in Seq(Piece) /\ p.pieces # <<>> /\ p.n \in Nat
    BY <2>1 DEF Pdu, FramedPdu
  <2>3. Last(p.pieces) \in Piece
    BY <2>2, Sequences
  <2>4. After(p).sdu \in Nat
    BY <2>3 DEF After, Piece
  <2> QED
    BY <2>1, <2>2, <2>4
<1>15. Stream(Pdus', next', cur')
  <2>1. ASSUME NEW p \in Pdus'
        PROVE  /\ p \in Pdu /\ p.n < next' /\ FramedPdu(p) /\ After(p).sdu <= cur'.sdu
               /\ p.n + 1 = next' => After(p) = cur'
    <3>1. CASE p = p0
      <4>1. cur'.sdu \in Nat
        BY <1>12
      <4> QED
        BY <1>10, <1>11, <3>1, <4>1
    <3>2. CASE p \in Pdus
      <4>1. cur'.sdu \in Nat
        BY <1>12
      <4>2. p.n < next' /\ ~(p.n + 1 = next')
        BY <1>3, <1>4, <1>14, <3>2
      <4>3. After(p).sdu <= cur'.sdu
        BY <1>6, <1>12, <1>14, <3>2, <4>1
      <4> QED
        BY <1>14, <3>2, <4>2, <4>3
    <3> QED
      BY <1>13, <3>1, <3>2
  <2>2. ASSUME NEW p \in Pdus', NEW q \in Pdus'
        PROVE  /\ p.n = q.n => p = q
               /\ p.n < q.n => After(p).sdu <= Start(q).sdu
               /\ q.n = p.n + 1 => Start(q) = After(p)
    <3>1. CASE p \in Pdus /\ q \in Pdus
      BY <1>2, <3>1 DEF Stream
    <3>2. CASE p \in Pdus /\ q = p0
      <4>1. p.n \in Nat /\ p.n < next /\ q.n = next
        BY <1>11, <1>14, <3>2
      <4>2. p.n # q.n /\ (q.n = p.n + 1 => p.n + 1 = next)
        BY <4>1
      <4> QED
        BY <1>9, <1>14, <3>2, <4>2
    <3>3. CASE p = p0 /\ q \in Pdus
      <4>1. q.n \in Nat /\ q.n < next /\ p.n = next
        BY <1>11, <1>14, <3>3
      <4>2. p.n # q.n /\ ~(p.n < q.n) /\ q.n # p.n + 1
        BY <1>3, <4>1
      <4> QED
        BY <4>2
    <3>4. CASE p = p0 /\ q = p0
      <4>1. p.n = next /\ q.n = next
        BY <1>11, <3>4
      <4>2. ~(p.n < q.n) /\ q.n # p.n + 1
        BY <1>3, <4>1
      <4> QED
        BY <3>4, <4>2
    <3> QED
      BY <1>13, <3>1, <3>2, <3>3, <3>4
  <2> QED
    BY <2>1, <2>2 DEF Stream
<1>16. Reaches(Reassembler', u, LastOf(up, top)', Pdus', next', cur')
  <2> DEFINE r == Reassembler
             t == LastOf(up, top)
             g == LastOf(r.up, t)
  <2>1. Reassembler' = r /\ LastOf(up, top)' = t
    BY <1>5 DEF Reassembler, LastOf
  <2> HIDE DEF r, t, g
  <2>2. /\ r \in ReassemblerType /\ r.expected = u % M
        /\ (r.state = "WAITING_SI_SF" <=> r.keep # <<>>)
        /\ r.keep # <<>> =>
              /\ Fragment(r.keep) /\ ~Last(r.keep).last
              /\ g < r.keep[1].sdu
              /\ Continued(r.keep, u, Pdus, next, cur)
        /\ g \in Nat /\ g < cur.sdu
        /\ \A q \in Pdus : q.n >= u => g < Start(q).sdu
        /\ Handed(r.up, t)
    BY <1>1 DEF Reaches, r, t, g
  <2>3. Continued(r.keep, u, Pdus, next, cur) => Continued(r.keep, u, Pdus', next', cur')
    <3>1. u # next'
      BY <1>3, <1>4
    <3>2. p0.n = u => u = next
      BY <1>11
    <3> QED
      BY <1>9, <1>13, <3>1, <3>2 DEF Continued
  <2>4. g < cur'.sdu
    <3>1. cur'.sdu \in Nat
      BY <1>12
    <3> QED
      BY <1>6, <1>12, <2>2, <3>1
  <2>5. \A q \in Pdus' : q.n >= u => g < Start(q).sdu
    BY <1>9, <1>13, <2>2
  <2>6. Reaches(r, u, t, Pdus', next', cur')
    BY <2>2, <2>3, <2>4, <2>5 DEF Reaches, g
  <2> QED
    BY <2>1, <2>6 DEF r, t
<1>17. Windowed(u, x)'
  <2>1. /\ vrUh = heard % M /\ vrUr = u % M /\ next <= heard + Gap
        /\ \A p \in Held : u <= p.n /\ p.n < heard
        /\ u < heard => timer /\ \E p \in Held : p.n = heard - 1
        /\ timer => /\ vrUx = x % M /\ u < x /\ x <= heard
                    /\ \E p \in Held : p.n = x - 1
                    /\ next - run <= x + Gap /\ next + MaxRun - run <= u + W
    BY <1>1 DEF Windowed
  <2>2. next' <= heard' + Gap
    BY <1>3, <1>4, <1>5
  <2>3. \A p \in air' : next' <= p.n + Lag + 1
    <3> SUFFICES ASSUME NEW p \in air' PROVE next' <= p.n + Lag + 1
      OBVIOUS
    <3>1. CASE p = p0
      BY <1>3, <1>4, <1>11, <3>1
    <3>2. CASE p \in air
      <4>1. p.n \in Nat
        BY <1>14, <3>2 DEF Pdus
      <4>2. next - p.n <= Lag
        BY <1>4, <3>2
      <4> QED
        BY <1>3, <1>4, <4>1, <4>2
    <3> QED
      BY <1>4, <3>1, <3>2
  <2>4. timer => next' - run' = next - run /\ next' + MaxRun - run' = next + MaxRun - run
    <3> SUFFICES ASSUME timer
                 PROVE  next' - run' = next - run /\ next' + MaxRun - run' = next + MaxRun - run
      OBVIOUS
    <3>1. run' = run + 1 /\ next' = next + 1
      BY <1>4
    <3> QED
      BY ONLY <1>3, <3>1
  <2> QED
    BY <1>5, <1>13, <2>1, <2>2, <2>3, <2>4 DEF Windowed
<1>18. TypeOK'
  <2>1. run' \in 0..MaxRun
    <3>1. CASE timer
      BY <1>3, <1>4, <3>1
    <3>2. CASE ~timer
      BY <1>3, <1>4, <3>2
    <3> QED
      BY <3>1, <3>2
  <2>2. next' \in Nat /\ heard' \in 0..next'
    BY <1>3, <1>4, <1>5
  <2>3. \A p \in air' : p \in Pdu /\ p.n < next'
    BY <1>13, <1>15 DEF Stream, Pdus
  <2> QED
    BY <1>2, <1>5, <1>12, <2>1, <2>2, <2>3 DEF TypeOK
<1>19. u \in 0..heard' /\ x \in 0..heard' /\ Handed(up, top)'
  BY <1>2, <1>5 DEF Handed
<1> QED
  BY <1>15, <1>16, <1>17, <1>18, <1>19 DEF IInv

LEMMA LoseKeeps ==
    ASSUME IInv, NEW p \in air, Lose(p)
    PROVE  IInv'
<1>1. PICK u \in 0..heard, x \in 0..heard :
         Windowed(u, x) /\ Reaches(Reassembler, u, LastOf(up, top), Pdus, next, cur)
  BY DEF IInv
<1>2. TypeOK /\ Stream(Pdus, next, cur) /\ Handed(up, top)
  BY DEF IInv
<1>3. /\ air' \subseteq air
      /\ UNCHANGED <<next, cur, heard, run, vrUr, vrUx, vrUh, timer, rxBuffer, expected,
                     state, keepS0, sdusBuffer, top, up>>
  BY DEF Lose, window, reassembly
<1>4. Held' = Held /\ Pdus' \subseteq Pdus /\ Reassembler' = Reassembler
      /\ LastOf(up, top)' = LastOf(up, top)
  BY <1>3 DEF Held, Pdus, Reassembler, LastOf
<1>5. Stream(Pdus', next', cur') /\ Reaches(Reassembler', u, LastOf(up, top)', Pdus', next', cur')
  BY <1>1, <1>2, <1>3, <1>4, StreamOfFewer, ReachesOfFewer
<1>6. Windowed(u, x)'
  BY <1>1, <1>3, <1>4 DEF Windowed
<1>7. TypeOK'
  BY <1>2, <1>3 DEF TypeOK
<1>8. u \in 0..heard' /\ x \in 0..heard' /\ Handed(up, top)'
  BY <1>2, <1>3 DEF Handed
<1> QED
  BY <1>5, <1>6, <1>7, <1>8 DEF IInv

(* PDU n, under way, by the window: it is in it, or ahead of it. *)
LEMMA UnderWay ==
    ASSUME IInv, Timely, NEW u \in 0..heard, NEW x \in 0..heard, Windowed(u, x), NEW p \in air
    PROVE  /\ p \in Pdu /\ p.n \in Nat /\ p.n < next
           /\ heard - W <= p.n /\ p.n < heard - W + M
           /\ IsInsideReorderingWindow(p.n % M, vrUh) <=> p.n < heard
           /\ Rel(p.n % M, Base(vrUh)) = p.n - (heard - W)
           /\ Rel(vrUr, Base(vrUh)) = u - (heard - W)
           /\ Base(vrUh) = (heard - W) % M
<1>1. TypeOK
  BY DEF IInv
<1>2. /\ next \in Nat /\ heard \in Nat /\ heard <= next /\ u \in Nat /\ Lag \in Nat
      /\ W \in Nat /\ M \in Nat /\ W < M
      /\ next <= u + W /\ next < heard - W + M
  BY <1>1, Numbers
<1>3. p \in Pdu /\ p.n \in Nat /\ p.n < next
  BY <1>1 DEF TypeOK, Pdu
<1>4. next <= p.n + Lag + 1 /\ Lag < W /\ vrUh = heard % M /\ vrUr = u % M
  BY DEF Windowed, Timely
<1>5. heard - W <= p.n /\ p.n < heard - W + M /\ heard - W <= u /\ u < heard - W + M
      /\ p.n \in Int /\ u \in Int
  BY <1>2, <1>3, <1>4
<1>6. /\ IsInsideReorderingWindow(p.n % M, heard % M) <=> p.n < heard
      /\ Rel(p.n % M, Base(heard % M)) = p.n - (heard - W)
      /\ Rel(u % M, Base(heard % M)) = u - (heard - W)
      /\ Base(heard % M) = (heard - W) % M
  BY <1>2, <1>5, InWindow
<1> QED
  BY <1>3, <1>4, <1>5, <1>6

(* A PDU is discarded when it, or what followed it, has been there. *)
LEMMA DiscardedWhen ==
    ASSUME IInv, Timely, NEW u \in 0..heard, NEW x \in 0..heard, Windowed(u, x), NEW p \in air
    PROVE  /\ Discards(p.n % M) => p.n < heard
           /\ ~Discards(p.n % M) => u <= p.n
<1> DEFINE n == p.n
           rn == Rel(n % M, Base(vrUh))
           ru == Rel(vrUr, Base(vrUh))
           b == heard - W
<1>1. /\ n \in Nat /\ b \in Int /\ u \in Nat /\ heard \in Nat /\ u <= heard /\ W \in Nat
      /\ rn = n - b /\ ru = u - b
  <2>1. TypeOK
    BY DEF IInv
  <2> QED
    BY <2>1, UnderWay, Numbers
<1>2. Discards(n % M) => rn < W \/ rn < ru
  BY Zenon DEF Discards
<1>3. ~Discards(n % M) => ~(rn < ru)
  BY Zenon DEF Discards
<1> HIDE DEF n, rn, ru
<1>4. rn < W \/ rn < ru => n < heard
  BY <1>1
<1>5. ~(rn < ru) => u <= n
  BY <1>1
<1> QED
  BY <1>2, <1>3, <1>4, <1>5 DEF n

LEMMA DiscardKeeps ==
    ASSUME IInv, Timely, NEW p \in air, Discards(p.n % M), Deliver(Reassembler),
           air' = air \ {p}, heard' = IF p.n < heard THEN heard ELSE p.n + 1,
           UNCHANGED <<next, cur, run, window, rxBuffer>>
    PROVE  IInv'
<1>1. PICK u \in 0..heard, x \in 0..heard :
         Windowed(u, x) /\ Reaches(Reassembler, u, LastOf(up, top), Pdus, next, cur)
  BY DEF IInv
<1>2. TypeOK /\ Stream(Pdus, next, cur)
  BY DEF IInv
<1>3. /\ air' \subseteq air
      /\ UNCHANGED <<next, cur, heard, run, vrUr, vrUx, vrUh, timer, rxBuffer>>
  <2>1. p.n < heard
    BY <1>1, DiscardedWhen
  <2> QED
    BY <2>1 DEF window
<1>4. LastOf(up, top) \in Nat
  <2>1. LastOf(Reassembler.up, LastOf(up, top)) \in Nat
    BY <1>1 DEF Reaches
  <2>2. Reassembler.up = <<>>
    BY DEF Reassembler
  <2> HIDE DEF Reassembler
  <2>3. LastOf(Reassembler.up, LastOf(up, top)) = LastOf(up, top)
    BY <2>2, Zenon DEF LastOf
  <2> QED
    BY <2>1, <2>3
<1>5. /\ Reassembles' /\ Handed(up, top)'
      /\ Reaches(Reassembler', u, LastOf(up, top)', Pdus, next, cur)
  BY <1>1, <1>4, Delivered
<1>6. Held' = Held /\ Pdus' \subseteq Pdus
  BY <1>3 DEF Held, Pdus
<1>7. Stream(Pdus', next', cur') /\ Reaches(Reassembler', u, LastOf(up, top)', Pdus', next', cur')
  BY <1>2, <1>3, <1>5, <1>6, StreamOfFewer, ReachesOfFewer
<1>8. Windowed(u, x)'
  BY <1>1, <1>3, <1>6 DEF Windowed
<1>9. TypeOK'
  BY <1>2, <1>3, <1>5 DEF TypeOK, Reassembles
<1>10. u \in 0..heard' /\ x \in 0..heard'
  BY <1>3
<1> QED
  BY <1>5, <1>7, <1>8, <1>9, <1>10 DEF IInv

(* The buffer with PDU p in its slot. *)
LEMMA PlacedIs ==
    ASSUME IInv, Timely, NEW u \in 0..heard, NEW x \in 0..heard, Windowed(u, x),
           NEW p \in air, u <= p.n, NEW h \in Nat, heard <= h, p.n < h,
           NEW buf, buf = [s \in DOMAIN rxBuffer \cup {p.n % M} |->
                             IF s = p.n % M THEN p ELSE rxBuffer[s]]
    PROVE  /\ Fits(buf, u, h) /\ \A s \in DOMAIN buf : buf[s] \in Pdus
           /\ \E s \in DOMAIN buf : buf[s].n = p.n
           /\ \A q \in Held : \E s \in DOMAIN buf : buf[s].n = q.n
<1> DEFINE n == p.n
<1>1. /\ n \in Nat /\ u \in Nat /\ heard \in Nat /\ n < u + M /\ heard <= u + M
      /\ Fits(rxBuffer, u, heard)
  <2>1. TypeOK
    BY DEF IInv
  <2>2. p.n \in Nat /\ p.n < next
    BY UnderWay
  <2>3. /\ u \in Nat /\ heard \in Nat /\ heard <= next /\ next <= u + W /\ W \in Nat
        /\ M \in Nat /\ W < M /\ next \in Nat /\ Fits(rxBuffer, u, heard)
    BY <2>1, Numbers
  <2> QED
    BY <2>2, <2>3
<1>2. n % M \in SNs
  BY <1>1, SnIs
<1>3. /\ DOMAIN buf = DOMAIN rxBuffer \cup {n % M} /\ buf[n % M] = p
      /\ \A s \in DOMAIN rxBuffer : s # n % M => buf[s] = rxBuffer[s]
  OBVIOUS
<1>4. /\ DOMAIN rxBuffer \subseteq SNs
      /\ \A s \in DOMAIN rxBuffer :
            /\ rxBuffer[s].n \in Nat /\ rxBuffer[s].n % M = s
            /\ u <= rxBuffer[s].n /\ rxBuffer[s].n < heard
  BY <1>1 DEF Fits
<1>5. Fits(buf, u, h)
  <2>1. ASSUME NEW s \in DOMAIN buf
        PROVE  buf[s].n \in Nat /\ buf[s].n % M = s /\ u <= buf[s].n /\ buf[s].n < h
    <3>1. CASE s = n % M
      BY <1>1, <1>3, <3>1
    <3>2. CASE s # n % M
      <4>1. s \in DOMAIN rxBuffer /\ buf[s] = rxBuffer[s]
        BY <1>3, <3>2
      <4>2. rxBuffer[s].n \in Nat /\ rxBuffer[s].n % M = s /\ u <= rxBuffer[s].n
            /\ rxBuffer[s].n < heard
        BY <1>4, <4>1
      <4> QED
        BY <1>1, <4>1, <4>2
    <3> QED
      BY <3>1, <3>2
  <2>2. DOMAIN buf \subseteq SNs
    BY <1>2, <1>3, <1>4
  <2> QED
    BY <2>1, <2>2 DEF Fits
<1>6. \A s \in DOMAIN buf : buf[s] \in Pdus
  BY <1>3 DEF Pdus, Held
<1>7. \E s \in DOMAIN buf : buf[s].n = p.n
  BY <1>3
<1>8. ASSUME NEW q \in Held
      PROVE  \E s \in DOMAIN buf : buf[s].n = q.n
  <2>1. PICK s \in DOMAIN rxBuffer : q = rxBuffer[s]
    BY DEF Held
  <2>2. CASE s = n % M
    <3>1. n % M \in DOMAIN rxBuffer
      BY <2>2
    <3>2. rxBuffer[n % M].n = n
      BY <1>1, <3>1, OwnSlot
    <3> QED
      BY <1>7, <2>1, <2>2, <3>2
  <2>3. CASE s # n % M
    <3>1. s \in DOMAIN buf /\ buf[s] = rxBuffer[s]
      BY <1>3, <2>3
    <3> QED
      BY <2>1, <3>1
  <2> QED
    BY <2>2, <2>3
<1> QED
  BY <1>5, <1>6, <1>7, <1>8

(* Nothing is behind the window, and VR(UR) is in it. *)
LEMMA NothingBehind ==
    ASSUME NEW buf, NEW u \in Nat, NEW h \in Nat, Fits(buf, u, h), h - W <= u
    PROVE  OutsideWindow(buf, h % M) = {}
<1>1. ASSUME NEW s \in DOMAIN buf PROVE IsInsideReorderingWindow(s, h % M)
  <2> DEFINE n == buf[s].n
  <2>1. n \in Nat /\ n % M = s /\ u <= n /\ n < h
    BY DEF Fits
  <2>2. n \in Int /\ h - W <= n /\ n < h - W + M
    <3> HIDE DEF n
    <3> QED
      BY <2>1, SnAssumption
  <2> HIDE DEF n
  <2>3. IsInsideReorderingWindow(n % M, h % M)
    BY <2>1, <2>2, InWindow
  <2> QED
    BY <2>1, <2>3
<1>2. DOMAIN buf \subseteq Nat
  BY DEF Fits, SNs
<1>3. \A s \in DOMAIN buf : s <= s
  BY <1>2
<1> QED
  BY <1>1, <1>3, Zenon DEF OutsideWindow

LEMMA StillRunsIs ==
    ASSUME IInv, Timely, NEW u \in 0..heard, NEW x \in 0..heard, Windowed(u, x),
           NEW v \in Nat, NEW h \in Nat, u <= v, v <= h, heard <= h, h <= next
    PROVE  /\ StillRuns(v % M, h % M) \in BOOLEAN
           /\ StillRuns(v % M, h % M) <=> timer /\ v < x
<1>1. /\ next \in Nat /\ heard \in Nat /\ u \in Nat /\ x \in Nat /\ x <= heard
      /\ W \in Nat /\ M \in Nat /\ W < M /\ next <= u + W
  <2>1. TypeOK
    BY DEF IInv
  <2> QED
    BY <2>1, Numbers
<1>2. timer => vrUx = x % M /\ u < x
  BY DEF Windowed
<1>3. CASE ~timer
  BY <1>3 DEF StillRuns
<1>4. CASE timer
  <2>1. h - W <= v /\ v < h - W + M /\ h - W <= x /\ x < h - W + M /\ x <= h
        /\ v \in Int /\ x \in Int /\ u < x
    BY <1>1, <1>2, <1>4
  <2>2. /\ Rel(v % M, Base(h % M)) = v - (h - W)
        /\ Rel(x % M, Base(h % M)) = x - (h - W)
        /\ IsInsideReorderingWindow(x % M, h % M) <=> x < h
    BY <2>1, InWindow
  <2>3. v - (h - W) < x - (h - W) <=> v < x
    BY <1>1, <2>1
  <2>4. IsInsideReorderingWindow(x % M, h % M) \/ x % M = h % M
    <3>1. x < h \/ x = h
      BY <1>1, <2>1
    <3> QED
      BY <2>2, <3>1
  <2>5. vrUx = x % M
    BY <1>2, <1>4
  <2> QED
    BY <1>4, <2>2, <2>3, <2>4, <2>5 DEF StillRuns
<1> QED
  BY <1>3, <1>4, Zenon DEF TypeOK

LEMMA ReceiveKeeps ==
    ASSUME IInv, Timely, NEW p \in air, DoReceivePdu(p),
           air' = air \ {p}, heard' = IF p.n < heard THEN heard ELSE p.n + 1,
           UNCHANGED <<next, cur>>
    PROVE  IInv'
<1>1. PICK u \in 0..heard, x \in 0..heard :
         Windowed(u, x) /\ Reaches(Reassembler, u, LastOf(up, top), Pdus, next, cur)
  BY DEF IInv
<1>2. TypeOK /\ Stream(Pdus, next, cur)
  BY DEF IInv
<1> DEFINE sn == p.n % M
           placed == [s \in DOMAIN rxBuffer \cup {sn} |-> IF s = sn THEN p ELSE rxBuffer[s]]
           ahead == ~IsInsideReorderingWindow(sn, vrUh)
           uh == IF ahead THEN Plus(sn, 1) ELSE vrUh
           old == IF ahead THEN OutsideWindow(placed, uh) ELSE {}
           buf == Without(placed, old)
           slides == ahead /\ ~IsInsideReorderingWindow(vrUr, uh)
           ur == IF slides THEN Base(uh) ELSE vrUr
           newUr == IF ur \in DOMAIN buf THEN FirstMissing(buf, ur) ELSE ur
           base == IF slides THEN Base(uh) ELSE Base(vrUh)
           ready == IF ur \in DOMAIN buf THEN SnInterval(buf, ur, newUr, base) ELSE {}
           r2 == Reassembled(Reassembled(Reassembler, placed, old, 0), buf, ready, base)
           running == StillRuns(newUr, uh)
           h == IF p.n < heard THEN heard ELSE p.n + 1
<1>3. /\ ~Discards(sn)
      /\ vrUh' = uh /\ vrUr' = newUr
      /\ rxBuffer' = Without(buf, ready)
      /\ Deliver(r2)
      /\ ReorderingTimer(running, newUr, uh)
  BY Zenon DEF DoReceivePdu
<1>4. /\ next \in Nat /\ heard \in Nat /\ heard <= next /\ u \in Nat /\ x \in Nat
      /\ u <= heard /\ x <= heard
      /\ W \in Nat /\ M \in Nat /\ W < M /\ next <= u + W /\ next < heard - W + M
  BY <1>1, <1>2, Numbers
<1>5. /\ p.n \in Nat /\ p.n < next /\ u <= p.n
      /\ ahead <=> ~(p.n < heard)
      /\ Base(vrUh) = (heard - W) % M
  <2>1. u <= p.n
    BY <1>1, <1>3, DiscardedWhen
  <2> QED
    BY <1>1, <2>1, UnderWay
<1>6. h \in Nat /\ heard <= h /\ p.n < h /\ h <= next /\ u <= h /\ (ahead => h = p.n + 1 /\ u < h)
  BY <1>4, <1>5
<1>7. uh = h % M
  <2>1. CASE ahead
    <3>1. 1 \in 0..(M - 1) /\ p.n \in Int
      BY <1>5, SnAssumption
    <3> QED
      BY <1>6, <2>1, <3>1, PlusIs
  <2>2. CASE ~ahead
    <3>1. h = heard /\ vrUh = heard % M
      BY <1>1, <1>5, <2>2 DEF Windowed
    <3> QED
      BY <2>2, <3>1
  <2> QED
    BY <2>1, <2>2
<1>8. /\ Fits(placed, u, h) /\ \A s \in DOMAIN placed : placed[s] \in Pdus
      /\ \E s \in DOMAIN placed : placed[s].n = p.n
      /\ \A q \in Held : \E s \in DOMAIN placed : placed[s].n = q.n
  <2> HIDE DEF h
  <2> QED
    BY <1>1, <1>5, <1>6, PlacedIs
<1> HIDE DEF h, ahead
<1>9. h - W <= u
  BY <1>4, <1>6
<1>10. old = {}
  <2>1. OutsideWindow(placed, h % M) = {}
    <3> HIDE DEF placed
    <3> QED
      BY <1>4, <1>6, <1>8, <1>9, NothingBehind
  <2> QED
    BY <1>7, <2>1
<1> HIDE DEF old, uh
<1>11. buf = placed
  <2>1. buf = [s \in DOMAIN placed |-> placed[s]]
    BY <1>10 DEF Without
  <2> QED
    BY <2>1
<1>12. ~slides
  <2> SUFFICES ASSUME ahead PROVE IsInsideReorderingWindow(vrUr, uh)
    OBVIOUS
  <2>1. u < h /\ vrUr = u % M /\ u \in Int /\ u < h - W + M
    BY <1>1, <1>4, <1>6 DEF Windowed
  <2> QED
    BY <1>6, <1>7, <1>9, <2>1, InWindow
<1> HIDE DEF buf, placed, slides
<1>13. ur = u % M /\ base = (heard - W) % M /\ base = Base(heard % M)
  <2>1. vrUr = u % M /\ vrUh = heard % M
    BY <1>1 DEF Windowed
  <2> QED
    BY <1>5, <1>12, <2>1
<1> HIDE DEF ur, base
<1>14. r2 = Reassembled(Reassembler, buf, ready, base)
  <2>1. Reassembled(Reassembler, placed, old, 0) = Reassembler
    BY <1>10, NothingPassed
  <2> QED
    BY <2>1
<1>15. \E v \in u..h : /\ newUr = v % M /\ ready = {s \in DOMAIN buf : buf[s].n < v}
                       /\ Reaches(r2, v, LastOf(up, top), Pdus, next, cur)
  <2>1. Fits(buf, u, h) /\ \A s \in DOMAIN buf : buf[s] \in Pdus
    BY <1>8, <1>11
  <2>2. CASE ur \in DOMAIN buf
    <3>1. h <= u + M
      BY <1>4, <1>6
    <3>2. PICK v \in (u + 1)..h : /\ FirstMissing(buf, u % M) = v % M
                                  /\ \E s \in DOMAIN buf : buf[s].n = v - 1
      BY <1>4, <1>6, <1>13, <2>1, <2>2, <3>1, FirstMissingIs
    <3>3. newUr = v % M /\ ready = SnInterval(buf, u % M, v % M, Base(heard % M))
      BY <1>13, <2>2, <3>2
    <3>4. /\ v \in Nat /\ u <= v /\ heard - W <= u /\ v < heard - W + M /\ h <= heard - W + M
          /\ v <= (heard - W) + M /\ heard - W \in Int
      BY <1>4, <1>6, <3>2
    <3>5. ready = {s \in DOMAIN buf : buf[s].n < v}
      <4> HIDE DEF ready, newUr, r2, running
      <4>1. SnInterval(buf, u % M, v % M, Base(heard % M)) = {s \in DOMAIN buf : buf[s].n < v}
        <5>1. u \in Nat /\ h \in Nat /\ heard \in Nat
          BY <1>4, <1>6
        <5>2. Fits(buf, u, h)
          BY <2>1
        <5>3. /\ v \in Nat /\ heard - W <= u /\ u <= v /\ v < heard - W + M
              /\ h <= heard - W + M
          BY <3>4
        <5>4. FreesUpTo(buf, u, v, heard)
          BY ONLY <5>1, <5>2, <5>3, FreedAre
        <5> QED
          BY <5>4 DEF FreesUpTo
      <4> QED
        BY <3>3, <4>1
    <3> HIDE DEF ready
    <3>6. /\ \A s \in ready : buf[s] \in Pdus /\ buf[s].n % M = s /\ u <= buf[s].n /\ buf[s].n < v
          /\ \E s \in ready : buf[s].n = v - 1
      <4>1. \A s \in DOMAIN buf : buf[s].n % M = s /\ u <= buf[s].n
        BY <2>1 DEF Fits
      <4>2. v - 1 < v
        BY <3>4
      <4> QED
        BY <2>1, <3>2, <3>5, <4>1, <4>2
    <3>7. cur.sdu \in Nat
      BY <1>2 DEF TypeOK
    <3>8. Reaches(r2, v, LastOf(up, top), Pdus, next, cur)
      <4> HIDE DEF r2
      <4> QED
        BY <1>1, <1>2, <1>4, <1>13, <1>14, <3>4, <3>6, <3>7, Passes
    <3> QED
      BY <1>4, <3>2, <3>3, <3>5, <3>8
  <2>3. CASE ur \notin DOMAIN buf
    <3>1. newUr = u % M /\ ready = {}
      BY <1>13, <2>3
    <3>2. {s \in DOMAIN buf : buf[s].n < u} = {}
      <4>1. \A s \in DOMAIN buf : buf[s].n \in Nat /\ u <= buf[s].n
        BY <2>1 DEF Fits
      <4> QED
        BY <1>4, <4>1
    <3>3. r2 = Reassembler
      BY <1>14, <3>1, NothingPassed
    <3>4. u \in u..h
      BY <1>4, <1>6
    <3> HIDE DEF r2, newUr, ready
    <3> QED
      BY <1>1, <3>1, <3>2, <3>3, <3>4
  <2> QED
    BY <2>2, <2>3
<1> HIDE DEF r2, newUr, ready
<1>16. PICK v \in u..h : /\ newUr = v % M /\ ready = {s \in DOMAIN buf : buf[s].n < v}
                         /\ Reaches(r2, v, LastOf(up, top), Pdus, next, cur)
  BY <1>15
<1>17. v \in Nat /\ u <= v /\ v <= h
  BY <1>4, <1>6, <1>16
<1>18. /\ running \in BOOLEAN /\ (running => timer /\ v < x) /\ (~running => ~timer \/ x <= v)
       /\ ReorderingTimer(running, v % M, h % M)
  <2>1. running \in BOOLEAN /\ (running <=> timer /\ v < x)
    BY <1>1, <1>6, <1>7, <1>16, <1>17, StillRunsIs
  <2>2. ReorderingTimer(running, v % M, h % M)
    BY <1>3, <1>7, <1>16
  <2> HIDE DEF running
  <2> QED
    BY <1>4, <1>17, <2>1, <2>2
<1>19. LastOf(up, top) \in Nat
  <2>1. LastOf(Reassembler.up, LastOf(up, top)) \in Nat
    BY <1>1 DEF Reaches
  <2>2. Reassembler.up = <<>>
    BY DEF Reassembler
  <2> HIDE DEF Reassembler
  <2>3. LastOf(Reassembler.up, LastOf(up, top)) = LastOf(up, top)
    BY <2>2, Zenon DEF LastOf
  <2> QED
    BY <2>1, <2>3
<1>20. u < h => \E s \in DOMAIN buf : buf[s].n = h - 1
  <2>1. CASE p.n < heard
    <3>1. h = heard
      BY <2>1 DEF h
    <3>2. u < h => \E q \in Held : q.n = h - 1
      BY <1>1, <3>1 DEF Windowed
    <3> QED
      BY <1>8, <1>11, <3>2
  <2>2. CASE ~(p.n < heard)
    <3>1. h - 1 = p.n
      BY <1>5, <2>2 DEF h
    <3> QED
      BY <1>8, <1>11, <3>1
  <2> QED
    BY <2>1, <2>2
<1>21. timer => \E s \in DOMAIN buf : buf[s].n = x - 1
  <2>1. timer => \E q \in Held : q.n = x - 1
    BY <1>1 DEF Windowed
  <2> QED
    BY <1>8, <1>11, <2>1
<1>22. /\ next' = next /\ cur' = cur /\ air' \subseteq air /\ heard' = h
       /\ vrUh' = h % M /\ vrUr' = v % M
       /\ rxBuffer' = Without(buf, {s \in DOMAIN buf : buf[s].n < v})
  BY <1>3, <1>7, <1>16 DEF h
<1>23. Fits(buf, u, h) /\ \A s \in DOMAIN buf : buf[s] \in Pdus
  BY <1>8, <1>11
<1> HIDE DEF running
<1> QED
  BY <1>1, <1>3, <1>6, <1>16, <1>17, <1>18, <1>19, <1>20, <1>21, <1>22, <1>23, Moved

LEMMA ExpiryKeeps ==
    ASSUME IInv, Timely, ExpireReorderingTimer
    PROVE  IInv'
<1>1. PICK u \in 0..heard, x \in 0..heard :
         Windowed(u, x) /\ Reaches(Reassembler, u, LastOf(up, top), Pdus, next, cur)
  BY DEF IInv
<1>2. TypeOK /\ Stream(Pdus, next, cur)
  BY DEF IInv
<1> DEFINE newUr == FirstMissingFromUx
           ready == SnInterval(rxBuffer, vrUr, newUr, Base(vrUh))
           r2 == Reassembled(Reassembler, rxBuffer, ready, Base(vrUh))
<1>3. /\ timer
      /\ vrUr' = newUr /\ rxBuffer' = Without(rxBuffer, ready)
      /\ Deliver(r2)
      /\ ReorderingTimer(FALSE, newUr, vrUh)
      /\ UNCHANGED <<next, cur, air, heard, vrUh>>
  BY Zenon DEF ExpireReorderingTimer
<1> HIDE DEF newUr, ready, r2
<1>4. /\ next \in Nat /\ heard \in Nat /\ heard <= next /\ u \in Nat /\ x \in Nat
      /\ u <= heard /\ x <= heard
      /\ W \in Nat /\ M \in Nat /\ W < M /\ next <= u + W /\ next < heard - W + M
      /\ Fits(rxBuffer, u, heard)
  BY <1>1, <1>2, Numbers
<1>5. /\ vrUh = heard % M /\ vrUr = u % M /\ vrUx = x % M /\ u < x
      /\ \E q \in Held : q.n = x - 1
      /\ u < heard => \E q \in Held : q.n = heard - 1
  BY <1>1, <1>3 DEF Windowed
<1>6. \A q \in Held : \E s \in DOMAIN rxBuffer : rxBuffer[s].n = q.n
  BY DEF Held
<1>7. PICK v \in x..heard : /\ newUr = v % M
                            /\ \E s \in DOMAIN rxBuffer : rxBuffer[s].n = v - 1
  <2>1. heard < u + M
    BY <1>4
  <2>2. \E s \in DOMAIN rxBuffer : rxBuffer[s].n = x - 1
    BY <1>5, <1>6
  <2>3. \E v \in x..heard : /\ FirstMissingFromUx = v % M
                            /\ FirstMissingFromUx \notin DOMAIN rxBuffer
                            /\ \E s \in DOMAIN rxBuffer : rxBuffer[s].n = v - 1
    BY <1>4, <1>5, <2>1, <2>2, FirstMissingFromUxIs
  <2> QED
    BY <2>3 DEF newUr
<1>8. /\ v \in Nat /\ u < v /\ x <= v /\ v <= heard /\ heard - W <= u /\ v < heard - W + M
      /\ heard <= heard - W + M /\ v <= (heard - W) + M /\ heard - W \in Int
      /\ heard - W <= heard /\ heard < heard - W + M /\ u < heard
  BY <1>4, <1>5, <1>7
<1>9. ready = {s \in DOMAIN rxBuffer : rxBuffer[s].n < v}
  <2>1. u <= v
    BY <1>4, <1>8
  <2>2. FreesUpTo(rxBuffer, u, v, heard)
    BY <1>4, <1>8, <2>1, FreedAre
  <2> QED
    BY <1>5, <1>7, <2>2 DEF ready, FreesUpTo
<1>10. Base(vrUh) = (heard - W) % M
  BY <1>4, <1>5, <1>8, InWindow
<1>11. \A s \in DOMAIN rxBuffer : rxBuffer[s] \in Pdus
  BY DEF Pdus, Held
<1>12. Reaches(r2, v, LastOf(up, top), Pdus, next, cur)
  <2>1. /\ \A s \in ready : /\ rxBuffer[s] \in Pdus /\ rxBuffer[s].n % M = s
                            /\ u <= rxBuffer[s].n /\ rxBuffer[s].n < v
        /\ \E s \in ready : rxBuffer[s].n = v - 1
    <3>1. \A s \in DOMAIN rxBuffer : rxBuffer[s].n % M = s /\ u <= rxBuffer[s].n
      BY <1>4 DEF Fits
    <3>2. v - 1 < v
      BY <1>8
    <3> QED
      BY <1>7, <1>9, <1>11, <3>1, <3>2
  <2>2. cur.sdu \in Nat
    BY <1>2 DEF TypeOK
  <2> QED
    BY <1>1, <1>2, <1>4, <1>8, <1>10, <2>1, <2>2, Passes DEF r2
<1>13. LastOf(up, top) \in Nat
  <2>1. LastOf(Reassembler.up, LastOf(up, top)) \in Nat
    BY <1>1 DEF Reaches
  <2>2. Reassembler.up = <<>>
    BY DEF Reassembler
  <2> HIDE DEF Reassembler
  <2>3. LastOf(Reassembler.up, LastOf(up, top)) = LastOf(up, top)
    BY <2>2, Zenon DEF LastOf
  <2> QED
    BY <2>1, <2>3
<1>14. /\ u < heard => \E s \in DOMAIN rxBuffer : rxBuffer[s].n = heard - 1
       /\ timer => \E s \in DOMAIN rxBuffer : rxBuffer[s].n = x - 1
  BY <1>5, <1>6
<1>15. /\ next' = next /\ cur' = cur /\ air' \subseteq air /\ heard' = heard
       /\ vrUh' = heard % M /\ vrUr' = v % M
       /\ rxBuffer' = Without(rxBuffer, {s \in DOMAIN rxBuffer : rxBuffer[s].n < v})
       /\ ReorderingTimer(FALSE, v % M, heard % M)
  BY <1>3, <1>5, <1>7, <1>9
<1>16. u <= v /\ heard <= heard
  BY <1>4, <1>8
<1> QED
  BY <1>1, <1>3, <1>4, <1>8, <1>11, <1>12, <1>13, <1>14, <1>15, <1>16, Moved

LEMMA StepKeeps ==
    ASSUME Timely, IInv, [Next]_vars
    PROVE  IInv'
<1>1. ASSUME NEW k \in 1..MaxPieces, NEW fin \in BOOLEAN, BuildPdu(k, fin)
      PROVE  IInv'
  BY <1>1, BuildKeeps
<1>2. ASSUME NEW p \in air, Lose(p)
      PROVE  IInv'
  BY <1>2, LoseKeeps
<1>3. ASSUME NEW p \in air, Receive(p)
      PROVE  IInv'
  <2>1. /\ air' = air \ {p}
        /\ heard' = IF p.n < heard THEN heard ELSE p.n + 1
        /\ UNCHANGED <<next, cur>>
        /\ \/ DoReceivePdu(p)
           \/ Discards(p.n % M) /\ Deliver(Reassembler) /\ UNCHANGED <<run, window, rxBuffer>>
    BY <1>3, Zenon DEF Receive
  <2>2. CASE DoReceivePdu(p)
    BY <2>1, <2>2, ReceiveKeeps
  <2>3. CASE Discards(p.n % M) /\ Deliver(Reassembler) /\ UNCHANGED <<run, window, rxBuffer>>
    <3>1. UNCHANGED <<next, cur, run, window, rxBuffer>>
      BY <2>1, <2>3
    <3> QED
      BY <2>1, <2>3, <3>1, DiscardKeeps
  <2> QED
    BY <2>1, <2>2, <2>3
<1>4. ASSUME ExpireReorderingTimer
      PROVE  IInv'
  BY <1>4, ExpiryKeeps
<1>5. ASSUME UNCHANGED vars
      PROVE  IInv'
  <2>1. UNCHANGED <<next, cur, air, heard, run, vrUr, vrUx, vrUh, timer, rxBuffer, expected,
                    state, keepS0, sdusBuffer, top, up>>
    BY <1>5 DEF vars, linkVars, window, reassembly
  <2>2. Held' = Held /\ Pdus' = Pdus /\ Reassembler' = Reassembler
        /\ LastOf(up, top)' = LastOf(up, top)
    BY <2>1 DEF Held, Pdus, Reassembler, LastOf
  <2>3. PICK u \in 0..heard, x \in 0..heard :
           Windowed(u, x) /\ Reaches(Reassembler, u, LastOf(up, top), Pdus, next, cur)
    BY DEF IInv
  <2>4. Stream(Pdus', next', cur') /\ Handed(up, top)' /\ TypeOK'
    BY <2>1, <2>2 DEF IInv, Handed, TypeOK
  <2>5. Windowed(u, x)' /\ Reaches(Reassembler', u, LastOf(up, top)', Pdus', next', cur')
    BY <2>1, <2>2, <2>3 DEF Windowed
  <2>6. u \in 0..heard' /\ x \in 0..heard'
    BY <2>1
  <2> QED
    BY <2>4, <2>5, <2>6 DEF IInv
<1> QED
  BY <1>1, <1>2, <1>3, <1>4, <1>5, Zenon DEF Next

LEMMA InvIsWhole ==
    ASSUME IInv
    PROVE  DeliversWhole
<1> SUFFICES ASSUME NEW i \in 1..Len(up) PROVE IsWhole(up[i])
  BY DEF DeliversWhole
<1> DEFINE s == up[i]
<1>1. Fragment(s) /\ Last(s).last
  BY DEF IInv, Handed
<1> HIDE DEF s
<1>2. s \in Seq(Piece) /\ s # <<>>
  BY <1>1 DEF Fragment
<1>3. Len(s) \in Nat \ {0}
  BY <1>2, Sequences
<1>4. \A j \in 1..Len(s) : s[j].sdu = s[1].sdu /\ s[j].seg = j
  BY <1>1 DEF Fragment
<1>5. ASSUME NEW j \in 1..Len(s)
      PROVE  s[j].last <=> j = Len(s)
  <2>1. CASE j = Len(s)
    BY <1>1, <2>1 DEF Last
  <2>2. CASE j # Len(s)
    <3>1. j \in 1..(Len(s) - 1)
      BY <1>3, <2>2
    <3> QED
      BY <1>1, <2>2, <3>1 DEF Fragment
  <2> QED
    BY <2>1, <2>2
<1>6. IsWhole(s)
  BY <1>4, <1>5 DEF IsWhole
<1> QED
  BY <1>6 DEF s

LEMMA InvIsWindow ==
    ASSUME IInv, Timely
    PROVE  WindowInv
<1>1. PICK u \in 0..heard, x \in 0..heard : Windowed(u, x)
  BY DEF IInv
<1>2. TypeOK
  BY DEF IInv
<1>3. /\ next \in Nat /\ heard \in Nat /\ heard <= next /\ u \in Nat /\ x \in Nat
      /\ W \in Nat /\ M \in Nat /\ W < M /\ next <= u + W /\ Fits(rxBuffer, u, heard)
  BY <1>1, <1>2, Numbers
<1>4. /\ vrUh = heard % M /\ vrUr = u % M
      /\ u < heard => timer
      /\ timer => vrUx = x % M /\ u < x /\ x <= heard
  BY <1>1 DEF Windowed
<1>5. NothingStranded
  <2> SUFFICES ASSUME NEW s \in DOMAIN rxBuffer PROVE timer
    BY DEF NothingStranded
  <2>1. rxBuffer[s].n \in Nat /\ u <= rxBuffer[s].n /\ rxBuffer[s].n < heard
    BY <1>3 DEF Fits
  <2>2. u < heard
    BY <1>3, <2>1
  <2> QED
    BY <1>4, <2>2
<1>6. WindowHolds
  <2>1. /\ heard - W <= u /\ u < heard - W + M /\ u \in Int /\ x \in Int
        /\ x <= heard => x < heard - W + M
    BY <1>3
  <2>2. Rel(vrUr, Base(vrUh)) = u - (heard - W)
    BY <1>3, <1>4, <2>1, InWindow
  <2>3. ASSUME NEW s \in DOMAIN rxBuffer
        PROVE  Rel(vrUr, Base(vrUh)) <= Rel(s, Base(vrUh)) /\ Rel(s, Base(vrUh)) < W
    <3> DEFINE n == rxBuffer[s].n
    <3>1. n \in Nat /\ n % M = s /\ u <= n /\ n < heard
      BY <1>3 DEF Fits
    <3> HIDE DEF n
    <3>2. n \in Int /\ heard - W <= n /\ n < heard - W + M
      BY <1>3, <3>1
    <3>3. Rel(n % M, Base(heard % M)) = n - (heard - W)
      BY <1>3, <3>2, InWindow
    <3>4. u - (heard - W) <= n - (heard - W) /\ n - (heard - W) < W
      BY <1>3, <3>1
    <3> QED
      BY <1>4, <2>2, <3>1, <3>3, <3>4
  <2>4. ASSUME timer
        PROVE  /\ Rel(vrUr, Base(vrUh)) < Rel(vrUx, Base(vrUh))
               /\ Rel(vrUx, Base(vrUh)) <= W
    <3>1. vrUx = x % M /\ u < x /\ x <= heard /\ heard - W <= x /\ x < heard - W + M
      BY <1>3, <1>4, <2>1, <2>4
    <3>2. Rel(x % M, Base(heard % M)) = x - (heard - W)
      BY <1>3, <2>1, <3>1, InWindow
    <3>3. u - (heard - W) < x - (heard - W) /\ x - (heard - W) <= W
      BY <1>3, <3>1
    <3> QED
      BY <1>4, <2>2, <3>1, <3>2, <3>3
  <2> QED
    BY <2>3, <2>4 DEF WindowHolds
<1> QED
  BY <1>2, <1>5, <1>6 DEF WindowInv

-----------------------------------------------------------------------------
(* The receiver and the link, in every reachable state: the numbers VR(UR) *)
(* and VR(UX) stand for, the stream the PDUs make up, and how far the      *)
(* reassembler is in it.                                                   *)
THEOREM InvIsInvariant == Timely => (Spec => []IInv)
<1> SUFFICES ASSUME Timely PROVE Spec => []IInv
  OBVIOUS
<1>1. Init => IInv
  BY InitHolds
<1>2. IInv /\ [Next]_vars => IInv'
  BY StepKeeps
<1> QED
  BY <1>1, <1>2, PTL DEF Spec

(* WindowInv of DoReceivePdu and ExpireReorderingTimer: what waits lies in *)
(* the window, beyond VR(UR), and t-Reordering runs for it.                *)
THEOREM WindowIsKept == Timely => (Spec => []WindowInv)
<1> SUFFICES ASSUME Timely PROVE Spec => []WindowInv
  OBVIOUS
<1>1. IInv => WindowInv
  BY InvIsWindow
<1> QED
  BY <1>1, InvIsInvariant, PTL

(* ReassembleAndDeliver gives PDCP whole SDUs only, whatever PDUs are lost *)
(* or overtaken.                                                           *)
THEOREM SdusAreWhole == Timely => (Spec => []DeliversWhole)
<1> SUFFICES ASSUME Timely PROVE Spec => []DeliversWhole
  OBVIOUS
<1>1. IInv => DeliversWhole
  BY InvIsWhole
<1> QED
  BY <1>1, InvIsInvariant, PTL

(* SDUs reach PDCP in the order the peer sent them, none of them twice,    *)
(* over every wrap of the sequence numbers.                                *)
THEOREM SdusAreInOrder == Timely => (Spec => []InOrder)
<1> SUFFICES ASSUME Timely PROVE Spec => []InOrder
  OBVIOUS
<1>1. IInv => InOrder
  BY DEF IInv, Handed, InOrder
<1> QED
  BY <1>1, InvIsInvariant, PTL

-----------------------------------------------------------------------------
(* Where VR(UR) itself waits in the buffer: at SN 0 only. *)
UrWaitsAtWrap == vrUr \in DOMAIN rxBuffer => vrUr = 0

LEMMA AdvanceLeavesGap ==
    ASSUME IInv, Timely, UrWaitsAtWrap, [Next]_vars
    PROVE  UrWaitsAtWrap'
<1>1. TypeOK
  BY DEF IInv
<1>2. vrUr \in SNs /\ DOMAIN rxBuffer \subseteq SNs
  BY <1>1 DEF TypeOK
<1>3. ASSUME UNCHANGED <<window, rxBuffer>>
      PROVE  UrWaitsAtWrap'
  BY <1>3 DEF window, UrWaitsAtWrap
<1>4. CASE UNCHANGED vars
  BY <1>3, <1>4 DEF vars
<1>5. ASSUME NEW k \in 1..MaxPieces, NEW fin \in BOOLEAN, BuildPdu(k, fin)
      PROVE  UrWaitsAtWrap'
  BY <1>3, <1>5 DEF BuildPdu
<1>6. ASSUME NEW p \in air, Lose(p)
      PROVE  UrWaitsAtWrap'
  BY <1>3, <1>6 DEF Lose
<1>7. ASSUME NEW p \in air, DoReceivePdu(p)
      PROVE  UrWaitsAtWrap'
  <2> DEFINE sn == p.n % M
             placed == [s \in DOMAIN rxBuffer \cup {sn} |-> IF s = sn THEN p ELSE rxBuffer[s]]
             ahead == ~IsInsideReorderingWindow(sn, vrUh)
             uh == IF ahead THEN Plus(sn, 1) ELSE vrUh
             old == IF ahead THEN OutsideWindow(placed, uh) ELSE {}
             buf == Without(placed, old)
             slides == ahead /\ ~IsInsideReorderingWindow(vrUr, uh)
             ur == IF slides THEN Base(uh) ELSE vrUr
             newUr == IF ur \in DOMAIN buf THEN FirstMissing(buf, ur) ELSE ur
             base == IF slides THEN Base(uh) ELSE Base(vrUh)
             ready == IF ur \in DOMAIN buf THEN SnInterval(buf, ur, newUr, base) ELSE {}
  <2>1. vrUr' = newUr /\ rxBuffer' = Without(buf, ready)
    BY <1>7, Zenon DEF DoReceivePdu
  <2>2. p.n \in Nat
    BY <1>1 DEF TypeOK, Pdu
  <2>3. sn \in SNs
    BY <2>2, SnIs
  <2>4. DOMAIN buf \subseteq SNs
    <3>1. DOMAIN placed \subseteq SNs
      BY <1>2, <2>3
    <3> HIDE DEF placed, old
    <3> QED
      BY <3>1 DEF Without
  <2> HIDE DEF buf, ready, slides, newUr, ur
  <2>5. DOMAIN rxBuffer' \subseteq DOMAIN buf
    BY <2>1 DEF Without
  <2>6. CASE ur \in DOMAIN buf
    <3>1. newUr = FirstMissing(buf, ur) /\ ur \in SNs
      BY <2>4, <2>6 DEF newUr
    <3>2. newUr \in DOMAIN buf => newUr = 0
      BY <2>4, <3>1, FirstMissingWraps
    <3> QED
      BY <2>1, <2>5, <3>2 DEF UrWaitsAtWrap
  <2>7. CASE ur \notin DOMAIN buf
    BY <2>1, <2>5, <2>7 DEF UrWaitsAtWrap, newUr
  <2> QED
    BY <2>6, <2>7
<1>8. ASSUME NEW p \in air, Receive(p)
      PROVE  UrWaitsAtWrap'
  BY <1>3, <1>7, <1>8 DEF Receive
<1>9. ASSUME ExpireReorderingTimer
      PROVE  UrWaitsAtWrap'
  <2>1. PICK u \in 0..heard, x \in 0..heard : Windowed(u, x)
    BY DEF IInv
  <2>2. timer /\ vrUr' = FirstMissingFromUx
        /\ \E sns : rxBuffer' = Without(rxBuffer, sns)
    BY <1>9, Zenon DEF ExpireReorderingTimer
  <2>3. /\ heard \in Nat /\ u \in Nat /\ x \in Nat /\ heard < u + M
        /\ Fits(rxBuffer, u, heard) /\ u < x /\ x <= heard /\ vrUx = x % M
        /\ \E s \in DOMAIN rxBuffer : rxBuffer[s].n = x - 1
    <3>1. /\ heard \in Nat /\ u \in Nat /\ x \in Nat /\ Fits(rxBuffer, u, heard)
          /\ next \in Nat /\ heard <= next /\ next <= u + W /\ W \in Nat /\ M \in Nat /\ W < M
      BY <1>1, <2>1, Numbers
    <3>2. /\ u < x /\ x <= heard /\ vrUx = x % M /\ \E q \in Held : q.n = x - 1
      BY <2>1, <2>2 DEF Windowed
    <3> QED
      BY <3>1, <3>2 DEF Held
  <2>4. FirstMissingFromUx \notin DOMAIN rxBuffer
    BY <2>3, FirstMissingFromUxIs
  <2>5. DOMAIN rxBuffer' \subseteq DOMAIN rxBuffer
    BY <2>2 DEF Without
  <2> QED
    BY <2>2, <2>4, <2>5 DEF UrWaitsAtWrap
<1> QED
  BY <1>4, <1>5, <1>6, <1>8, <1>9, Zenon DEF Next

(* DoReceivePdu and ExpireReorderingTimer leave VR(UR) at an SN that has   *)
(* not been received, but for the count of newVrUr past the last one: what *)
(* UrIsMissing asks for fails at SN 0 and nowhere else.                    *)
THEOREM UrIsMissingButAtWrap == Timely => (Spec => []UrWaitsAtWrap)
<1> SUFFICES ASSUME Timely PROVE Spec => []UrWaitsAtWrap
  OBVIOUS
<1>1. Init => UrWaitsAtWrap
  BY DEF Init, UrWaitsAtWrap
<1>2. IInv /\ UrWaitsAtWrap /\ [Next]_vars => UrWaitsAtWrap'
  BY AdvanceLeavesGap
<1> QED
  BY <1>1, <1>2, InvIsInvariant, PTL DEF Spec

-----------------------------------------------------------------------------
(***************************************************************************)
(* Both sides.  A transmission opportunity gives the link a PDU with the   *)
(* pieces the transmitter took, where the link and the windows bear one    *)
(* more; cur, which the receiver's module chooses freely, is the place in  *)
(* the queue.                                                              *)
(***************************************************************************)
Carried(p) == [i \in 1..Len(p) |-> [sdu |-> p[i].sdu, seg |-> p[i].seg, last |-> p[i].last]]

Transmission == \E bytes \in Opportunities : DoNotifyTxOpportunity(bytes)

TakesPdu ==
    /\ MayBuild
    /\ Len(pdu') <= MaxPieces
    /\ ~Last(pdu').last => Last(pdu').seg < MaxSegs
    /\ air' = air \cup {[n |-> next, pieces |-> Carried(pdu')]}
    /\ next' = next + 1
    /\ cur' = Place'
    /\ run' = IF timer THEN run + 1 ELSE 0
    /\ UNCHANGED <<heard, window, rxBuffer, reassembly, top, up>>

LinkStep ==
    \/ \E p \in air : Lose(p)
    \/ \E p \in air : Receive(p)
    \/ ExpireReorderingTimer

JointNext ==
    \/ Transmission /\ TakesPdu
    \/ TxNext /\ ~Transmission /\ UNCHANGED vars
    \/ LinkStep /\ UNCHANGED txVars

JointSpec == TxInit /\ Init /\ [][JointNext]_<<txVars, vars>>

JointInv == TxInv /\ cur = Place

(* The place in the queue is the one behind the SDUs that have left it. *)
LEMMA PlaceIs ==
    ASSUME Numbered
    PROVE  Place.sdu = sent - Len(txBuffer) + 1
<1>1. CASE txBuffer = <<>>
  BY <1>1 DEF Place, Numbered
<1>2. CASE txBuffer # <<>>
  <2>1. Len(txBuffer) \in Nat \ {0}
    BY <1>2, LenProperties, EmptySeq DEF Numbered
  <2>2. txBuffer[1].sdu = sent - Len(txBuffer) + 1
    BY <2>1 DEF Numbered
  <2> QED
    BY <1>2, <2>2 DEF Place
<1> QED
  BY <1>1, <1>2

(* Only a transmission moves it: an SDU that is accepted goes behind, or   *)
(* takes the place an empty queue kept for it.                             *)
LEMMA PlaceStays ==
    ASSUME TxInv, TxNext, ~Transmission
    PROVE  Place' = Place
<1>1. txBuffer \in Seq(TxPdu)
  BY DEF TxInv, Numbered
<1>2. ASSUME NEW n \in Sizes, Accept(n)
      PROVE  Place' = Place
  <2> DEFINE e == [sdu |-> sent + 1, size |-> n, seg |-> 1, late |-> FALSE,
                   hol |-> IF txBuffer = <<>> THEN 1 ELSE 0]
  <2>1. txBuffer' = Append(txBuffer, e) /\ e.sdu = sent + 1 /\ e.seg = 1
    BY <1>2 DEF Accept
  <2> HIDE DEF e
  <2>2. CASE txBuffer = <<>>
    <3>1. txBuffer' # <<>> /\ Head(txBuffer') = e
      BY <2>1, <2>2
    <3> QED
      BY <2>1, <2>2, <3>1 DEF Place
  <2>3. CASE txBuffer # <<>>
    <3>1. txBuffer' # <<>> /\ Head(txBuffer') = Head(txBuffer)
      BY <1>1, <2>1, <2>3
    <3> QED
      BY <2>3, <3>1 DEF Place
  <2> QED
    BY <2>2, <2>3
<1>3. ASSUME NEW k \in DOMAIN txBuffer, Age(k)
      PROVE  Place' = Place
  <2>1. /\ txBuffer # <<>> /\ 1 \in DOMAIN txBuffer
        /\ Len(txBuffer) \in Nat /\ DOMAIN txBuffer = 1..Len(txBuffer)
    BY <1>1, <1>3
  <2> DEFINE late == txBuffer[1].late \/ 1 <= k
  <2>2. /\ txBuffer' = [i \in DOMAIN txBuffer |-> [txBuffer[i] EXCEPT !.late = @ \/ i <= k]]
        /\ sent' = sent
    BY <1>3 DEF Age
  <2>3. txBuffer'[1] = [txBuffer[1] EXCEPT !.late = late]
    BY <2>1, <2>2
  <2> HIDE DEF late
  <2>4. txBuffer[1] \in TxPdu
    BY <1>1, <2>1
  <2>5. txBuffer'[1].sdu = txBuffer[1].sdu /\ txBuffer'[1].seg = txBuffer[1].seg
    BY <2>3, <2>4 DEF TxPdu
  <2>6. txBuffer' # <<>>
    <3>1. DOMAIN txBuffer' = DOMAIN txBuffer
      BY <2>2
    <3> QED
      BY <2>1, <3>1
  <2> QED
    BY <2>1, <2>5, <2>6 DEF Place
<1>4. ASSUME NEW n \in Sizes, DiscardLate(n) \/ DiscardFull(n)
      PROVE  Place' = Place
  BY <1>4 DEF DiscardLate, DiscardFull, Place
<1>5. ASSUME NEW bytes \in Opportunities, UnusedTxOpportunity(bytes)
      PROVE  Place' = Place
  BY <1>5 DEF UnusedTxOpportunity, Place
<1>6. CASE ExpireBsrTimer
  BY <1>6 DEF ExpireBsrTimer, Place
<1> QED
  BY <1>2, <1>3, <1>4, <1>5, <1>6, Zenon DEF TxNext, Transmission, DoTransmitPdcpPdu

(* What a transmission puts on the link is a PDU the receiver's module     *)
(* expects of its peer.                                                    *)
LEMMA CarriedIs ==
    ASSUME NEW p \in Seq(TxPiece), p # <<>>, pdu' = p, cur = Place, FramedNow
    PROVE  Carried(p) = Pieces(Len(p), Last(p).last)
<1> DEFINE k == Len(p)
<1>1. /\ k \in Nat \ {0} /\ DOMAIN p = 1..k /\ Last(p) = p[k]
      /\ \A i \in 1..k : p[i] \in TxPiece
  BY EmptySeq, LenProperties, ElementOfSeq DEF Last
<1>2. \A i \in 1..k : /\ p[i].sdu = cur.sdu + i - 1
                      /\ p[i].seg = IF i = 1 THEN cur.seg ELSE 1
                      /\ i < k => p[i].last
  BY <1>1 DEF FramedNow
<1>3. \A i \in 1..k : p[i].last = (i < k \/ Last(p).last)
  BY <1>1, <1>2 DEF TxPiece
<1> HIDE DEF k
<1>4. Carried(p) = [i \in 1..k |-> [sdu |-> p[i].sdu, seg |-> p[i].seg, last |-> p[i].last]]
  BY DEF Carried, k
<1>5. Carried(p) = Pieces(k, Last(p).last)
  BY <1>2, <1>3, <1>4 DEF Pieces
<1> QED
  BY <1>5 DEF k

LEMMA TransmissionBuilds ==
    ASSUME JointInv, Transmission, TakesPdu
    PROVE  /\ JointInv'
           /\ \E k \in 1..MaxPieces, fin \in BOOLEAN : BuildPdu(k, fin)
<1>1. TxNext
  BY DEF Transmission, TxNext
<1>2. TxInv' /\ FramedNow
  BY <1>1, TxStepKeeps DEF JointInv
<1>3. pdu' \in Seq(TxPiece) /\ pdu' # <<>>
  BY OpportunityFrames DEF Transmission, JointInv, TxInv
<1>4. PICK p : p = pdu'
  OBVIOUS
<1> DEFINE k == Len(p)
           fin == Last(p).last
<1>5. /\ k \in Nat \ {0} /\ DOMAIN p = 1..k /\ Last(p) = p[k] /\ p[k] \in TxPiece
  BY <1>3, <1>4, EmptySeq, LenProperties, ElementOfSeq DEF Last
<1>6. k \in 1..MaxPieces /\ fin \in BOOLEAN
  BY <1>4, <1>5, BoundAssumption DEF TakesPdu, TxPiece
<1>7. Carried(p) = Pieces(k, fin)
  BY <1>2, <1>3, <1>4, CarriedIs DEF JointInv
<1>8. /\ Pieces(k, fin)[k].sdu = Last(p).sdu
      /\ Pieces(k, fin)[k].seg = Last(p).seg
  BY <1>5, <1>7 DEF Carried
<1>9. Place' = IF fin THEN [sdu |-> Last(p).sdu + 1, seg |-> 1]
               ELSE [sdu |-> Last(p).sdu, seg |-> Last(p).seg + 1]
  BY <1>2, <1>3, <1>4 DEF FramedNow
<1> HIDE DEF k, fin
<1>10. /\ MayBuild /\ air' = air \cup {[n |-> next, pieces |-> Carried(p)]}
       /\ next' = next + 1 /\ cur' = Place' /\ run' = IF timer THEN run + 1 ELSE 0
       /\ UNCHANGED <<heard, window, rxBuffer, reassembly, top, up>>
       /\ ~fin => Last(p).seg < MaxSegs
  BY <1>4 DEF TakesPdu, fin
<1>11. BuildPdu(k, fin)
  BY <1>7, <1>8, <1>9, <1>10, Zenon DEF BuildPdu
<1> QED
  BY <1>2, <1>6, <1>10, <1>11 DEF JointInv

(* Every step of the two together is one of the receiver's module. *)
LEMMA JointSteps == JointInv /\ [JointNext]_<<txVars, vars>> => JointInv' /\ [Next]_vars
<1> SUFFICES ASSUME JointInv, [JointNext]_<<txVars, vars>> PROVE JointInv' /\ [Next]_vars
  OBVIOUS
<1>1. CASE Transmission /\ TakesPdu
  BY <1>1, TransmissionBuilds, Zenon DEF Next
<1>2. CASE TxNext /\ ~Transmission /\ UNCHANGED vars
  <2>1. TxInv' /\ Place' = Place
    BY <1>2, TxStepKeeps, PlaceStays DEF JointInv
  <2>2. cur' = cur
    BY <1>2 DEF vars, linkVars
  <2> QED
    BY <1>2, <2>1, <2>2 DEF JointInv
<1>3. CASE LinkStep /\ UNCHANGED txVars
  <2>1. TxInv' /\ Place' = Place
    BY <1>3, TxStutterKeeps DEF JointInv, txVars, Place
  <2>2. cur' = cur
    BY <1>3, Zenon DEF LinkStep, Lose, Receive, ExpireReorderingTimer
  <2>3. Next
    BY <1>3, Zenon DEF LinkStep, Next
  <2> QED
    BY <2>1, <2>2, <2>3 DEF JointInv
<1>4. CASE UNCHANGED <<txVars, vars>>
  <2>1. UNCHANGED txVars /\ UNCHANGED vars
    BY <1>4
  <2>2. TxInv' /\ Place' = Place /\ cur' = cur
    BY <2>1, TxStutterKeeps DEF JointInv, txVars, vars, linkVars, Place
  <2> QED
    BY <2>1, <2>2 DEF JointInv
<1> QED
  BY <1>1, <1>2, <1>3, <1>4, Zenon DEF JointNext

(* The transmitter is the peer the receiver's module assumes: whatever it  *)
(* accepts, cuts and joins, what reaches the link are steps of NrRlcUmRx.  *)
THEOREM TransmitterIsThePeer == JointSpec => Spec
<1>1. TxInit /\ Init => JointInv
  BY TxInitially DEF Init, TxInit, JointInv, Place
<1> QED
  BY <1>1, JointSteps, PTL DEF JointSpec, Spec

(* An SDU is given to PDCP only when it has left the queue of the peer     *)
(* with its last segment; the ones given so far are no more than that.     *)
HandedHasLeft == LastOf(up, top) <= sent - Len(txBuffer)

(* From PDCP to PDCP: SDUs arrive whole and in the order they were         *)
(* accepted, none of them twice, and none the peer has not sent to its end.*)
THEOREM EndToEnd == Timely => (JointSpec => [](DeliversWhole /\ InOrder /\ HandedHasLeft))
<1> SUFFICES ASSUME Timely PROVE JointSpec => [](DeliversWhole /\ InOrder /\ HandedHasLeft)
  OBVIOUS
<1>1. TxInit /\ Init => JointInv
  BY TxInitially DEF Init, TxInit, JointInv, Place
<1>2. IInv /\ JointInv => HandedHasLeft
  <2> SUFFICES ASSUME IInv, JointInv PROVE HandedHasLeft
    OBVIOUS
  <2>1. PICK t : t = LastOf(up, top)
    OBVIOUS
  <2>2. t \in Nat /\ t < cur.sdu
    <3>1. LastOf(Reassembler.up, LastOf(up, top)) = t
      BY <2>1 DEF Reassembler, LastOf
    <3>2. LastOf(Reassembler.up, LastOf(up, top)) \in Nat
          /\ LastOf(Reassembler.up, LastOf(up, top)) < cur.sdu
      BY Zenon DEF IInv, Reaches
    <3> QED
      BY <3>1, <3>2
  <2>3. cur.sdu = sent - Len(txBuffer) + 1 /\ sent \in Nat /\ Len(txBuffer) \in Nat
    BY PlaceIs, LenProperties DEF JointInv, TxInv, Numbered
  <2>4. t <= sent - Len(txBuffer)
    BY <2>2, <2>3
  <2> QED
    BY <2>1, <2>4 DEF HandedHasLeft
<1>3. JointSpec => []IInv
  BY TransmitterIsThePeer, InvIsInvariant, PTL
<1>4. JointSpec => []DeliversWhole /\ []InOrder
  BY TransmitterIsThePeer, SdusAreWhole, SdusAreInOrder, PTL
<1> QED
  BY <1>1, <1>2, <1>3, <1>4, JointSteps, PTL DEF JointSpec
=============================================================================

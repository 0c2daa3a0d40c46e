------------------------------ MODULE NrRlcUmTx ------------------------------
(***************************************************************************)
(* The transmitter of RLC UM (nr-rlc-um.cc): the queue with its limit and  *)
(* discard rule, the segmentation of SDUs into PDUs, and the periodic      *)
(* buffer status report to MAC.                                            *)
(*                                                                         *)
(* Accepted SDUs are numbered.  Time is seen where the code compares it:   *)
(* an entry is late once its age exceeds the discard timer.                *)
(***************************************************************************)
EXTENDS Integers, SequencesExt

CONSTANTS
    Sizes,        \* bytes of an SDU
    Opportunities,\* bytes MAC offers
    MaxTxBufferSize,
    LiMax,        \* largest length an LI can state, 2047
    MaxSdus       \* bound on the SDUs accepted

ASSUME SizeAssumption == Sizes \subseteq Nat \ {0} /\ Opportunities \subseteq Nat
ASSUME LimitAssumption == MaxTxBufferSize \in Nat /\ LiMax \in Nat /\ MaxSdus \in Nat

VARIABLES
    txBuffer,     \* m_txBuffer
    txBufferSize, \* m_txBufferSize
    bsrTimer,     \* m_bsrTimer is pending
    known,        \* external: what MAC takes the queue for, in bytes
    sent,         \* SDUs accepted so far
    pdu           \* the pieces of the PDU the last step gave to MAC, if any

txVars == <<txBuffer, txBufferSize, bsrTimer, known, sent, pdu>>

(* size is what is left of the SDU; seg numbers the segment it starts      *)
(* with, so that seg = 1 is FULL_SDU and a later one LAST_SEGMENT; hol     *)
(* counts the entries of the SDU in the log of pre-HOL waits.              *)
TxPdu == [sdu : Nat, size : Nat \ {0}, seg : Nat \ {0}, late : BOOLEAN, hol : Nat]
TxPiece == [sdu : Nat, size : Nat \ {0}, seg : Nat \ {0}, last : BOOLEAN]

(* Type invariant. *)
TxTypeOK ==
    /\ txBuffer \in Seq(TxPdu) /\ txBufferSize \in Nat
    /\ bsrTimer \in BOOLEAN /\ known \in Nat /\ sent \in Nat
    /\ pdu \in Seq(TxPiece)

TxInit ==
    /\ txBuffer = <<>> /\ txBufferSize = 0
    /\ bsrTimer = FALSE /\ known = 0 /\ sent = 0
    /\ pdu = <<>>

-----------------------------------------------------------------------------
(* DoTransmitBufferStatusReport: two bytes of header for each SDU. *)
QueueSize(buf, bytes) == IF buf = <<>> THEN 0 ELSE bytes + 2 * Len(buf)

TooLate == txBuffer # <<>> /\ Head(txBuffer).late

(* DoTransmitPdcpPdu.  A discard for lateness returns before the report. *)
Accept(n) ==
    /\ txBufferSize + n <= MaxTxBufferSize /\ ~TooLate
    /\ sent < MaxSdus
    /\ txBuffer' = Append(txBuffer, [sdu |-> sent + 1, size |-> n, seg |-> 1, late |-> FALSE,
                                     hol |-> IF txBuffer = <<>> THEN 1 ELSE 0])
    /\ txBufferSize' = txBufferSize + n
    /\ sent' = sent + 1
    /\ known' = QueueSize(txBuffer', txBufferSize')
    /\ bsrTimer' = TRUE
    /\ pdu' = <<>>

DiscardLate(n) ==
    /\ txBufferSize + n <= MaxTxBufferSize /\ TooLate
    /\ pdu' = <<>>
    /\ UNCHANGED <<txBuffer, txBufferSize, bsrTimer, known, sent>>

DiscardFull(n) ==
    /\ txBufferSize + n > MaxTxBufferSize
    /\ known' = QueueSize(txBuffer, txBufferSize)
    /\ bsrTimer' = (bsrTimer \/ txBuffer # <<>>)
    /\ pdu' = <<>>
    /\ UNCHANGED <<txBuffer, txBufferSize, sent>>

DoTransmitPdcpPdu(n) == Accept(n) \/ DiscardLate(n) \/ DiscardFull(n)

(* The first k entries have waited longer than the discard timer. *)
Age(k) ==
    /\ \E i \in 1..k : ~txBuffer[i].late
    /\ txBuffer' = [i \in DOMAIN txBuffer |->
                       [txBuffer[i] EXCEPT !.late = @ \/ i <= k]]
    /\ pdu' = <<>>
    /\ UNCHANGED <<txBufferSize, bsrTimer, known, sent>>

-----------------------------------------------------------------------------
(***************************************************************************)
(* DoNotifyTxOpportunity.  room[i] is nextSegmentSize when the loop comes  *)
(* to the i-th SDU: an LI of one and a half bytes follows each earlier     *)
(* SDU.  The loop goes on past an SDU that fits, that an LI can state,     *)
(* that leaves more than an LI, and that has another SDU behind it.        *)
(***************************************************************************)
LiByte(i) == 1                                                \* mutated form
LiSize(i) == IF i % 2 = 1 THEN 2 ELSE 1
Room(buf, bytes) ==
    LET room[i \in 1..Len(buf)] ==
            IF i = 1 THEN bytes - 2
            ELSE room[i - 1] - buf[i - 1].size - LiSize(i - 1)
    IN  room

GoesOn(buf, room, i) ==
    /\ buf[i].size <= room[i] /\ buf[i].size <= LiMax
    /\ room[i] - buf[i].size > 2
    /\ i < Len(buf)

(* The SDU the PDU ends in. *)
LastTaken(buf, room) ==
    CHOOSE k \in 1..Len(buf) :
        ~GoesOn(buf, room, k) /\ \A i \in 1..(k - 1) : GoesOn(buf, room, i)

(* The last SDU is cut when only a part of it fits. *)
IsCut(buf, room, k) == room[k] \in 1..(buf[k].size - 1)

TxPieces(buf, room, k) ==
    [i \in 1..k |->
        LET cut == i = k /\ IsCut(buf, room, k)
        IN  [sdu |-> buf[i].sdu, seg |-> buf[i].seg, last |-> ~cut,
             size |-> IF cut THEN room[k] ELSE buf[i].size]]

(* The rest of a cut SDU goes back to the front, with its time of arrival. *)
(* The entry behind the last one taken has been logged as the head of line *)
(* by then.                                                                *)
Behind(buf, k) ==
    [i \in 1..(Len(buf) - k) |->
        [buf[k + i] EXCEPT !.hol = IF i = 1 THEN @ + 1 ELSE @]]
(* Mutated form: the status tag of the rest is not changed. *)
RestAsFull(buf, room, k) ==
    IF IsCut(buf, room, k)
    THEN <<[buf[k] EXCEPT !.size = @ - room[k]]>> \o Behind(buf, k)
    ELSE Behind(buf, k)
Rest(buf, room, k) ==
    IF IsCut(buf, room, k)
    THEN <<[buf[k] EXCEPT !.size = @ - room[k], !.seg = @ + 1]>> \o Behind(buf, k)
    ELSE Behind(buf, k)

(* The bytes of the first i entries, and of all. *)
Upto(buf) ==
    LET upto[i \in 0..Len(buf)] == IF i = 0 THEN 0 ELSE upto[i - 1] + buf[i].size
    IN  upto
Bytes(buf) == Upto(buf)[Len(buf)]

(* MAC takes what it offers off its number for the queue (SendTxData). *)
Offered(bytes) == known' = IF bytes < known THEN known - bytes ELSE 0

SizeForgetsRest(pieces) ==                                    \* mutated form
    txBufferSize - Bytes(SubSeq(txBuffer, 1, Len(pieces)))
SizeAfter(pieces) == txBufferSize - Bytes(pieces)

Transmits(bytes) == bytes > 2 /\ txBuffer # <<>>

DoNotifyTxOpportunity(bytes) ==
    LET room == Room(txBuffer, bytes)
        k == LastTaken(txBuffer, room)
    IN  /\ Transmits(bytes)
        /\ pdu' = TxPieces(txBuffer, room, k)
        /\ txBuffer' = Rest(txBuffer, room, k)
        /\ txBufferSize' = SizeAfter(pdu')
        /\ Offered(bytes)
        /\ bsrTimer' = (bsrTimer \/ txBuffer' # <<>>)
        /\ UNCHANGED sent

(* Stingy MAC, or nothing to send: MAC has lowered its number all the same. *)
UnusedTxOpportunity(bytes) ==
    /\ ~Transmits(bytes)
    /\ Offered(bytes)
    /\ pdu' = <<>>
    /\ UNCHANGED <<txBuffer, txBufferSize, bsrTimer, sent>>

(* Mutated form: the timer reports but is not scheduled again. *)
ExpiresOnce ==
    /\ bsrTimer
    /\ bsrTimer' = FALSE
    /\ IF txBuffer # <<>> THEN known' = QueueSize(txBuffer, txBufferSize) ELSE UNCHANGED known
    /\ pdu' = <<>>
    /\ UNCHANGED <<txBuffer, txBufferSize, sent>>

ExpireBsrTimer ==
    /\ bsrTimer
    /\ \/ txBuffer # <<>> /\ known' = QueueSize(txBuffer, txBufferSize) /\ UNCHANGED bsrTimer
       \/ txBuffer = <<>> /\ bsrTimer' = FALSE /\ UNCHANGED known
    /\ pdu' = <<>>
    /\ UNCHANGED <<txBuffer, txBufferSize, sent>>

TxNext ==
    \/ \E n \in Sizes : DoTransmitPdcpPdu(n)
    \/ \E k \in DOMAIN txBuffer : Age(k)
    \/ \E bytes \in Opportunities :
          DoNotifyTxOpportunity(bytes) \/ UnusedTxOpportunity(bytes)
    \/ ExpireBsrTimer

TxSpec == TxInit /\ [][TxNext]_txVars
(* The timer is an event in the simulator's queue. *)
TxFairSpec == TxSpec /\ WF_txVars(ExpireBsrTimer)

-----------------------------------------------------------------------------
(* The byte count the limit and the reports go by is that of the queue,    *)
(* over any number of cuts and of SDUs given back.                         *)
SizeMatches == txBufferSize = Bytes(txBuffer)

(* RLC hands MAC no more than MAC offered: the header has two bytes and an *)
(* LI of one and a half, rounded up to bytes (nr-rlc-header.cc).           *)
HeaderLength(n) == 2 + (3 * (n - 1) + 1) \div 2
FitsOpportunity ==
    [][\A bytes \in Opportunities :
          DoNotifyTxOpportunity(bytes) =>
             HeaderLength(Len(pdu')) + Bytes(pdu') <= bytes]_txVars

(* Data in the queue is never without a pending report: the only thing     *)
(* that reminds a MAC that has counted the queue down to zero.             *)
ReportPending == txBuffer # <<>> => bsrTimer

(* After every event the entries are whole SDUs or the rest of one, the    *)
(* count reported to MAC is theirs, and a report of it is due.             *)
QueueInv == TxTypeOK /\ SizeMatches /\ ReportPending

(* MAC does not stay ignorant of data. *)
MacLearns == txBuffer # <<>> ~> (txBuffer = <<>> \/ known > 0)

(* What the receiver relies on: PDUs carry the SDUs in order and without a *)
(* gap, each SDU in consecutive segments of which exactly the last says    *)
(* so, and only the ends of a PDU are unfinished SDUs.                     *)
Place == IF txBuffer = <<>> THEN [sdu |-> sent + 1, seg |-> 1]
         ELSE [sdu |-> Head(txBuffer).sdu, seg |-> Head(txBuffer).seg]
Framed ==
    [][pdu' # <<>> =>
          /\ \A i \in DOMAIN pdu' :
                /\ pdu'[i].sdu = Place.sdu + i - 1
                /\ pdu'[i].seg = IF i = 1 THEN Place.seg ELSE 1
                /\ i < Len(pdu') => pdu'[i].last
          /\ Place' = IF Last(pdu').last THEN [sdu |-> Last(pdu').sdu + 1, seg |-> 1]
                      ELSE [sdu |-> Last(pdu').sdu, seg |-> Last(pdu').seg + 1]]_txVars

(* change_report_rlc_tx_queue_sojourn_trace.md: the log fires when an SDU  *)
(* becomes head of line.                                                   *)
LoggedAsHead == \A i \in DOMAIN txBuffer : i > 1 => txBuffer[i].hol = 0
=============================================================================

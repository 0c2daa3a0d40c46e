------------------------------ MODULE NrUeMacTb ------------------------------
(***************************************************************************)
(* How a UE MAC divides the transport block of an uplink grant among its   *)
(* logical channels (SendNewData and what it calls, nr-ue-mac.cc): STATUS  *)
(* PDUs first, then retransmissions, then new data, and a SHORT_BSR in     *)
(* every block.  NrUeMac abstracts all of this to `left' and `used'.       *)
(*                                                                         *)
(* RLC is external: a channel sends what NrRlcUmTx and NrRlcAm send when   *)
(* they are offered so many bytes.                                         *)
(***************************************************************************)
EXTENDS Integers, FiniteSets

CONSTANTS
    N,         \* logical channels 1..N, in the order of m_ulBsrReceived
    Am,        \* those on RLC AM
    Tbs,       \* sizes of the blocks the scheduler grants
    Sizes,     \* bytes of an SDU
    RetxSizes, \* bytes of a PDU to retransmit
    StatusLcs, \* channels that may have a STATUS PDU waiting
    Unacked,   \* bytes RLC AM may report as sent and not acknowledged
    MaxShort   \* the longest subPDU with a short subheader, 127

ASSUME ChannelAssumption == N \in Nat \ {0} /\ StatusLcs \subseteq Am /\ Am \subseteq 1..N
(* CreateUlDci makes no DCI for less than 12 bytes. *)
ASSUME GrantAssumption == \A tbs \in Tbs : tbs \in Nat /\ tbs >= 12
ASSUME SizeAssumption ==
    /\ Sizes \subseteq Nat \ {0} /\ RetxSizes \subseteq Nat \ {0}
    /\ Unacked \subseteq Nat /\ 0 \in Unacked /\ MaxShort \in Nat

Lcs == 1..N
StatusSize == 4    \* m_statusPduBufferSize
BsrSize == 5       \* NrMacShortBsrCe::GetSerializedSize

VARIABLES
    bsr,        \* m_ulBsrReceived
    rlc,        \* external: what waits in each RLC entity
    tb,         \* m_ulDci->m_tbSize of the last grant
    totalUsed,  \* m_ulDciTotalUsed after it
    offers      \* the opportunities it gave: kind, channel, bytes, PDU size

tbVars == <<bsr, rlc, tb, totalUsed, offers>>

Queue == [status : Nat, retx : Nat, tx : Nat]
Offer == [kind : {"status", "retx", "tx"}, lc : Lcs, bytes : Nat, pdu : Nat]

(* Type invariant. *)
TbTypeOK ==
    /\ bsr \in [Lcs -> Queue] /\ rlc \in [Lcs -> Queue]
    /\ tb \in Nat /\ totalUsed \in Nat
    /\ offers \subseteq Offer

Nothing == [status |-> 0, retx |-> 0, tx |-> 0]
TbInit ==
    /\ bsr = [lc \in Lcs |-> Nothing] /\ rlc = bsr
    /\ tb = 0 /\ totalUsed = 0 /\ offers = {}

Least(a, b) == IF a <= b THEN a ELSE b
Lowered(a, b) == a - Least(a, b)

-----------------------------------------------------------------------------
(* RLC: the header of a data PDU, and the smallest opportunity for one. *)
RlcHeader(lc) == IF lc \in Am THEN 4 ELSE 2
LeastBytes(lc) == IF lc \in Am THEN 7 ELSE 3

(* The PDU RLC answers with and what is left of its queue: a STATUS PDU,   *)
(* else a whole retransmission, else new data.                             *)
Answer(lc, q, space) ==
    IF q.status > 0 THEN [pdu |-> q.status, q |-> [q EXCEPT !.status = 0]]
    ELSE IF q.retx \in 1..space THEN [pdu |-> q.retx, q |-> [q EXCEPT !.retx = 0]]
    ELSE IF q.retx = 0 /\ q.tx > 0 /\ space >= LeastBytes(lc)
    THEN LET pdu == Least(q.tx + RlcHeader(lc), space)
         IN  [pdu |-> pdu, q |-> [q EXCEPT !.tx = @ - (pdu - RlcHeader(lc))]]
    ELSE [pdu |-> 0, q |-> q]

(* NrMacHeaderVs *)
Subheader(pdu) == IF pdu > MaxShort THEN 3 ELSE 2

(* MAC's count for the channel. *)
Served(q, kind, space) ==
    CASE kind = "status" -> [q EXCEPT !.status = 0]
      [] kind = "retx"   -> [q EXCEPT !.retx = Lowered(@, space)]
      [] kind = "tx"     -> [q EXCEPT !.tx = Lowered(@, space)]

(***************************************************************************)
(* A pass over the channels.  s holds m_ulBsrReceived, the RLC queues, the *)
(* bytes used so far and the offers made.  NotifyTxOpportunity ends in     *)
(* DoTransmitPdu, which adds the subPDU to the bytes used.                 *)
(***************************************************************************)
Notify(s, kind, lc, space) ==
    LET a == Answer(lc, s.rlc[lc], space)
    IN  [bsr |-> [s.bsr EXCEPT ![lc] = Served(@, kind, space)],
         rlc |-> [s.rlc EXCEPT ![lc] = a.q],
         used |-> s.used + (IF a.pdu = 0 THEN 0 ELSE a.pdu + Subheader(a.pdu)),
         offers |-> s.offers \cup {[kind |-> kind, lc |-> lc, bytes |-> space, pdu |-> a.pdu]}]

(* SendNewStatusData: neither the subheader nor the SHORT_BSR is counted. *)
StatusTurn(s, lc, tbs) ==
    IF s.bsr[lc].status > 0 /\ s.used + s.bsr[lc].status <= tbs
    THEN Notify(s, "status", lc, s.bsr[lc].status) ELSE s
SendNewStatusData(s, tbs) ==
    LET after[lc \in 0..N] ==
            IF lc = 0 THEN s ELSE StatusTurn(after[lc - 1], lc, tbs)
    IN  after[N]

(* Mutated forms: what is used is not counted; the bound is exclusive. *)
FitsAlone(sofar, share, useful) == share <= useful
FitsStrictly(sofar, share, useful) == sofar + share < useful
FitsIn(sofar, share, useful) == sofar + share <= useful

(* SendRetxData and SendTxData: every channel in turn is offered an equal  *)
(* share, the ones without data too, while the bytes used plus the share   *)
(* fit in the space left for this kind of data.                            *)
DataTurn(s, kind, lc, share, useful) ==
    IF FitsIn(s.used, share, useful) THEN Notify(s, kind, lc, share) ELSE s
ShareOut(s, kind, useful, active) ==
    LET after[lc \in 0..N] ==
            IF lc = 0 THEN s
            ELSE DataTurn(after[lc - 1], kind, lc, useful \div active, useful)
    IN  after[N]

Useful(s, tbs) == tbs - s.used - BsrSize

(* A share holds a subheader of 3 bytes and 7 bytes for RLC. *)
LeastSpace(active) == active * 10

SendKind(s, kind, tbs, active) ==
    IF active > 0 /\ LeastSpace(active) <= Useful(s, tbs)
    THEN ShareOut(s, kind, Useful(s, tbs) - 3 * active, active)
    ELSE s

(***************************************************************************)
(* ProcessUlDci with ndi = 1: SendNewData's three passes, then the BSR.    *)
(* The channels with data are counted after the STATUS PDUs.  An assertion *)
(* ends the program when these leave no room for the BSR.                  *)
(***************************************************************************)
Active(s, kind) == Cardinality({lc \in Lcs : s.bsr[lc][kind] > 0})

ProcessUlDci(tbs) ==
    /\ totalUsed <= tb
    /\ tb' = tbs
    /\ \E s1 \in {SendNewStatusData([bsr |-> bsr, rlc |-> rlc, used |-> 0, offers |-> {}], tbs)} :
       \E s2 \in {SendKind(s1, "retx", tbs, Active(s1, "retx"))} :
       \E s3 \in {SendKind(s2, "tx", tbs, Active(s1, "tx"))} :
          /\ bsr' = s3.bsr /\ rlc' = s3.rlc /\ offers' = s3.offers
          /\ totalUsed' = s3.used + BsrSize

-----------------------------------------------------------------------------
(* DoTransmitBufferStatusReport of an RLC entity: UM counts headers, AM    *)
(* counts what waits for its acknowledgement.                              *)
Reported(lc, q, unacked) ==
    IF lc \in Am THEN [q EXCEPT !.retx = @ + unacked]
    ELSE [q EXCEPT !.tx = IF @ = 0 THEN 0 ELSE @ + 2]

Quiet == offers' = {} /\ UNCHANGED <<tb, totalUsed>>

Enqueue(lc, q) ==
    /\ rlc' = [rlc EXCEPT ![lc] = q]
    /\ \E unacked \in Unacked : bsr' = [bsr EXCEPT ![lc] = Reported(lc, q, unacked)]
    /\ Quiet

DataArrives(lc) ==
    /\ rlc[lc].tx = 0
    /\ \E n \in Sizes : Enqueue(lc, [rlc[lc] EXCEPT !.tx = n])

PduIsNacked(lc) ==
    /\ lc \in Am /\ rlc[lc].retx = 0
    /\ \E n \in RetxSizes : Enqueue(lc, [rlc[lc] EXCEPT !.retx = n])

StatusIsWanted(lc) ==
    /\ lc \in StatusLcs /\ rlc[lc].status = 0
    /\ Enqueue(lc, [rlc[lc] EXCEPT !.status = StatusSize])

(* The periodic report of RLC. *)
ReportsAgain(lc) == rlc[lc] # Nothing /\ Enqueue(lc, rlc[lc])

Arrives(lc) == DataArrives(lc) \/ PduIsNacked(lc) \/ StatusIsWanted(lc)
TbNext ==
    \/ \E lc \in Lcs : Arrives(lc) \/ ReportsAgain(lc)
    \/ \E tbs \in Tbs : ProcessUlDci(tbs)

TbSpec == TbInit /\ [][TbNext]_tbVars

(* RLC's timer reports what waits, and the gNB goes on granting blocks.    *)
TbFairSpec ==
    /\ TbSpec
    /\ \A lc \in Lcs : WF_tbVars(ReportsAgain(lc))
    /\ \A tbs \in Tbs : WF_tbVars(ProcessUlDci(tbs))

-----------------------------------------------------------------------------
(* The assertions of DoTransmitPdu and SendBufferStatusReport: a grant is  *)
(* never overdrawn, its SHORT_BSR included.                                *)
FitsTb == totalUsed <= tb

(* The assertions of NrRlcAm::DoNotifyTxOpportunity: what RLC AM is        *)
(* offered is enough for the PDU it wants to send.                         *)
EnoughForAm ==
    \A o \in offers : o.lc \in Am => o.bytes >= 7 \/ (o.bytes = StatusSize /\ o.pdu = StatusSize)

(* What every grant leaves true: sizes do not underflow, the block is not  *)
(* overdrawn, and no assertion of RLC AM fails.                            *)
BlockInv == TbTypeOK /\ FitsTb /\ EnoughForAm

(* A block with space for all channels that wait with new data carries     *)
(* something besides the BSR.                                              *)
WaitsWith(kind, lc) ==
    CASE kind = "tx" -> bsr[lc].tx > 0 /\ rlc[lc].tx > 0 /\ rlc[lc].retx = 0
      [] kind = "retx" -> bsr[lc].retx > 0 /\ rlc[lc].retx > 0
Waiting(kind) == {lc \in Lcs : bsr[lc][kind] > 0}
NotWasted ==
    [][\A tbs \in Tbs :
          /\ ProcessUlDci(tbs)
          /\ Waiting("tx") # {} /\ \A lc \in Waiting("tx") : WaitsWith("tx", lc)
          /\ 10 * Cardinality(Waiting("tx")) + BsrSize <= tbs
          => \E o \in offers' : o.pdu > 0]_tbVars

(* Traffic that stops drains: a channel behind others gets its turn when   *)
(* they are empty.                                                         *)
NoMoreTraffic == <>[][\A lc \in Lcs : ~Arrives(lc)]_tbVars
Drains == NoMoreTraffic => <>[](\A lc \in Lcs : rlc[lc] = Nothing)

(* The comment in SendNewData: let's try to serve all the queues.  With    *)
(* space for the share and the subheader of each, each gets its share.     *)
ServesAll ==
    [][\A tbs \in Tbs :
          /\ ProcessUlDci(tbs) /\ \A lc \in Lcs : bsr[lc].status = 0
          /\ 10 * Cardinality(Waiting("retx")) + BsrSize <= tbs
          => \A lc \in Waiting("retx") : \E o \in offers' : o.lc = lc]_tbVars

(* The comment in CreateUlDci: below 12 bytes no new data can be sent, so  *)
(* that no DCI is made.                                                    *)
DciCarriesData ==
    [][\A tbs \in Tbs, lc \in Lcs :
          /\ ProcessUlDci(tbs)
          /\ Waiting("tx") = {lc} /\ WaitsWith("tx", lc) /\ Waiting("retx") = {}
          => \E o \in offers' : o.pdu > 0]_tbVars
=============================================================================

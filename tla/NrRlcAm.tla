------------------------------- MODULE NrRlcAm -------------------------------
(***************************************************************************)
(* RLC AM (nr-rlc-am.cc), one direction: the transmitting side of one      *)
(* entity, the receiving side of its peer, and the two links between them  *)
(* on which MAC loses and reorders PDUs.                                   *)
(*                                                                         *)
(* SDUs are numbered from 1, and a PDU carries one of them: segmentation   *)
(* is that of NrRlcUmTx.  The receiver reads of a data PDU its sequence    *)
(* number, taken modulo M, and its poll bit.  Timers may expire at any     *)
(* moment while they run.                                                  *)
(***************************************************************************)
EXTENDS Integers, SequencesExt, FiniteSetsExt

CONSTANTS
    M,             \* the sequence numbers: 1024
    W,             \* m_windowSize: 512
    NackRoom,      \* how many NACKs an opportunity for a STATUS PDU may hold
    Overtakes,     \* a STATUS PDU may overtake an earlier one
    LateRetx,      \* the poll timer may run out before MAC serves a retransmission
    MaxSdus,       \* bound on the SDUs accepted
    MaxAir         \* bound on the PDUs under way on each link

ASSUME WindowAssumption == W \in Nat \ {0} /\ M = 2 * W
ASSUME LinkAssumption ==
    /\ NackRoom \subseteq Nat \ {0} /\ {Overtakes, LateRetx} \subseteq BOOLEAN
    /\ MaxSdus \in Nat /\ MaxAir \in Nat

VARIABLES
    accepted,      \* SDUs accepted so far
    built,         \* SDUs sent for a first time; VT(S) = built % M
    vtA,           \* m_vtA
    txed, retx,    \* m_txedBuffer, m_retxBuffer: by sequence number, 0 if empty
    pollSn,        \* m_pollSn
    pollTimer,     \* m_pollRetransmitTimer is pending
    justExpired,   \* m_pollRetransmitTimerJustExpired
    bsrTimer,      \* m_bsrTimer is pending
    rxon,          \* m_rxonBuffer: by sequence number, 0 if absent
    vrR, vrX, vrMs, vrH,
    reordering,    \* m_reorderingTimer is pending
    requested,     \* m_statusPduRequested
    prohibit,      \* m_statusProhibitTimer is pending
    told,          \* external: MAC knows that a STATUS PDU waits
    delivered,     \* SDUs given to PDCP
    air,           \* external: data PDUs under way
    statuses       \* external: STATUS PDUs under way, the oldest first

sender == <<accepted, built, vtA, txed, retx, pollSn, pollTimer, justExpired, bsrTimer>>
receiver == <<rxon, vrR, vrX, vrMs, vrH, reordering, requested, prohibit, told, delivered>>
vars == <<sender, receiver, air, statuses>>

Sn == 0..(M - 1)
Sdu == 1..MaxSdus
DataPdu == [n : Sdu, poll : BOOLEAN]
StatusPdu == [ack : Sn, nacks : SUBSET Sn]

(* Type invariant. *)
TypeOK ==
    /\ accepted \in 0..MaxSdus /\ built \in 0..accepted
    /\ txed \in [Sn -> 0..MaxSdus] /\ retx \in [Sn -> 0..MaxSdus] /\ rxon \in [Sn -> 0..MaxSdus]
    /\ {vtA, pollSn, vrR, vrX, vrMs, vrH} \subseteq Sn
    /\ {pollTimer, justExpired, bsrTimer, reordering, requested, prohibit, told} \subseteq BOOLEAN
    /\ delivered \in Seq(Sdu)
    /\ air \in Seq(DataPdu) /\ statuses \in Seq(StatusPdu)

Init ==
    /\ accepted = 0 /\ built = 0 /\ vtA = 0
    /\ txed = [sn \in Sn |-> 0] /\ retx = [sn \in Sn |-> 0]
    /\ pollSn = 0 /\ pollTimer = FALSE /\ justExpired = FALSE /\ bsrTimer = FALSE
    /\ rxon = [sn \in Sn |-> 0]
    /\ vrR = 0 /\ vrX = 0 /\ vrMs = 0 /\ vrH = 0
    /\ reordering = FALSE /\ requested = FALSE /\ prohibit = FALSE /\ told = FALSE
    /\ delivered = <<>> /\ air = <<>> /\ statuses = <<>>

-----------------------------------------------------------------------------
(* SequenceNumber10: comparisons are made from a modulus base. *)
Rel(sn, base) == (sn - base) % M
Plus(sn, k) == (sn + k) % M
SnOf(n) == (n - 1) % M
Held(buffer) == {sn \in Sn : buffer[sn] # 0}

VtS == built % M
Waiting == accepted > built
Stalled == Rel(VtS, vtA) = W

Unacked == Held(txed) \cup Held(retx) # {}

(* DoTransmitPdcpPdu *)
DoTransmitPdcpPdu ==
    /\ accepted < MaxSdus
    /\ accepted' = accepted + 1
    /\ bsrTimer' = TRUE
    /\ UNCHANGED <<built, vtA, txed, retx, pollSn, pollTimer, justExpired, receiver, air, statuses>>

Transmit(n, poll) == air' = Append(air, [n |-> n, poll |-> poll])

(* A poll asks for the status of everything built, and starts the timer    *)
(* anew.                                                                   *)
Poll(poll, last) ==
    IF poll
    THEN pollSn' = SnOf(last) /\ pollTimer' = TRUE /\ justExpired' = FALSE
    ELSE UNCHANGED <<pollSn, pollTimer, justExpired>>

(* DoNotifyTxOpportunity, m_retxBufferSize > 0: the PDU nearest to VT(A).  *)
PollsIfLast(sn) == ~Waiting /\ Held(retx) = {sn} /\ sn = vtA   \* mutated form
PollsOnRetx(sn) ==
    \/ ~Waiting /\ Held(retx) = {sn}
    \/ Rel(VtS, vtA) >= W
    \/ justExpired

Retransmit ==
    /\ Held(retx) # {}
    /\ Len(air) < MaxAir
    /\ \E sn \in Held(retx) :
          /\ \A other \in Held(retx) : Rel(sn, vtA) <= Rel(other, vtA)
          /\ txed' = [txed EXCEPT ![sn] = retx[sn]]
          /\ retx' = [retx EXCEPT ![sn] = 0]
          /\ Transmit(retx[sn], PollsOnRetx(sn))
          /\ Poll(PollsOnRetx(sn), built)
    /\ bsrTimer' = TRUE
    /\ UNCHANGED <<accepted, built, vtA, receiver, statuses>>

(* DoNotifyTxOpportunity, new data.  m_pollPdu is 1: every new PDU polls.  *)
MaySendNew == ~Stalled
SendNew ==
    /\ Held(retx) = {} /\ Waiting /\ MaySendNew
    /\ Len(air) < MaxAir
    /\ built' = built + 1
    /\ txed' = [txed EXCEPT ![VtS] = built + 1]
    /\ Transmit(built + 1, TRUE)
    /\ Poll(TRUE, built + 1)
    /\ bsrTimer' = TRUE
    /\ UNCHANGED <<accepted, vtA, retx, receiver, statuses>>

(* Everything sent is sent again when nothing else can be. *)
ExpirePollRetransmitTimer ==
    /\ pollTimer
    /\ LateRetx \/ Held(retx) = {} \/ Stalled
    /\ pollTimer' = FALSE /\ justExpired' = TRUE
    /\ IF (~Waiting /\ Held(retx) = {}) \/ Stalled
       THEN /\ retx' = [sn \in Sn |-> IF txed[sn] # 0 THEN txed[sn] ELSE retx[sn]]
            /\ txed' = [sn \in Sn |-> 0]
       ELSE UNCHANGED <<txed, retx>>
    /\ UNCHANGED <<accepted, built, vtA, pollSn, bsrTimer, receiver, air, statuses>>

ExpireBsrTimer ==
    /\ bsrTimer /\ ~Waiting /\ ~Unacked
    /\ bsrTimer' = FALSE
    /\ UNCHANGED <<accepted, built, vtA, txed, retx, pollSn, pollTimer, justExpired,
                   receiver, air, statuses>>

(* DoReceivePdu, STATUS PDU: the numbers from VT(A) up to the ACK_SN, and  *)
(* no further than VT(S).  An ACK_SN behind VT(A) compares as one far      *)
(* ahead of it.                                                            *)
Considered(s) ==
    {sn \in Sn : Rel(sn, vtA) < Rel(s.ack, vtA) /\ Rel(sn, vtA) < Rel(VtS, vtA)}
Nacked(s) == Considered(s) \cap s.nacks

RetxAfter(s) ==
    [sn \in Sn |->
        IF sn \in Nacked(s) THEN (IF txed[sn] # 0 THEN txed[sn] ELSE retx[sn])
        ELSE IF sn \in Considered(s) THEN 0 ELSE retx[sn]]

VtAAfter(s) ==
    IF Nacked(s) = {} THEN Plus(vtA, Cardinality(Considered(s)))
    ELSE CHOOSE sn \in Nacked(s) : \A other \in Nacked(s) : Rel(sn, vtA) <= Rel(other, vtA)

CancelsAlways(s) == TRUE                                      \* mutated form
CancelsPoll(s) == pollSn \in Considered(s)

ReceiveStatus(i) ==
    /\ i = 1 \/ Overtakes
    /\ LET s == statuses[i]
       IN  /\ txed' = [sn \in Sn |-> IF sn \in Considered(s) THEN 0 ELSE txed[sn]]
           /\ retx' = RetxAfter(s)
           /\ vtA' = VtAAfter(s)
           /\ pollTimer' = (pollTimer /\ ~CancelsPoll(s))
    /\ statuses' = RemoveAt(statuses, i)
    /\ UNCHANGED <<accepted, built, pollSn, justExpired, bsrTimer, receiver, air>>

-----------------------------------------------------------------------------
InsideWindow(sn, r) == Rel(sn, r) < W

(* The first number from sn on that is not in the buffer. *)
FirstMissing(buffer, sn) ==
    Plus(sn, CHOOSE k \in 0..(M - 1) :
                /\ buffer[Plus(sn, k)] = 0
                /\ \A j \in 0..(k - 1) : buffer[Plus(sn, j)] # 0)

Discards(sn) == ~InsideWindow(sn, vrR)

(* t-Reordering is stopped once nothing below VR(X) is missing. *)
StillRuns(r) == vrX # r /\ (InsideWindow(vrX, r) \/ vrX = Plus(r, W))

(* DoReceivePdu, data PDU.  MAC holds a PDU back for less than a window of *)
(* newer ones.                                                             *)
ReceiveData(i) ==
    LET sn == SnOf(air[i].n)
        buffer == [rxon EXCEPT ![sn] = IF @ = 0 THEN air[i].n ELSE @]
        h == IF Rel(sn, vrR) >= Rel(vrH, vrR) THEN Plus(sn, 1) ELSE vrH
        r == IF sn = vrR THEN FirstMissing(buffer, vrR) ELSE vrR
        gone == {x \in Sn : Rel(x, vrR) < Rel(r, vrR)}
        runs == reordering /\ StillRuns(r)
    IN  /\ Len(delivered) - air[i].n < W
        /\ air' = RemoveAt(air, i)
        /\ requested' = (requested \/ air[i].poll)
        /\ told' = (told \/ (air[i].poll /\ ~prohibit))
        /\ IF Discards(sn)
           THEN UNCHANGED <<rxon, vrR, vrX, vrMs, vrH, reordering, delivered>>
           ELSE /\ vrH' = h
                /\ vrMs' = FirstMissing(buffer, vrMs)
                /\ vrR' = r
                /\ delivered' = delivered \o [k \in 1..Rel(r, vrR) |-> buffer[Plus(vrR, k - 1)]]
                /\ rxon' = [x \in Sn |-> IF x \in gone THEN 0 ELSE buffer[x]]
                /\ reordering' = (runs \/ Rel(h, r) > 0)
                /\ vrX' = IF ~runs /\ Rel(h, r) > 0 THEN h ELSE vrX
        /\ UNCHANGED <<prohibit, sender, statuses>>

(* DoNotifyTxOpportunity, STATUS PDU: the first room numbers missing below *)
(* VR(MS); ACK_SN is the next one missing, or VR(MS).                      *)
Missing == {sn \in Sn : Rel(sn, vrR) < Rel(vrMs, vrR) /\ rxon[sn] = 0}
MissingBefore(sn) == {x \in Missing : Rel(x, vrR) < Rel(sn, vrR)}

AcksHighest(room) == vrH                                      \* mutated form
AckSn(room) ==
    IF Cardinality(Missing) <= room THEN vrMs
    ELSE CHOOSE sn \in Missing : Cardinality(MissingBefore(sn)) = room

SendStatus(room) ==
    /\ requested /\ ~prohibit
    /\ Len(statuses) < MaxAir
    /\ statuses' = Append(statuses,
                          [ack |-> AckSn(room),
                           nacks |-> {sn \in Missing : Cardinality(MissingBefore(sn)) < room}])
    /\ requested' = FALSE /\ told' = FALSE
    /\ prohibit' = TRUE
    /\ UNCHANGED <<sender, rxon, vrR, vrX, vrMs, vrH, reordering, delivered, air>>

StartsAgain(ms) == Rel(vrH, vrR) > Rel(ms, vrR)
ExpireReorderingTimer ==
    /\ reordering
    /\ vrMs' = FirstMissing(rxon, vrX)
    /\ reordering' = StartsAgain(vrMs')
    /\ vrX' = IF reordering' THEN vrH ELSE vrX
    /\ requested' = TRUE
    /\ UNCHANGED <<sender, rxon, vrR, vrH, prohibit, told, delivered, air, statuses>>

(* MAC is not told of a report that has become possible. *)
ExpireStatusProhibitTimer ==
    /\ prohibit
    /\ prohibit' = FALSE
    /\ UNCHANGED <<sender, rxon, vrR, vrX, vrMs, vrH, reordering, requested, told, delivered,
                   air, statuses>>

-----------------------------------------------------------------------------
(* HARQ gives up. *)
LoseData(i) == air' = RemoveAt(air, i) /\ UNCHANGED <<sender, receiver, statuses>>
LoseStatus(i) == statuses' = RemoveAt(statuses, i) /\ UNCHANGED <<sender, receiver, air>>

Next ==
    \/ DoTransmitPdcpPdu \/ Retransmit \/ SendNew
    \/ ExpirePollRetransmitTimer \/ ExpireBsrTimer
    \/ \E i \in DOMAIN air : ReceiveData(i) \/ LoseData(i)
    \/ \E i \in DOMAIN statuses : ReceiveStatus(i) \/ LoseStatus(i)
    \/ \E room \in NackRoom : SendStatus(room)
    \/ ExpireReorderingTimer \/ ExpireStatusProhibitTimer

Spec == Init /\ [][Next]_vars

(* Timers are events of the simulator; MAC serves a queue it was told of,  *)
(* and is told again as long as something is unacknowledged.  A PDU does   *)
(* not stay under way, and the link that is tried forever works at times.  *)
Fairness ==
    /\ WF_vars(Retransmit \/ SendNew)
    /\ WF_vars(ExpirePollRetransmitTimer)
    /\ WF_vars(told /\ \E room \in NackRoom : SendStatus(room))
    /\ WF_vars(ExpireReorderingTimer) /\ WF_vars(ExpireStatusProhibitTimer)
    /\ WF_vars(\E i \in DOMAIN air : ReceiveData(i) \/ LoseData(i))
    /\ \A n \in Sdu : SF_vars(\E i \in DOMAIN air : air[i].n = n /\ ReceiveData(i))
    /\ SF_vars(\E i \in DOMAIN air : air[i].poll /\ ReceiveData(i))
    /\ SF_vars(\E i \in DOMAIN statuses : ReceiveStatus(i))

FairSpec == Spec /\ Fairness

-----------------------------------------------------------------------------
Received == {delivered[i] : i \in DOMAIN delivered} \cup {rxon[sn] : sn \in Held(rxon)}

(* A PDU leaves the buffers of the transmitter only when the peer has it:  *)
(* what the comment in DoReceivePdu calls a positive acknowledgement, the  *)
(* confirmation of successful reception by its peer.                       *)
HeldUntilReceived ==
    \A n \in 1..built : n \in Received \/ txed[SnOf(n)] = n \/ retx[SnOf(n)] = n

(* The buffers hold numbers of the window VT(A)..VT(S)-1 only, each in one *)
(* of them: what lets 1024 slots serve any number of PDUs.                 *)
OneBuffer ==
    /\ Rel(VtS, vtA) <= W
    /\ Held(txed) \cap Held(retx) = {}
    /\ \A sn \in Held(txed) \cup Held(retx) : Rel(sn, vtA) < Rel(VtS, vtA)

(* A STATUS PDU asks only for PDUs the transmitter has: an assertion in    *)
(* DoReceivePdu.                                                           *)
NackedIsHeld ==
    \A i \in DOMAIN statuses :
        i = 1 \/ Overtakes => Nacked(statuses[i]) \subseteq Held(txed) \cup Held(retx)

(* A transmitter that waits for an answer and can send nothing has its     *)
(* poll timer running, or the timer ran out since the last poll.           *)
MustAsk == Held(txed) # {} /\ Held(retx) = {} /\ (~Waiting \/ Stalled)
KeepsAsking == MustAsk => pollTimer \/ justExpired

(* The timer itself runs: not so when it ran out while a PDU waited to be  *)
(* sent again, since the code then moves nothing, and a report came to     *)
(* acknowledge that PDU before it was sent.                                *)
TimerRuns == MustAsk => pollTimer

(* VR(R) <= VR(MS) <= VR(H) <= VR(MR), and a gap that no report shows yet  *)
(* has t-Reordering running.                                               *)
GapsWatched ==
    /\ Rel(vrMs, vrR) <= Rel(vrH, vrR) /\ Rel(vrH, vrR) <= W
    /\ vrMs # vrH => reordering

(* What every event leaves true of the two entities. *)
EntityInv == TypeOK /\ OneBuffer /\ NackedIsHeld /\ KeepsAsking /\ GapsWatched

(* The window protocol implements the reliable, ordered service: what the  *)
(* receiving entity gives to PDCP is what the transmitting one accepted.   *)
Service == INSTANCE AmService
ServiceSpec == Service!Spec
=============================================================================

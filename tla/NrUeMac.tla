------------------------------- MODULE NrUeMac -------------------------------
(***************************************************************************)
(* The uplink side of one UE MAC entity (contrib/nr/model/nr-ue-mac.cc):   *)
(* the SR/BSR machine with its RetxBsrTimer, the handling of UL DCIs, the  *)
(* uplink HARQ packet buffers and the calls RRC makes (random access,      *)
(* logical channels, reset).                                               *)
(*                                                                         *)
(* Time is counted in MAC slots.  A timer of T slots started between two   *)
(* slot indications expires after T further indications and before the     *)
(* next; started inside an indication it expires together with the T-th    *)
(* one, on either side of it.                                              *)
(***************************************************************************)
EXTENDS Integers, FiniteSets

CONSTANTS
    LCs,           \* LCIDs of SRB1 and the DRBs (LC 0 is inside RecvRaResponse)
    MaxBuf,        \* bound on the byte total an RLC entity reports
    RetxBsrTimer,  \* m_retxBsrTimerValue, in slots
    SrPeriod,      \* m_srPeriodicitySlots, 0 when the SR grid is disabled
    SrOffset,      \* m_srOffsetSlots
    HarqIds,       \* UL HARQ processes
    Rntis          \* RNTIs a gNB may assign

InitialRnti == 65535   \* m_rnti before any access
Off   == -1            \* the timer's event is not pending
NoDci == -1            \* m_ulDci is null
Msg3Harq == 0          \* RecvRaResponse sends Msg3 with harqId 0

ASSUME BufAssumption   == MaxBuf \in Nat
ASSUME TimerAssumption == RetxBsrTimer \in Nat \ {0}
ASSUME GridAssumption  == SrPeriod \in Nat /\ SrOffset \in Nat
ASSUME HarqAssumption  == HarqIds \subseteq Nat /\ Msg3Harq \in HarqIds
ASSUME RntiAssumption  == Rntis \subseteq Nat \ {0}

VARIABLES
    srState,   \* m_srState
    timer,     \* m_retxBsrTimer: slots until it must have fired, or Off
    slot,      \* m_currentSlot, modulo the SR period
    rnti,      \* m_rnti, 0 after a reset
    ra,        \* the random access in progress
    lcs,       \* keys of m_lcInfoMap other than LC 0
    reported,  \* keys of m_ulBsrReceived
    bytes,     \* tx + retx + status bytes m_ulBsrReceived holds per LC
    harqBuf,   \* m_miUlHarqProcessesPacket: what the process's burst holds
    ulDci,     \* HARQ process of the last m_ulDci
    granted,   \* the gNB's view: processes it gave a new-data grant
    out        \* what the last step handed to PHY

srVars  == <<srState, timer>>
bufVars == <<lcs, reported, bytes>>
vars == <<srState, timer, slot, rnti, ra, lcs, reported, bytes, harqBuf, ulDci,
          granted, out>>

SrStates == {"INACTIVE", "TO_SEND", "ACTIVE"}
Msgs     == {"sr", "bsr", "data", "empty", "retx", "msg3"}
Slots    == 0 .. (IF SrPeriod = 0 THEN 0 ELSE SrPeriod - 1)

(***************************************************************************)
(* One type invariant for the module.                                      *)
(***************************************************************************)
TypeOK ==
    /\ srState \in SrStates
    /\ timer \in 0 .. RetxBsrTimer \cup {Off}
    /\ slot \in Slots
    /\ rnti \in Rntis \cup {0, InitialRnti}
    /\ ra \in {"none", "contention", "dedicated"}
    /\ lcs \subseteq LCs
    /\ reported \subseteq lcs
    /\ bytes \in [LCs -> Nat]
    /\ harqBuf \in [HarqIds -> {"fresh", "null", "data"}]
    /\ ulDci \in HarqIds \cup {NoDci}
    /\ granted \subseteq HarqIds
    /\ out \subseteq Msgs

(* GetTotalBufSize() > 0 *)
Buffered(buf) == \E l \in LCs : buf[l] > 0

(* IsSrOpportunity: the slot is on the UE's SR grid, or there is no grid. *)
IsSrOpportunity(s) == SrPeriod # 0 => s % SrPeriod = SrOffset % SrPeriod

Init ==
    /\ srState = "INACTIVE"
    /\ timer = Off
    /\ slot = 0
    /\ rnti = InitialRnti
    /\ ra = "none"
    /\ lcs = {}
    /\ reported = {}
    /\ bytes = [l \in LCs |-> 0]
    /\ harqBuf = [h \in HarqIds |-> "fresh"]
    /\ ulDci = NoDci
    /\ granted = {}
    /\ out = {}

-----------------------------------------------------------------------------
(* The aggregate buffer is empty: StopRetxBsrTimer and INACTIVE. *)
IdleKeepsTimer == srState' = "INACTIVE" /\ UNCHANGED timer   \* mutated form
Idle == srState' = "INACTIVE" /\ timer' = Off

(* A report of data raises a request in an idle machine only: an ACTIVE    *)
(* one waits for its grant with the timer running.                         *)
RequestAnyTime == srState' = "TO_SEND" /\ UNCHANGED timer    \* mutated form
RequestRestarts ==                                           \* mutated form
    /\ srState' = IF srState = "INACTIVE" THEN "TO_SEND" ELSE srState
    /\ timer' = IF srState = "ACTIVE" THEN RetxBsrTimer ELSE timer
RequestIfIdle ==
    /\ srState' = IF srState = "INACTIVE" THEN "TO_SEND" ELSE srState
    /\ UNCHANGED timer

(* RLC reports the queue sizes of a configured channel; n is their total. *)
DoTransmitBufferStatusReport(l, n) ==
    /\ l \in lcs
    /\ bytes' = [bytes EXCEPT ![l] = n]
    /\ reported' = reported \cup {l}
    /\ \/ ~Buffered(bytes') /\ Idle
       \/ Buffered(bytes') /\ RequestIfIdle
    /\ out' = {}
    /\ UNCHANGED <<slot, rnti, ra, lcs, harqBuf, ulDci, granted>>

(* A slot begins.  RefreshHarqProcessesPacketBuffer leaves the buffers as  *)
(* they are: a process's timer is zero only while it holds no packet.      *)
(* SendSR sends nothing and starts no timer while the RNTI is 0, and the   *)
(* caller enters ACTIVE all the same.                                      *)
DoSlotIndication ==
    LET tick == IF timer = Off THEN Off ELSE timer - 1
        now  == (slot + 1) % Cardinality(Slots)
    IN
    /\ timer # 0
    /\ slot' = now
    /\ \/ /\ srState = "TO_SEND" /\ IsSrOpportunity(now)
          /\ srState' = "ACTIVE"
          /\ \/ rnti = 0 /\ out' = {} /\ timer' = tick
             \/ rnti # 0 /\ out' = {"sr"} /\ timer' = RetxBsrTimer
       \/ /\ ~(srState = "TO_SEND" /\ IsSrOpportunity(now))
          /\ out' = {} /\ timer' = tick
          /\ UNCHANGED srState
    /\ UNCHANGED <<rnti, ra, bufVars, harqBuf, ulDci, granted>>

(* What an expiry asks for while data is buffered. *)
NoRecovery(s) == s                                            \* mutated form
Recovery(s) == IF s = "ACTIVE" THEN "TO_SEND" ELSE s

(* The RetxBsrTimer fires, at its deadline or together with that slot. *)
ExpireRetxBsrTimer ==
    /\ timer \in {0, 1}
    /\ timer' = Off
    /\ srState' = IF Buffered(bytes) THEN Recovery(srState) ELSE "INACTIVE"
    /\ out' = {}
    /\ UNCHANGED <<slot, rnti, ra, bufVars, harqBuf, ulDci, granted>>

(* SendBufferStatusReport: what it adds to the grant. *)
Bsr == IF rnti = 0 \/ reported = {} THEN {} ELSE {"bsr"}

(* SendNewData leaves the burst null when the grant carried no byte, so    *)
(* that a retransmission finds nothing; the empty PDU is stored again.     *)
UnusedBurst(used, empty) == IF used \/ empty THEN "data" ELSE "fresh"  \* mutated form
NewDataBurst(used, empty) == IF used \/ empty THEN "data" ELSE "null"

(* A UL DCI with ndi = 1.  SendNewData lowers the reported totals by what  *)
(* it offered to RLC; RLC may use less than it was offered, so `used' (a   *)
(* byte went out) and `left' (the totals after it) are only loosely tied.  *)
UlDciNewData(h, left, used) ==
    LET empty == ~Buffered(left) /\ ~used /\ Bsr = {} IN
    /\ rnti # 0
    /\ \A l \in LCs : left[l] <= bytes[l]
    /\ used => Buffered(bytes)
    /\ bytes' = left
    /\ ulDci' = h
    /\ granted' = granted \cup {h}
    /\ harqBuf' = [harqBuf EXCEPT ![h] = NewDataBurst(used, empty)]
    /\ out' = Bsr \cup (IF used THEN {"data"} ELSE {})
                  \cup (IF empty THEN {"empty"} ELSE {})
    /\ \/ ~Buffered(left) /\ Idle
       \/ Buffered(left) /\ srState' = "ACTIVE" /\ timer' = RetxBsrTimer
    /\ UNCHANGED <<slot, rnti, ra, lcs, reported>>

(* A UL DCI with ndi = 0: the burst again, if there is one, and a new BSR. *)
UlDciRetx(h) ==
    /\ rnti # 0
    /\ h \in granted
    /\ ulDci' = h
    /\ out' = Bsr \cup (IF harqBuf[h] = "null" THEN {} ELSE {"retx"})
    /\ UNCHANGED <<srVars, slot, rnti, ra, bufVars, harqBuf, granted>>

(* RRC starts an access: contention-based from idle, dedicated in a        *)
(* handover, where the target's RNTI is known beforehand.                  *)
StartContentionRa ==
    /\ ra = "none" /\ rnti \in {0, InitialRnti}
    /\ ra' = "contention"
    /\ out' = {}
    /\ UNCHANGED <<srVars, slot, rnti, bufVars, harqBuf, ulDci, granted>>

StartNonContentionRa(r) ==
    /\ ra = "none" /\ rnti = 0
    /\ ra' = "dedicated"
    /\ rnti' = r
    /\ out' = {}
    /\ UNCHANGED <<srVars, slot, bufVars, harqBuf, ulDci, granted>>

(* The RAR arrives.  In a contention-based access with the real RRC the    *)
(* upper layers queue Msg3 on LC 0 inside this call: its report starts an  *)
(* SR, its transmission opportunity empties the queue (the PDU reaches PHY *)
(* only if some UL DCI was seen before: DoTransmitPdu returns when m_ulDci *)
(* is null) and the LC 0 entry is erased without a further report.         *)
RecvRaResponse(r, msg3) ==
    /\ ra # "none"
    /\ ra = "dedicated" => r = rnti
    /\ msg3 => ra = "contention"
    /\ ra' = "none"
    /\ rnti' = r
    /\ srState' = IF msg3 /\ srState = "INACTIVE" THEN "TO_SEND" ELSE srState
    /\ \/ /\ msg3 /\ ulDci # NoDci
          /\ out' = {"msg3"}
          /\ harqBuf' = [harqBuf EXCEPT ![Msg3Harq] = "data"]
       \/ /\ ~(msg3 /\ ulDci # NoDci)
          /\ out' = {}
          /\ UNCHANGED harqBuf
    /\ UNCHANGED <<timer, slot, bufVars, ulDci, granted>>

(* RRC configures a channel: after the RNTI is known, in the connection    *)
(* set-up and in a handover.                                               *)
AddLc(l) ==
    /\ rnti \notin {0, InitialRnti}
    /\ l \notin lcs
    /\ lcs' = lcs \cup {l}
    /\ out' = {}
    /\ UNCHANGED <<srVars, slot, rnti, ra, reported, bytes, harqBuf, ulDci, granted>>

(* Mutated form: the report of a released channel stays. *)
RemoveLcKeepsReport(l) ==
    /\ l \in lcs
    /\ lcs' = lcs \ {l}
    /\ out' = {}
    /\ UNCHANGED <<srVars, slot, rnti, ra, reported, bytes, harqBuf, ulDci, granted>>

(* A bearer is released: its report goes, the SR/BSR machine stays. *)
DoRemoveLc(l) ==
    /\ l \in lcs
    /\ lcs' = lcs \ {l}
    /\ reported' = reported \ {l}
    /\ bytes' = [bytes EXCEPT ![l] = 0]
    /\ out' = {}
    /\ UNCHANGED <<srVars, slot, rnti, ra, harqBuf, ulDci, granted>>

(* Handover, radio link failure or a failed access: HARQ buffers and the   *)
(* last DCI stay; the next cell has granted no process yet.                *)
ForgetCell ==
    /\ rnti' = 0
    /\ ra' = "none"
    /\ lcs' = {} /\ reported' = {} /\ bytes' = [l \in LCs |-> 0]
    /\ granted' = {}
    /\ out' = {}

ResetKeepsSr ==                                               \* mutated form
    ForgetCell /\ UNCHANGED <<srVars, slot, harqBuf, ulDci>>
DoReset == ForgetCell /\ Idle /\ UNCHANGED <<slot, harqBuf, ulDci>>

ReportStep  == \E l \in LCs, n \in 0 .. MaxBuf : DoTransmitBufferStatusReport(l, n)
NewDataStep == \E h \in HarqIds, left \in [LCs -> 0 .. MaxBuf], used \in BOOLEAN :
                   UlDciNewData(h, left, used)

Next ==
    \/ ReportStep
    \/ DoSlotIndication
    \/ ExpireRetxBsrTimer
    \/ NewDataStep
    \/ \E h \in HarqIds : UlDciRetx(h)
    \/ StartContentionRa
    \/ \E r \in Rntis : StartNonContentionRa(r)
    \/ \E r \in Rntis, msg3 \in BOOLEAN : RecvRaResponse(r, msg3)
    \/ \E l \in LCs : AddLc(l)
    \/ \E l \in LCs : DoRemoveLc(l)
    \/ DoReset

Spec == Init /\ [][Next]_vars

-----------------------------------------------------------------------------
(* No stall: a UE with reported data either waits for an SR opportunity or *)
(* for a grant with the recovery timer running.                            *)
NoStall ==
    Buffered(bytes) => \/ srState = "TO_SEND"
                       \/ srState = "ACTIVE" /\ timer # Off

(* The timer runs exactly while the machine is ACTIVE, so that no stale    *)
(* expiry can turn a later request into a second SR, and a machine that    *)
(* waits for a grant always has a way out.                                 *)
TimerIffActive == timer # Off <=> srState = "ACTIVE"

(* The types of the variables, and the timer of the machine's state. *)
MacInv == TypeOK /\ TimerIffActive

(* No SR is due while the MAC has no RNTI: SendSR would drop it silently   *)
(* and the UE would be ACTIVE without a timer.                             *)
NoSrWithoutRnti == rnti = 0 => srState = "INACTIVE" /\ lcs = {}

(* The assertion of TransmitRetx: a retransmission asked for by the gNB    *)
(* finds a null burst or one with packets, never an unused one.            *)
RetxHasPackets == \A h \in granted : harqBuf[h] # "fresh"

(* The comment in RecvRaResponse: the grant in the RAR carries Msg3 over   *)
(* LC 0.  Every response with a connection request pending hands it to PHY. *)
Msg3Sent ==
    [][\A r \in Rntis : RecvRaResponse(r, TRUE) => "msg3" \in out']_vars
=============================================================================

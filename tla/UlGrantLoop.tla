----------------------------- MODULE UlGrantLoop -----------------------------
(***************************************************************************)
(* The uplink grant loop of one connected UE: its MAC (NrUeMac) and the    *)
(* gNB's (NrMacSchedulerUl), joined by what travels between them.          *)
(*                                                                         *)
(* SRs and DCIs go over ideal control channels (the control messages of    *)
(* NrPhy), late but safe.  A BSR is a subpdu of the granted TB: it may be  *)
(* decoded late, after the BSR of a newer TB, or never.  A process has one *)
(* TB on its way at a time and in the end it is decoded or given up, which *)
(* is what NrUlHarq shows (FeedbackMatches, TbLeaves).                     *)
(***************************************************************************)
EXTENDS Integers, FiniteSets

CONSTANTS
    MaxBuf,        \* largest report of RLC, in units of one grant
    RetxBsrTimer, SrPeriod, SrOffset, HarqIds,
    NoBsr          \* no report of the UE is queued

Ue    == 1         \* its RNTI
Drb   == 4         \* LCID of its bearer
Group == 2         \* GetLogicalChannelGroup(Drb)
Tb    == 12        \* bytes of a grant
BytesOf(n) == 10 * n   \* what a BSR makes of n units

ASSUME BufAssumption  == MaxBuf \in Nat
ASSUME UeAssumption   == RetxBsrTimer \in Nat \ {0} /\ SrPeriod \in Nat /\ SrOffset \in Nat
ASSUME HarqAssumption == HarqIds \subseteq Nat

VARIABLES
    srState, timer, slot, rnti, ra, lcs, reported, bytes, harqBuf, ulDci,
    granted, out,
    known, left, bearers, lcOf, est, pending, srList, srIn, bsrIn, dci, capped,
    aborted,
    srAir,         \* an SR is on its way
    link           \* per HARQ process: Free, a DCI on its way, or the TB's BSR

ueVars  == <<srState, timer, slot, rnti, ra, lcs, reported, bytes, harqBuf,
             ulDci, granted, out>>
gnbVars == <<known, left, bearers, lcOf, est, pending, srList, srIn, bsrIn, dci,
             capped, aborted>>
vars == <<ueVars, gnbVars, srAir, link>>

UE  == INSTANCE NrUeMac WITH LCs <- {Drb}, Rntis <- {Ue}
Gnb == INSTANCE NrMacSchedulerUl WITH
           UEs <- {Ue}, LCs <- {Drb}, LCGs <- {Group}, LcgOf <- [l \in {Drb} |-> Group],
           Levels <- {BytesOf(n) : n \in 0 .. MaxBuf}, TbSizes <- {Tb}

Free == -1
Dci  == -2
Backlog == bytes[Drb]
Estimate == est[Ue][Group]

TypeOK ==
    /\ UE!TypeOK /\ Gnb!TypeOK
    /\ srAir \in BOOLEAN
    /\ link \in [HarqIds -> {Free, Dci} \cup 0 .. MaxBuf]

(* The UE is connected, its bearer is configured on both sides and idle. *)
Init ==
    /\ srState = "INACTIVE" /\ timer = UE!Off /\ slot = 0
    /\ rnti = Ue /\ ra = "none"
    /\ lcs = {Drb} /\ reported = {} /\ bytes = [l \in {Drb} |-> 0]
    /\ harqBuf = [h \in HarqIds |-> "fresh"] /\ ulDci = UE!NoDci /\ granted = {}
    /\ out = {}
    /\ known = {Ue} /\ left = {}
    /\ bearers = [u \in {Ue} |-> {Drb}]
    /\ lcOf = [u \in {Ue} |-> [g \in {Group} |-> Drb]]
    /\ est = [u \in {Ue} |-> [g \in {Group} |-> 0]]
    /\ pending = {} /\ srList = {} /\ srIn = {}
    /\ bsrIn = [u \in {Ue} |-> NoBsr]
    /\ dci = [u \in {Ue} |-> 0] /\ capped = {} /\ aborted = FALSE
    /\ srAir = FALSE
    /\ link = [h \in HarqIds |-> Free]

-----------------------------------------------------------------------------
(* RLC reports what it has queued. *)
Report(n) ==
    /\ UE!DoTransmitBufferStatusReport(Drb, n)
    /\ UNCHANGED <<gnbVars, srAir, link>>

(* One slot for both.  Only some of the slots are uplink slots, and the    *)
(* scheduler may find no symbols or make no DCI; a grant needs a free HARQ *)
(* process (CanInsert).                                                    *)
GrantOn(h) == link[h] = Free
UlSlotWith(tb) == \E room \in BOOLEAN : Gnb!UlSlot(room, [u \in {Ue} |-> tb])

Slot ==
    /\ UE!DoSlotIndication
    /\ srAir' = (srAir \/ "sr" \in out')
    /\ \/ UNCHANGED <<gnbVars, link>>
       \/ UlSlotWith(0) /\ UNCHANGED link
       \/ UlSlotWith(Tb) /\ \E h \in HarqIds : GrantOn(h) /\ link' = [link EXCEPT ![h] = Dci]

GrantSlot == Slot /\ link' # link
RoomSlot  == Slot /\ Gnb!SrNow # {} /\ srList' = {} /\ srIn' = {}

Expire == UE!ExpireRetxBsrTimer /\ UNCHANGED <<gnbVars, srAir, link>>

SrArrives ==
    /\ srAir /\ srAir' = FALSE
    /\ Gnb!DoReportSrToScheduler(Ue)
    /\ UNCHANGED <<ueVars, link>>

(* A grant serves part of the backlog, if there is any, and the TB leaves  *)
(* with a BSR of the rest.                                                 *)
DciArrives(h) ==
    /\ link[h] = Dci
    /\ \E n \in 0 .. MaxBuf :
          /\ n < Backlog \/ n = 0
          /\ UE!UlDciNewData(h, [l \in {Drb} |-> n], Backlog > 0)
          /\ link' = [link EXCEPT ![h] = IF "bsr" \in out' THEN n ELSE Free]
    /\ UNCHANGED <<gnbVars, srAir>>

(* The gNB asks for the TB again: it goes out with a new BSR. *)
TbRetx(h) ==
    /\ link[h] >= 0
    /\ UE!UlDciRetx(h)
    /\ link' = [link EXCEPT ![h] = Backlog]
    /\ UNCHANGED <<gnbVars, srAir>>

TbDecoded(h) ==
    /\ link[h] >= 0
    /\ Gnb!DoReceivePhyPduBsr(Ue, [g \in {Group} |-> BytesOf(link[h])])
    /\ link' = [link EXCEPT ![h] = Free]
    /\ UNCHANGED <<ueVars, srAir>>

TbLost(h) ==
    /\ link[h] >= 0
    /\ link' = [link EXCEPT ![h] = Free]
    /\ UNCHANGED <<ueVars, gnbVars, srAir>>

Next ==
    \/ \E n \in 0 .. MaxBuf : Report(n)
    \/ Slot
    \/ Expire
    \/ SrArrives
    \/ \E h \in HarqIds : DciArrives(h) \/ TbRetx(h) \/ TbDecoded(h) \/ TbLost(h)

Fairness ==
    /\ WF_vars(Slot) /\ WF_vars(Expire) /\ WF_vars(SrArrives)
    /\ SF_vars(RoomSlot) /\ SF_vars(GrantSlot)
    /\ \A h \in HarqIds : WF_vars(DciArrives(h)) /\ WF_vars(TbDecoded(h) \/ TbLost(h))
    /\ SF_vars(\E h \in HarqIds : TbDecoded(h))

Spec == Init /\ [][Next]_vars /\ Fairness

-----------------------------------------------------------------------------
Service == INSTANCE UplinkService WITH queue <- Backlog, served <- "data" \in out

(* The loop implements the service: whatever BSR is lost, late or stale, a *)
(* backlog that is not withdrawn is served.                                *)
Serves == Service!Spec

(* Grants stop: once the UE has no more to send, the gNB's estimate goes   *)
(* to zero and stays there, although a grant lowers a seed of 12 bytes     *)
(* only to the smallest TB again and a stale BSR may raise it.             *)
GrantsStop == <>[](Backlog = 0) => <>[](Estimate = 0)
=============================================================================

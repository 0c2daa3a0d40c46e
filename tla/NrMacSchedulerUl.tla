--------------------------- MODULE NrMacSchedulerUl ---------------------------
(***************************************************************************)
(* How a gNB turns scheduling requests and buffer status reports into      *)
(* uplink grants: the queues NrGnbMac fills between two slots              *)
(* (nr-gnb-mac.cc) and the uplink estimates, SR list and bootstrap state   *)
(* of NrMacSchedulerNs3 (nr-mac-scheduler-ns3.cc, nr-mac-scheduler-lcg.cc, *)
(* nr-mac-scheduler-lc-rr.cc, nr-mac-scheduler-ofdma.cc).                  *)
(*                                                                         *)
(* One step UlSlot is one call of DoSlotUlIndication with everything the   *)
(* scheduler does in it.  What the radio leaves free is chosen freely:     *)
(* whether symbols remain after SRS, Msg3 and HARQ (room), and which UEs   *)
(* get a DCI with a TB of what size (tbs): an active UE without one has a  *)
(* retransmission in the slot, a full HARQ vector, no resources or too     *)
(* small a TB.  HARQ itself is NrUlHarq.                                   *)
(***************************************************************************)
EXTENDS Integers, FiniteSets

CONSTANTS
    UEs,        \* RNTIs; none is reused
    LCs, LCGs,  \* logical channels and their groups
    LcgOf,      \* GetLogicalChannelGroup
    Levels,     \* byte values a BSR level stands for
    TbSizes,    \* sizes of the TBs CreateUlDci makes
    NoBsr       \* no report of the UE is queued

SeedBytes == 12   \* DoScheduleUlSr; also the smallest TB and smallest remainder
RlcOverhead == 2  \* AssignedData
NoLc == 0         \* a group without a channel (LC 0 is never in one)

ASSUME LcAssumption == LCs \subseteq Nat \ {NoLc} /\ LcgOf \in [LCs -> LCGs]
ASSUME LevelAssumption == Levels \subseteq Nat
ASSUME TbAssumption == TbSizes \subseteq {n \in Nat : n >= SeedBytes}
(* An UL-BSR has four groups: every share of a TB covers the RLC header.   *)
ASSUME ShareAssumption == IsFiniteSet(LCGs) /\ Cardinality(LCGs) <= 4

Bsrs == [LCGs -> Levels]

ASSUME BsrAssumption == NoBsr \notin Bsrs

VARIABLES
    known,     \* keys of m_ueMap
    left,      \* UEs released: their RNTI is gone for good
    bearers,   \* m_rlcAttached: configured channels
    lcOf,      \* m_ulLCG: the one channel each uplink LCG holds
    est,       \* m_rlcTransmissionQueueSize of that channel
    pending,   \* m_srBootstrapUesPending
    srList,    \* m_srList
    srIn,      \* NrGnbMac::m_srRntiList
    bsrIn,     \* NrGnbMac::m_ulCeReceived, the last report of each UE
    dci,       \* TB size of the DCIs the last step made, 0 for none
    capped,    \* those made with the bootstrap MCS limit
    aborted    \* NS_ABORT_IF or an uncaught std::out_of_range ended the run

ueVars == <<known, left, bearers, lcOf>>
vars == <<ueVars, est, pending, srList, srIn, bsrIn, dci, capped, aborted>>

(***************************************************************************)
(* One type invariant for the module.                                      *)
(***************************************************************************)
TypeOK ==
    /\ known \subseteq UEs /\ left \subseteq UEs /\ known \cap left = {}
    /\ bearers \in [UEs -> SUBSET LCs]
    /\ lcOf \in [UEs -> [LCGs -> LCs \cup {NoLc}]]
    /\ est \in [UEs -> [LCGs -> Nat]]
    /\ pending \subseteq known
    /\ srList \subseteq UEs /\ srIn \subseteq UEs
    /\ bsrIn \in [UEs -> Bsrs \cup {NoBsr}]
    /\ dci \in [UEs -> TbSizes \cup {0}]
    /\ capped \subseteq UEs
    /\ aborted \in BOOLEAN

NoDci == [u \in UEs |-> 0]
Empty == [g \in LCGs |-> 0]
Quiet == dci' = NoDci /\ capped' = {}

HasData(e) == \E g \in LCGs : e[g] > 0

Init ==
    /\ known = {} /\ left = {}
    /\ bearers = [u \in UEs |-> {}]
    /\ lcOf = [u \in UEs |-> [g \in LCGs |-> NoLc]]
    /\ est = [u \in UEs |-> Empty]
    /\ pending = {} /\ srList = {} /\ srIn = {}
    /\ bsrIn = [u \in UEs |-> NoBsr]
    /\ dci = NoDci /\ capped = {}
    /\ aborted = FALSE

-----------------------------------------------------------------------------
(* RRC creates the UE in MAC and scheduler. *)
AddUe(u) ==
    /\ u \notin known \cup left
    /\ known' = known \cup {u}
    /\ Quiet
    /\ UNCHANGED <<left, bearers, lcOf, est, pending, srList, srIn, bsrIn, aborted>>

(* DoCschedLcConfigReq: an uplink group takes a channel only if it holds   *)
(* none.                                                                   *)
AddLc(u, l) ==
    LET g == LcgOf[l] IN
    /\ u \in known /\ l \notin bearers[u]
    /\ bearers' = [bearers EXCEPT ![u] = @ \cup {l}]
    /\ lcOf' = IF lcOf[u][g] = NoLc THEN [lcOf EXCEPT ![u][g] = l] ELSE lcOf
    /\ Quiet
    /\ UNCHANGED <<known, left, est, pending, srList, srIn, bsrIn, aborted>>

(* DoCschedLcReleaseReq: a group left without its channel is erased. *)
ReleaseLc(u, l) ==
    LET g == LcgOf[l] IN
    /\ u \in known /\ l \in bearers[u]
    /\ bearers' = [bearers EXCEPT ![u] = @ \ {l}]
    /\ \/ lcOf[u][g] = l /\ lcOf' = [lcOf EXCEPT ![u][g] = NoLc]
                         /\ est' = [est EXCEPT ![u][g] = 0]
       \/ lcOf[u][g] # l /\ UNCHANGED <<lcOf, est>>
    /\ Quiet
    /\ UNCHANGED <<known, left, pending, srList, srIn, bsrIn, aborted>>

(* Mutated form: the bootstrap state of a released UE is forgotten. *)
RemoveUeKeepsPending(u) ==
    /\ u \in known
    /\ known' = known \ {u} /\ left' = left \cup {u}
    /\ bearers' = [bearers EXCEPT ![u] = {}]
    /\ lcOf' = [lcOf EXCEPT ![u] = [g \in LCGs |-> NoLc]]
    /\ est' = [est EXCEPT ![u] = Empty]
    /\ Quiet
    /\ UNCHANGED <<pending, srList, srIn, bsrIn, aborted>>

(* NrGnbMac::DoRemoveUe and DoCschedUeReleaseReq.  The SR list and the     *)
(* queues of the gNB MAC keep what they hold for the UE.                   *)
RemoveUe(u) ==
    /\ u \in known
    /\ known' = known \ {u} /\ left' = left \cup {u}
    /\ bearers' = [bearers EXCEPT ![u] = {}]
    /\ lcOf' = [lcOf EXCEPT ![u] = [g \in LCGs |-> NoLc]]
    /\ est' = [est EXCEPT ![u] = Empty]
    /\ pending' = pending \ {u}
    /\ Quiet
    /\ UNCHANGED <<srList, srIn, bsrIn, aborted>>

(* An SR reaches the gNB: PHY and MAC pass it on for any RNTI. *)
DoReportSrToScheduler(u) ==
    /\ u \in known \cup left
    /\ srIn' = srIn \cup {u}
    /\ Quiet
    /\ UNCHANGED <<ueVars, est, pending, srList, bsrIn, aborted>>

(* A SHORT_BSR reaches the gNB: DoReceivePhyPdu asserts an attached UE. *)
DoReceivePhyPduBsr(u, bsr) ==
    /\ u \in known
    /\ bsrIn' = [bsrIn EXCEPT ![u] = bsr]
    /\ Quiet
    /\ UNCHANGED <<ueVars, est, pending, srList, srIn, aborted>>

-----------------------------------------------------------------------------
(* Mutated form: an empty report changes nothing. *)
KeepsOnEmptyBsr(u) ==
    [g \in LCGs |-> IF bsrIn[u] # NoBsr /\ lcOf[u][g] # NoLc /\ bsrIn[u][g] > 0
                    THEN bsrIn[u][g] ELSE est[u][g]]
(* BSRReceivedFromUe overwrites the estimate of every group the UE has. *)
AfterBsr(u) ==
    [g \in LCGs |-> IF bsrIn[u] # NoBsr /\ lcOf[u][g] # NoLc
                    THEN bsrIn[u][g] ELSE est[u][g]]

(* DoScheduleUlSr seeds 12 bytes in every group of a UE without a known    *)
(* byte, and only of such a UE; it is a bootstrap until a DCI is made.     *)
SrNow == srList \cup srIn
AlwaysBootstraps(u) == TRUE                                   \* mutated form
Bootstraps(u) == ~HasData(AfterBsr(u))
SeedAll(u) == [g \in LCGs |-> SeedBytes]                       \* mutated form
Seed(u) == [g \in LCGs |-> IF lcOf[u][g] # NoLc THEN SeedBytes ELSE 0]
ForgetsSeed(u, room) ==                                       \* mutated form
    IF room /\ u \in srList /\ Bootstraps(u) THEN Seed(u) ELSE AfterBsr(u)
AfterSr(u, room) == IF room /\ u \in SrNow /\ Bootstraps(u) THEN Seed(u) ELSE AfterBsr(u)
PendingAfterSr(room) == pending \cup {u \in SrNow : room /\ Bootstraps(u)}

(* AssignBytesToLC splits the TB evenly over the active channels, and      *)
(* AssignedData takes its share less the RLC header off the estimate; a    *)
(* small remainder counts as a smallest TB.                                *)
Active(e) == {g \in LCGs : e[g] > 0}
Share(e, tb) == tb \div Cardinality(Active(e))
RestAboveSeed(q, share) ==                                    \* mutated form
    LET r == q - (share - RlcOverhead)
    IN  IF r <= 0 THEN 0 ELSE r + SeedBytes
RestUnguarded(q, share) == q - (share - RlcOverhead)           \* mutated form
Rest(q, share) ==
    LET r == q - (share - RlcOverhead)
    IN  IF r <= 0 THEN 0 ELSE IF r < SeedBytes THEN SeedBytes ELSE r
AssignedData(e, tb) ==
    [g \in LCGs |-> IF e[g] > 0 THEN Rest(e[g], Share(e, tb)) ELSE 0]

(* ComputeActiveUe. *)
ActiveUes(room) == {u \in known : HasData(AfterSr(u, room))}

(* Mutated form: bootstrap state lasts only as long as the slot's SR list. *)
UnservedForgotten(room, tbs) ==
    {u \in SrNow : u \in PendingAfterSr(room) /\ tbs[u] = 0}
(* m_srBootstrapUesPending.erase: only once CreateUlDci has made a DCI. *)
StillPending(room, tbs) == {u \in PendingAfterSr(room) : tbs[u] = 0}

(* Mutated form: the SR list is cleared even when no symbol was left. *)
DropsSrList(room) == {}
RestOfSrList(room) == IF room THEN {} ELSE SrNow

(* The calls that do not find the UE: NS_ABORT_IF in BSRReceivedFromUe,    *)
(* m_ueMap.at in DoScheduleUlSr.                                           *)
UnknownUe(room) ==
    \/ \E u \in UEs \ known : bsrIn[u] # NoBsr
    \/ room /\ ~(SrNow \subseteq known)

(* Mutated form: the bootstrap limit reaches every grant of the slot. *)
CapsAnyGrant(room, tbs) == {u \in UEs : tbs[u] > 0}
(* GetEffectiveUlMcs applies the bootstrap limit while the UE is pending. *)
Capped(room, tbs) == {u \in PendingAfterSr(room) : tbs[u] > 0}

UlSlot(room, tbs) ==
    /\ ~UnknownUe(room)
    /\ \A u \in UEs : tbs[u] > 0 => room /\ u \in ActiveUes(room)
    /\ est' = [u \in UEs |-> IF tbs[u] > 0 THEN AssignedData(AfterSr(u, room), tbs[u])
                             ELSE AfterSr(u, room)]
    /\ pending' = StillPending(room, tbs)
    /\ srList' = RestOfSrList(room)
    /\ srIn' = {}
    /\ bsrIn' = [u \in UEs |-> NoBsr]
    /\ dci' = tbs
    /\ capped' = Capped(room, tbs)
    /\ UNCHANGED <<ueVars, aborted>>

UlSlotAborts(room) ==
    /\ UnknownUe(room)
    /\ aborted' = TRUE
    /\ Quiet
    /\ UNCHANGED <<ueVars, est, pending, srList, srIn, bsrIn>>

SlotStep == \E room \in BOOLEAN, tbs \in [UEs -> TbSizes \cup {0}] :
                UlSlot(room, tbs)

Next ==
    /\ ~aborted
    /\ \/ \E u \in UEs : AddUe(u)
       \/ \E u \in UEs, l \in LCs : AddLc(u, l)
       \/ \E u \in UEs, l \in LCs : ReleaseLc(u, l)
       \/ \E u \in UEs : RemoveUe(u)
       \/ \E u \in UEs : DoReportSrToScheduler(u)
       \/ \E u \in UEs, bsr \in Bsrs : DoReceivePhyPduBsr(u, bsr)
       \/ SlotStep
       \/ \E room \in BOOLEAN : UlSlotAborts(room)

Spec == Init /\ [][Next]_vars

-----------------------------------------------------------------------------
(* What the gNB knows of a UE when the slot's SRs are looked at. *)
KnownPositive(u) ==
    IF bsrIn[u] = NoBsr THEN HasData(est[u])
    ELSE \E g \in LCGs : lcOf[u][g] # NoLc /\ bsrIn[u][g] > 0

(* An estimate belongs to a channel that is still configured: no grant is  *)
(* made for a released bearer or a released UE.                            *)
EstimateHasChannel ==
    \A u \in UEs, g \in LCGs :
        est[u][g] > 0 => u \in known /\ lcOf[u][g] \in bearers[u]

(* The types of the variables, and the channels of the estimates. *)
EstimateInv == TypeOK /\ EstimateHasChannel

(* Recovery: a positive estimate changes only through a DCI, a BSR or the  *)
(* release of a channel; an SR never overwrites it.                        *)
RecoveryKeepsEstimate ==
    [][\A u \in known \cap known' :
          /\ HasData(est[u]) /\ bsrIn[u] = NoBsr
          /\ bearers'[u] = bearers[u] /\ dci'[u] = 0
          => est'[u] = est[u]]_vars

(* Bootstrap: a UE becomes pending, and the MCS limit applies to it, only  *)
(* through an SR that found no known byte.                                 *)
BootstrapOnlyIfUnknown ==
    [][\A u \in (pending' \cup capped') \ pending :
          u \in srList \cup srIn /\ ~KnownPositive(u)]_vars

(* Bootstrap state survives every slot without a DCI for the UE. *)
PendingUntilDci ==
    [][\A u \in pending \ pending' : dci'[u] > 0 \/ u \notin known']_vars

(* No SR is lost: once it leaves the SR list the UE has a grant, or an     *)
(* estimate that keeps it in every later round.                            *)
SrLeavesTrace ==
    [][\A u \in ((srList \cup srIn) \ (srList' \cup srIn')) \cap known' :
          (\E g \in LCGs : lcOf[u][g] # NoLc) => HasData(est'[u]) \/ dci'[u] > 0]_vars

(* A grant makes progress: it lowers each estimate it serves, down to the  *)
(* smallest TB or to zero, whatever the share (no unsigned wrap).          *)
GrantMakesProgress ==
    [][\A u \in UEs : dci'[u] > 0 =>
          \A g \in LCGs :
             \/ est'[u][g] \in {0, SeedBytes}
             \/ est'[u][g] < (IF bsrIn[u] = NoBsr THEN est[u][g] ELSE bsrIn[u][g])]_vars

(* nr-mac-scheduler-lcg.h: each uplink LCG of a UE with a configured       *)
(* channel has one channel in the scheduler.                               *)
GroupHasChannel ==
    \A u \in UEs : \A l \in bearers[u] : lcOf[u][LcgOf[l]] # NoLc

(* NS_ABORT_IF in BSRReceivedFromUe and m_ueMap.at in DoScheduleUlSr: what *)
(* the gNB MAC hands to the scheduler is about UEs the scheduler knows.    *)
NoAbort == ~aborted
=============================================================================

----------------------- MODULE NrMacSchedulerUl_proofs -----------------------
(***************************************************************************)
(* The uplink estimates and the bootstrap state of NrMacSchedulerUl, for   *)
(* every set of UEs, channels, BSR levels and TB sizes.                    *)
(***************************************************************************)
EXTENDS NrMacSchedulerUl, FiniteSetTheorems, TLAPS

(* A group holds a configured channel of its own or none. *)
GroupsConfigured ==
    \A u \in UEs, g \in LCGs :
        lcOf[u][g] # NoLc => /\ u \in known
                             /\ lcOf[u][g] \in bearers[u]
                             /\ LcgOf[lcOf[u][g]] = g

(* Only a group with a channel has an estimate. *)
EstimatesInGroups ==
    \A u \in UEs, g \in LCGs : est[u][g] > 0 => lcOf[u][g] # NoLc

(* The inductive invariant: EstimateHasChannel holds because BSRs and SRs  *)
(* write into groups with a channel only, and a group loses its channel    *)
(* together with its estimate.                                             *)
IInv == TypeOK /\ GroupsConfigured /\ EstimatesInGroups

USE DEF NoLc, SeedBytes, RlcOverhead

-----------------------------------------------------------------------------
(* What an SR does to the estimates the slot starts with. *)
LEMMA AfterBsrType ==
    ASSUME IInv, NEW u \in UEs
    PROVE  /\ AfterBsr(u) \in [LCGs -> Nat]
           /\ \A g \in LCGs : AfterBsr(u)[g] > 0 => lcOf[u][g] # NoLc
           /\ bsrIn[u] = NoBsr => AfterBsr(u) = est[u]
<1>1. \A g \in LCGs : bsrIn[u] # NoBsr => bsrIn[u][g] \in Nat
  BY LevelAssumption DEF IInv, TypeOK, Bsrs
<1>2. est[u] \in [LCGs -> Nat]
  BY DEF IInv, TypeOK
<1> QED
  BY <1>1, <1>2 DEF AfterBsr, IInv, EstimatesInGroups

LEMMA AfterSrType ==
    ASSUME IInv, NEW u \in UEs, NEW room \in BOOLEAN
    PROVE  /\ AfterSr(u, room) \in [LCGs -> Nat]
           /\ \A g \in LCGs : AfterSr(u, room)[g] > 0 => lcOf[u][g] # NoLc
<1>1. /\ Seed(u) \in [LCGs -> Nat]
      /\ \A g \in LCGs : Seed(u)[g] > 0 => lcOf[u][g] # NoLc
  BY DEF Seed
<1> QED
  BY <1>1, AfterBsrType DEF AfterSr

(* A smallest TB shared by the four groups a BSR has still carries a byte  *)
(* after the RLC header.                                                   *)
LEMMA ShareCoversOverhead ==
    ASSUME NEW e \in [LCGs -> Nat], NEW tb \in TbSizes, NEW g \in LCGs, e[g] > 0
    PROVE  Share(e, tb) \in Int /\ Share(e, tb) > RlcOverhead
<1>1. Active(e) \subseteq LCGs /\ Active(e) # {}
  BY DEF Active
<1>2. IsFiniteSet(Active(e)) /\ Cardinality(Active(e)) <= Cardinality(LCGs)
  BY <1>1, ShareAssumption, FS_Subset
<1>3. Cardinality(Active(e)) \in Nat /\ Cardinality(Active(e)) # 0
  BY <1>1, <1>2, FS_CardinalityType, FS_EmptySet
<1>4. Cardinality(LCGs) \in Nat
  BY ShareAssumption, FS_CardinalityType
<1>5. Cardinality(Active(e)) \in {1, 2, 3, 4}
  BY <1>2, <1>3, <1>4, ShareAssumption
<1>6. tb \in Nat /\ tb >= 12
  BY TbAssumption
<1> DEFINE n == Cardinality(Active(e))
<1>7. n = 1 => tb \div n >= 3
  BY <1>6
<1>8. n = 2 => tb \div n >= 3
  BY <1>6
<1>9. n = 3 => tb \div n >= 3
  BY <1>6
<1>10. n = 4 => tb \div n >= 3
  BY <1>6
<1>11. tb \div n \in Int
  BY <1>5, <1>6
<1> QED
  BY <1>5, <1>7, <1>8, <1>9, <1>10, <1>11 DEF Share

(* AssignedData never wraps: what is left is zero, the smallest TB, or     *)
(* less than there was.                                                    *)
LEMMA RestBounds ==
    ASSUME NEW q \in Nat, NEW share \in Int, share > RlcOverhead
    PROVE  /\ Rest(q, share) \in Nat
           /\ Rest(q, share) \in {0, SeedBytes} \/ Rest(q, share) < q
           /\ q <= SeedBytes => Rest(q, share) \in {0, SeedBytes}
  BY DEF Rest

LEMMA AssignedDataBounds ==
    ASSUME NEW e \in [LCGs -> Nat], NEW tb \in TbSizes
    PROVE  /\ AssignedData(e, tb) \in [LCGs -> Nat]
           /\ \A g \in LCGs :
                 LET r == AssignedData(e, tb)[g] IN
                 /\ r > 0 => e[g] > 0
                 /\ r \in {0, SeedBytes} \/ r < e[g]
                 /\ e[g] <= SeedBytes => r \in {0, SeedBytes}
<1>1. ASSUME NEW g \in LCGs, e[g] > 0
      PROVE  /\ Rest(e[g], Share(e, tb)) \in Nat
             /\ Rest(e[g], Share(e, tb)) \in {0, SeedBytes} \/ Rest(e[g], Share(e, tb)) < e[g]
             /\ e[g] <= SeedBytes => Rest(e[g], Share(e, tb)) \in {0, SeedBytes}
  BY <1>1, ShareCoversOverhead, RestBounds
<1> QED
  BY <1>1 DEF AssignedData

-----------------------------------------------------------------------------
LEMMA InitIInv == Init => IInv
<1> SUFFICES ASSUME Init PROVE IInv
  OBVIOUS
<1>1. /\ est \in [UEs -> [LCGs -> Nat]]
      /\ \A u \in UEs, g \in LCGs : est[u][g] = 0 /\ lcOf[u][g] = NoLc
  BY DEF Init, Empty
<1>2. /\ lcOf \in [UEs -> [LCGs -> LCs \cup {NoLc}]]
      /\ bearers \in [UEs -> SUBSET LCs]
      /\ dci \in [UEs -> TbSizes \cup {0}]
  BY DEF Init, NoDci
<1>3. bsrIn \in [UEs -> Bsrs \cup {NoBsr}]
  BY DEF Init
<1>4. TypeOK
  BY <1>1, <1>2, <1>3 DEF Init, TypeOK
<1> QED
  BY <1>1, <1>4 DEF IInv, GroupsConfigured, EstimatesInGroups

LEMMA AddLcKeeps ==
    ASSUME IInv, NEW u \in UEs, NEW l \in LCs, AddLc(u, l)
    PROVE  IInv'
<1>1. LcgOf[l] \in LCGs /\ l # NoLc
  BY LcAssumption
<1>2. TypeOK'
  BY <1>1 DEF AddLc, Quiet, NoDci, IInv, TypeOK
<1>3. GroupsConfigured'
  BY <1>1 DEF AddLc, IInv, TypeOK, GroupsConfigured
<1>4. EstimatesInGroups'
  BY <1>1 DEF AddLc, IInv, TypeOK, EstimatesInGroups
<1> QED
  BY <1>2, <1>3, <1>4 DEF IInv

LEMMA ReleaseLcKeeps ==
    ASSUME IInv, NEW u \in UEs, NEW l \in LCs, ReleaseLc(u, l)
    PROVE  IInv'
<1> DEFINE g == LcgOf[l]
<1>1. g \in LCGs /\ l # NoLc
  BY LcAssumption
<1>2. /\ lcOf' \in [UEs -> [LCGs -> LCs \cup {NoLc}]]
      /\ est' \in [UEs -> [LCGs -> Nat]]
      /\ \A v \in UEs, k \in LCGs :
            \/ lcOf'[v][k] = lcOf[v][k] /\ est'[v][k] = est[v][k]
            \/ est'[v][k] = 0
  <2>1. CASE lcOf[u][g] = l /\ lcOf' = [lcOf EXCEPT ![u][g] = NoLc]
                           /\ est' = [est EXCEPT ![u][g] = 0]
    <3>1. lcOf' \in [UEs -> [LCGs -> LCs \cup {NoLc}]]
      BY <1>1, <2>1 DEF IInv, TypeOK
    <3>2. est' \in [UEs -> [LCGs -> Nat]]
      BY <1>1, <2>1 DEF IInv, TypeOK
    <3>3. ASSUME NEW v \in UEs, NEW k \in LCGs
          PROVE  \/ lcOf'[v][k] = lcOf[v][k] /\ est'[v][k] = est[v][k]
                 \/ est'[v][k] = 0
      BY <1>1, <2>1 DEF IInv, TypeOK
    <3> QED
      BY <3>1, <3>2, <3>3
  <2>2. CASE UNCHANGED <<lcOf, est>>
    BY <2>2 DEF IInv, TypeOK
  <2> QED
    BY <2>1, <2>2 DEF ReleaseLc
<1>3. TypeOK'
  BY <1>2 DEF ReleaseLc, Quiet, NoDci, IInv, TypeOK
<1>4. GroupsConfigured'
  BY <1>1 DEF ReleaseLc, IInv, TypeOK, GroupsConfigured
<1>5. EstimatesInGroups'
  BY <1>2 DEF IInv, EstimatesInGroups
<1> QED
  BY <1>3, <1>4, <1>5 DEF IInv

LEMMA RemoveUeKeeps ==
    ASSUME IInv, NEW u \in UEs, RemoveUe(u)
    PROVE  IInv'
<1>1. TypeOK'
  BY DEF RemoveUe, Quiet, NoDci, Empty, IInv, TypeOK
<1>2. GroupsConfigured'
  BY DEF RemoveUe, IInv, TypeOK, GroupsConfigured
<1>3. EstimatesInGroups'
  BY DEF RemoveUe, Empty, IInv, TypeOK, EstimatesInGroups
<1> QED
  BY <1>1, <1>2, <1>3 DEF IInv

LEMMA UlSlotKeeps ==
    ASSUME IInv, NEW room \in BOOLEAN, NEW tbs \in [UEs -> TbSizes \cup {0}],
           UlSlot(room, tbs)
    PROVE  IInv'
<1>1. ASSUME NEW u \in UEs
      PROVE  /\ est'[u] \in [LCGs -> Nat]
             /\ \A g \in LCGs : est'[u][g] > 0 => lcOf[u][g] # NoLc
  <2>1. est'[u] = IF tbs[u] > 0 THEN AssignedData(AfterSr(u, room), tbs[u])
                  ELSE AfterSr(u, room)
    BY DEF UlSlot
  <2>2. CASE tbs[u] > 0
    <3>1. tbs[u] \in TbSizes
      BY <2>2
    <3> QED
      BY <2>1, <2>2, <3>1, AfterSrType, AssignedDataBounds
  <2>3. CASE ~(tbs[u] > 0)
    BY <2>1, <2>3, AfterSrType
  <2> QED
    BY <2>2, <2>3
<1>2. est' \in [UEs -> [LCGs -> Nat]]
  <2>1. est' = [u \in UEs |-> est'[u]]
    BY DEF UlSlot
  <2> QED
    BY <1>1, <2>1
<1>3. pending' \subseteq known
  BY DEF UlSlot, UnknownUe, StillPending, PendingAfterSr, SrNow, IInv, TypeOK
<1>4. srList' \subseteq UEs /\ capped' \subseteq UEs
  BY <1>3 DEF UlSlot, RestOfSrList, SrNow, Capped, PendingAfterSr, IInv, TypeOK
<1>5. TypeOK'
  BY <1>2, <1>3, <1>4 DEF UlSlot, ueVars, IInv, TypeOK
<1>6. GroupsConfigured' /\ EstimatesInGroups'
  BY <1>1 DEF UlSlot, ueVars, IInv, GroupsConfigured, EstimatesInGroups
<1> QED
  BY <1>5, <1>6 DEF IInv

(* The steps that only queue something, and the end of the run. *)
LEMMA OthersKeep ==
    ASSUME IInv,
           \/ \E u \in UEs : AddUe(u)
           \/ \E u \in UEs : DoReportSrToScheduler(u)
           \/ \E u \in UEs, bsr \in Bsrs : DoReceivePhyPduBsr(u, bsr)
           \/ \E room \in BOOLEAN : UlSlotAborts(room)
           \/ UNCHANGED vars
    PROVE  IInv'
<1>1. ASSUME NEW u \in UEs, AddUe(u) PROVE IInv'
  BY <1>1 DEF AddUe, Quiet, NoDci, IInv, TypeOK, GroupsConfigured, EstimatesInGroups
<1>2. ASSUME NEW u \in UEs, DoReportSrToScheduler(u) PROVE IInv'
  BY <1>2 DEF DoReportSrToScheduler, ueVars, Quiet, NoDci, IInv, TypeOK, GroupsConfigured,
              EstimatesInGroups
<1>3. ASSUME NEW u \in UEs, NEW bsr \in Bsrs, DoReceivePhyPduBsr(u, bsr) PROVE IInv'
  BY <1>3 DEF DoReceivePhyPduBsr, ueVars, Quiet, NoDci, IInv, TypeOK, GroupsConfigured,
              EstimatesInGroups
<1>4. ASSUME NEW room \in BOOLEAN, UlSlotAborts(room) PROVE IInv'
  BY <1>4 DEF UlSlotAborts, ueVars, Quiet, NoDci, IInv, TypeOK, GroupsConfigured,
              EstimatesInGroups
<1>5. CASE UNCHANGED vars
  BY <1>5 DEF vars, ueVars, IInv, TypeOK, GroupsConfigured, EstimatesInGroups
<1> QED
  BY <1>1, <1>2, <1>3, <1>4, <1>5

LEMMA NextIInv == IInv /\ [Next]_vars => IInv'
<1> SUFFICES ASSUME IInv, [Next]_vars PROVE IInv'
  OBVIOUS
<1>1. CASE \E u \in UEs, l \in LCs : AddLc(u, l)
  BY <1>1, AddLcKeeps
<1>2. CASE \E u \in UEs, l \in LCs : ReleaseLc(u, l)
  BY <1>2, ReleaseLcKeeps
<1>3. CASE \E u \in UEs : RemoveUe(u)
  BY <1>3, RemoveUeKeeps
<1>4. CASE SlotStep
  BY <1>4, UlSlotKeeps DEF SlotStep
<1>5. CASE \/ \E u \in UEs : AddUe(u)
           \/ \E u \in UEs : DoReportSrToScheduler(u)
           \/ \E u \in UEs, bsr \in Bsrs : DoReceivePhyPduBsr(u, bsr)
           \/ \E room \in BOOLEAN : UlSlotAborts(room)
           \/ UNCHANGED vars
  BY <1>5, OthersKeep
<1> QED
  BY <1>1, <1>2, <1>3, <1>4, <1>5 DEF Next

(* The invariant of the estimates, for every behaviour. *)
THEOREM Invariance == Spec => []IInv
  BY InitIInv, NextIInv, PTL DEF Spec

(* Type correctness of the scheduler. *)
THEOREM TypeCorrect == Spec => []TypeOK
<1>1. IInv => TypeOK
  BY DEF IInv
<1> QED
  BY <1>1, Invariance, PTL

(* Every estimate belongs to a configured channel of a known UE. *)
THEOREM EstimatesHaveChannels == Spec => []EstimateHasChannel
<1>1. IInv => EstimateHasChannel
  BY DEF IInv, GroupsConfigured, EstimatesInGroups, EstimateHasChannel
<1> QED
  BY <1>1, Invariance, PTL

(* Types and channels together, as the run checks them. *)
THEOREM EstimatesHold == Spec => []EstimateInv
<1>1. TypeOK /\ EstimateHasChannel => EstimateInv
  BY DEF EstimateInv
<1> QED
  BY <1>1, TypeCorrect, EstimatesHaveChannels, PTL

-----------------------------------------------------------------------------
(* Nothing but a DCI, a BSR or a release moves a positive estimate. *)
LEMMA StepKeepsEstimate ==
    ASSUME IInv, [Next]_vars, NEW u \in known \cap known',
           HasData(est[u]), bsrIn[u] = NoBsr, bearers'[u] = bearers[u], dci'[u] = 0
    PROVE  est'[u] = est[u]
<1>0. u \in UEs
  BY DEF IInv, TypeOK
<1>1. ASSUME NEW v \in UEs, NEW l \in LCs, ReleaseLc(v, l) PROVE est'[u] = est[u]
  <2>1. bearers'[v] = bearers[v] \ {l} /\ l \in bearers[v]
    BY <1>1 DEF ReleaseLc, IInv, TypeOK
  <2>2. u # v
    BY <2>1
  <2>3. est' = est \/ est' = [est EXCEPT ![v][LcgOf[l]] = 0]
    BY <1>1 DEF ReleaseLc
  <2> QED
    BY <1>0, <2>2, <2>3 DEF IInv, TypeOK
<1>2. ASSUME NEW v \in UEs, RemoveUe(v) PROVE est'[u] = est[u]
  <2>1. u # v
    BY <1>2 DEF RemoveUe
  <2> QED
    BY <1>0, <1>2, <2>1 DEF RemoveUe, IInv, TypeOK
<1>3. ASSUME NEW room \in BOOLEAN, NEW tbs \in [UEs -> TbSizes \cup {0}],
             UlSlot(room, tbs)
      PROVE  est'[u] = est[u]
  <2>1. AfterBsr(u) = est[u]
    BY <1>0, AfterBsrType
  <2>2. AfterSr(u, room) = est[u]
    BY <2>1 DEF AfterSr, Bootstraps
  <2>3. tbs[u] = 0
    BY <1>3 DEF UlSlot
  <2> QED
    BY <1>0, <1>3, <2>2, <2>3 DEF UlSlot
<1>4. CASE \/ \E v \in UEs : AddUe(v) \/ DoReportSrToScheduler(v)
           \/ \E v \in UEs, l \in LCs : AddLc(v, l)
           \/ \E v \in UEs, bsr \in Bsrs : DoReceivePhyPduBsr(v, bsr)
           \/ \E room \in BOOLEAN : UlSlotAborts(room)
           \/ UNCHANGED vars
  BY <1>4 DEF AddUe, DoReportSrToScheduler, AddLc, DoReceivePhyPduBsr, UlSlotAborts, vars
<1> QED
  BY <1>1, <1>2, <1>3, <1>4 DEF Next, SlotStep

(* A recovery SR never overwrites an estimate the gNB has. *)
THEOREM RecoveryKeeps == Spec => RecoveryKeepsEstimate
<1>1. IInv /\ [Next]_vars =>
        [\A u \in known \cap known' :
            /\ HasData(est[u]) /\ bsrIn[u] = NoBsr
            /\ bearers'[u] = bearers[u] /\ dci'[u] = 0
            => est'[u] = est[u]]_vars
  BY StepKeepsEstimate
<1> QED
  BY <1>1, Invariance, PTL DEF Spec, RecoveryKeepsEstimate

(* What AfterBsr finds is what KnownPositive says. *)
LEMMA KnownIsPositive ==
    ASSUME IInv, NEW u \in UEs
    PROVE  KnownPositive(u) => HasData(AfterBsr(u))
  BY BsrAssumption DEF KnownPositive, HasData, AfterBsr

(* Only a slot makes bootstraps, and it only adds the SRs it looked at. *)
LEMMA StepBootstraps ==
    ASSUME IInv, Next, NEW u \in (pending' \cup capped') \ pending
    PROVE  u \in srList \cup srIn /\ ~KnownPositive(u)
<1>1. CASE SlotStep
  <2>1. PICK room \in BOOLEAN, tbs \in [UEs -> TbSizes \cup {0}] : UlSlot(room, tbs)
    BY <1>1 DEF SlotStep
  <2>2. u \in PendingAfterSr(room)
    BY <2>1 DEF UlSlot, StillPending, Capped
  <2>3. u \in SrNow /\ Bootstraps(u)
    BY <2>2 DEF PendingAfterSr
  <2>4. u \in UEs
    BY <2>3 DEF SrNow, IInv, TypeOK
  <2> QED
    BY <2>3, <2>4, KnownIsPositive DEF Bootstraps, SrNow
<1>2. CASE ~SlotStep
  <2>1. pending' \subseteq pending /\ capped' = {}
    BY <1>2 DEF Next, AddUe, AddLc, ReleaseLc, RemoveUe, DoReportSrToScheduler,
                DoReceivePhyPduBsr, UlSlotAborts, Quiet
  <2> QED
    BY <2>1
<1> QED
  BY <1>1, <1>2

(* The bootstrap state and its MCS limit come from SRs of UEs of which the *)
(* gNB knows no byte.                                                      *)
THEOREM BootstrapsAreUnknown == Spec => BootstrapOnlyIfUnknown
<1>1. IInv /\ [Next]_vars =>
        [\A u \in (pending' \cup capped') \ pending :
            u \in srList \cup srIn /\ ~KnownPositive(u)]_vars
  BY StepBootstraps
<1> QED
  BY <1>1, Invariance, PTL DEF Spec, BootstrapOnlyIfUnknown

(* Only a DCI or the release of the UE ends its bootstrap. *)
LEMMA StepKeepsPending ==
    ASSUME IInv, [Next]_vars, NEW u \in pending \ pending'
    PROVE  dci'[u] > 0 \/ u \notin known'
<1>1. ASSUME NEW room \in BOOLEAN, NEW tbs \in [UEs -> TbSizes \cup {0}],
             UlSlot(room, tbs)
      PROVE  dci'[u] > 0
  <2>1. u \in UEs
    BY DEF IInv, TypeOK
  <2>2. tbs[u] # 0 /\ dci' = tbs
    BY <1>1 DEF UlSlot, StillPending, PendingAfterSr
  <2>3. tbs[u] \in TbSizes
    BY <2>1, <2>2
  <2>4. \A n \in TbSizes : n > 0
    BY TbAssumption
  <2>5. tbs[u] > 0
    BY <2>3, <2>4
  <2> QED
    BY <2>2, <2>5
<1>2. ASSUME NEW v \in UEs, RemoveUe(v) PROVE u \notin known'
  BY <1>2 DEF RemoveUe
<1>3. CASE ~SlotStep /\ ~(\E v \in UEs : RemoveUe(v))
  BY <1>3 DEF Next, AddUe, AddLc, ReleaseLc, DoReportSrToScheduler, DoReceivePhyPduBsr,
              UlSlotAborts, vars
<1> QED
  BY <1>1, <1>2, <1>3 DEF SlotStep

(* Bootstrap state survives the slots in which no DCI can be made. *)
THEOREM PendingSurvives == Spec => PendingUntilDci
<1>1. IInv /\ [Next]_vars =>
        [\A u \in pending \ pending' : dci'[u] > 0 \/ u \notin known']_vars
  BY StepKeepsPending
<1> QED
  BY <1>1, Invariance, PTL DEF Spec, PendingUntilDci

(* An SR that leaves the SR list has left a grant or an estimate. *)
LEMMA StepTracesSr ==
    ASSUME IInv, [Next]_vars,
           NEW u \in ((srList \cup srIn) \ (srList' \cup srIn')) \cap known',
           NEW g \in LCGs, lcOf[u][g] # NoLc
    PROVE  HasData(est'[u]) \/ dci'[u] > 0
<1>1. CASE SlotStep
  <2>1. PICK room \in BOOLEAN, tbs \in [UEs -> TbSizes \cup {0}] : UlSlot(room, tbs)
    BY <1>1 DEF SlotStep
  <2>2. room /\ u \in SrNow /\ u \in UEs
    BY <2>1 DEF UlSlot, RestOfSrList, SrNow, IInv, TypeOK
  <2>3. HasData(AfterSr(u, room))
    <3>1. Seed(u)[g] > 0
      BY DEF Seed
    <3>2. HasData(Seed(u))
      BY <3>1 DEF HasData
    <3> QED
      BY <2>2, <3>2 DEF AfterSr, Bootstraps
  <2>4. tbs[u] > 0 \/ est'[u] = AfterSr(u, room)
    BY <2>1, <2>2 DEF UlSlot
  <2> QED
    BY <2>1, <2>3, <2>4 DEF UlSlot
<1>2. CASE ~SlotStep
  <2>1. srList \cup srIn \subseteq srList' \cup srIn'
    BY <1>2 DEF Next, AddUe, AddLc, ReleaseLc, RemoveUe, DoReportSrToScheduler,
                DoReceivePhyPduBsr, UlSlotAborts, vars
  <2> QED
    BY <2>1
<1> QED
  BY <1>1, <1>2

(* No SR of a UE with a channel is lost in the scheduler. *)
THEOREM SrsAreTraced == Spec => SrLeavesTrace
<1>1. IInv /\ [Next]_vars =>
        [\A u \in ((srList \cup srIn) \ (srList' \cup srIn')) \cap known' :
            (\E g \in LCGs : lcOf[u][g] # NoLc) => HasData(est'[u]) \/ dci'[u] > 0]_vars
  BY StepTracesSr
<1> QED
  BY <1>1, Invariance, PTL DEF Spec, SrLeavesTrace

(* A grant lowers what it serves. *)
LEMMA StepGrants ==
    ASSUME IInv, Next, NEW u \in UEs, dci'[u] > 0, NEW g \in LCGs
    PROVE  \/ est'[u][g] \in {0, SeedBytes}
           \/ est'[u][g] < (IF bsrIn[u] = NoBsr THEN est[u][g] ELSE bsrIn[u][g])
<1>1. SlotStep
  BY DEF Next, AddUe, AddLc, ReleaseLc, RemoveUe, DoReportSrToScheduler,
         DoReceivePhyPduBsr, UlSlotAborts, Quiet, NoDci
<1>2. PICK room \in BOOLEAN, tbs \in [UEs -> TbSizes \cup {0}] : UlSlot(room, tbs)
  BY <1>1 DEF SlotStep
<1>3. tbs[u] > 0 /\ tbs[u] \in TbSizes
  BY <1>2 DEF UlSlot
<1> DEFINE e == AfterSr(u, room)
           q == IF bsrIn[u] = NoBsr THEN est[u][g] ELSE bsrIn[u][g]
<1>4. e \in [LCGs -> Nat] /\ (e[g] > 0 => lcOf[u][g] # NoLc)
  BY AfterSrType
<1>5. e[g] <= SeedBytes \/ e[g] = q
  <2>1. AfterBsr(u)[g] > 0 => AfterBsr(u)[g] = q
    BY AfterBsrType DEF AfterBsr
  <2>2. Seed(u)[g] <= SeedBytes
    BY DEF Seed
  <2>3. AfterBsr(u)[g] \in Nat
    BY AfterBsrType
  <2> QED
    BY <2>1, <2>2, <2>3 DEF AfterSr
<1>6. est'[u] = AssignedData(e, tbs[u])
  BY <1>2, <1>3 DEF UlSlot
<1>7. /\ e[g] <= SeedBytes => est'[u][g] \in {0, SeedBytes}
      /\ est'[u][g] \in {0, SeedBytes} \/ est'[u][g] < e[g]
  BY <1>3, <1>4, <1>6, AssignedDataBounds
<1> QED
  BY <1>5, <1>7

(* No subtraction of AssignedData wraps, whatever the TB and the number of *)
(* channels that share it: every grant makes progress.                     *)
THEOREM GrantsProgress == Spec => GrantMakesProgress
<1>1. IInv /\ [Next]_vars =>
        [\A u \in UEs : dci'[u] > 0 =>
            \A g \in LCGs :
               \/ est'[u][g] \in {0, SeedBytes}
               \/ est'[u][g] < (IF bsrIn[u] = NoBsr THEN est[u][g] ELSE bsrIn[u][g])]_vars
  BY StepGrants
<1> QED
  BY <1>1, Invariance, PTL DEF Spec, GrantMakesProgress
=============================================================================

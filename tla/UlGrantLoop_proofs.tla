-------------------------- MODULE UlGrantLoop_proofs --------------------------
(***************************************************************************)
(* The uplink grant loop for every number of HARQ processes, every timer,  *)
(* SR grid and queue size.  In the loop each MAC meets nothing but steps   *)
(* of its own module, so that what is proved of those steps holds here;    *)
(* the UE never stalls and the gNB never aborts; and every step of the     *)
(* loop is a step of UplinkService or changes nothing of it.               *)
(***************************************************************************)
EXTENDS UlGrantLoop, FiniteSetTheorems, TLAPS

USE DEF Ue, Drb, Group, Tb, Free, Dci, Backlog, UE!Off, UE!NoDci, UE!InitialRnti, Gnb!NoLc

(* The UE is connected: both sides know its bearer, and no call names a UE *)
(* or a channel the other side does not know.                              *)
Connected ==
    /\ rnti = Ue /\ lcs = {Drb}
    /\ known = {Ue} /\ left = {}
    /\ bearers = [u \in {Ue} |-> {Drb}]
    /\ lcOf = [u \in {Ue} |-> [g \in {Group} |-> Drb]]
    /\ ~aborted

(* Both MACs have their types and the UE the invariants of its SR/BSR      *)
(* machine; what travels belongs to a grant the UE has had.                *)
UeHolds   == UE!TypeOK /\ UE!TimerIffActive /\ UE!NoStall /\ UE!RetxHasPackets /\ Backlog <= MaxBuf
LinkHolds == /\ srAir \in BOOLEAN /\ link \in [HarqIds -> {Free, Dci} \cup 0 .. MaxBuf]
             /\ \A h \in HarqIds : link[h] >= 0 => h \in granted
LoopInv   == Connected /\ UeHolds /\ Gnb!TypeOK /\ LinkHolds

(* Both modules count with the same Cardinality. *)
LEMMA OneCardinality ==
    ASSUME NEW S
    PROVE  UE!Cardinality(S) = Cardinality(S) /\ Gnb!Cardinality(S) = Cardinality(S)
  BY DEF UE!Cardinality, Gnb!Cardinality, Cardinality

(* The SR grid has one slot at least, and a slot number stays on it. *)
LEMMA SlotsSize ==
    /\ Cardinality(UE!Slots) \in Nat \ {0}
    /\ UE!Slots = 0 .. Cardinality(UE!Slots) - 1
<1> DEFINE last == IF SrPeriod = 0 THEN 0 ELSE SrPeriod - 1
<1>1. last \in Nat
  BY UeAssumption
<1>2. Cardinality(0 .. last) = last - 0 + 1
  BY <1>1, FS_Interval
<1>3. UE!Slots = 0 .. last
  BY DEF UE!Slots
<1> QED
  BY <1>1, <1>2, <1>3

(* With one bearer, what is buffered is the backlog. *)
LEMMA BufferedIs ==
    ASSUME NEW b, DOMAIN b = {Drb}
    PROVE  UE!Buffered(b) <=> b[Drb] > 0
  BY DEF UE!Buffered

-----------------------------------------------------------------------------
(* The steps of the UE's MAC. *)

LEMMA ReportKeeps ==
    ASSUME LoopInv, NEW n \in 0 .. MaxBuf, UE!DoTransmitBufferStatusReport(Drb, n)
    PROVE  UeHolds' /\ rnti' = rnti /\ lcs' = lcs /\ granted' = granted
<1>1. /\ bytes \in [{Drb} -> Nat] /\ bytes' = [bytes EXCEPT ![Drb] = n]
      /\ reported' = reported \cup {Drb} /\ lcs' = lcs /\ lcs = {Drb}
  BY DEF LoopInv, Connected, UeHolds, UE!TypeOK, UE!DoTransmitBufferStatusReport
<1>2. n \in Nat /\ n <= MaxBuf
  BY BufAssumption
<1>3. bytes' \in [{Drb} -> Nat] /\ bytes'[Drb] = n
  BY <1>1, <1>2
<1>4. srState' \in UE!SrStates /\ timer' \in 0 .. RetxBsrTimer \cup {UE!Off}
      /\ UE!TimerIffActive' /\ UE!NoStall'
  <2>1. CASE ~UE!Buffered(bytes') /\ UE!Idle
    BY <2>1 DEF UE!Idle, UE!TimerIffActive, UE!NoStall, UE!SrStates
  <2>2. CASE UE!Buffered(bytes') /\ UE!RequestIfIdle
    BY <2>2 DEF UE!RequestIfIdle, LoopInv, UeHolds, UE!TypeOK, UE!SrStates, UE!TimerIffActive,
                UE!NoStall
  <2> QED
    BY <2>1, <2>2 DEF UE!DoTransmitBufferStatusReport
<1>5. UE!TypeOK'
  BY <1>1, <1>3, <1>4 DEF UE!DoTransmitBufferStatusReport, LoopInv, UeHolds, UE!TypeOK, UE!Msgs
<1>6. UE!RetxHasPackets'
  BY DEF UE!DoTransmitBufferStatusReport, LoopInv, UeHolds, UE!RetxHasPackets
<1> QED
  BY <1>2, <1>3, <1>4, <1>5, <1>6 DEF UeHolds, UE!DoTransmitBufferStatusReport

LEMMA SlotKeeps ==
    ASSUME LoopInv, UE!DoSlotIndication
    PROVE  UeHolds' /\ UNCHANGED <<rnti, lcs, granted, bytes>>
<1> DEFINE now == (slot + 1) % Cardinality(UE!Slots)
           tick == IF timer = UE!Off THEN UE!Off ELSE timer - 1
<1>1. slot' \in UE!Slots
  <2> DEFINE count == Cardinality(UE!Slots)
  <2>1. slot' = (slot + 1) % count
    BY OneCardinality, Zenon DEF UE!DoSlotIndication, count
  <2>2. count \in Nat \ {0} /\ UE!Slots = 0 .. count - 1
    BY SlotsSize
  <2>3. slot \in UE!Slots
    BY DEF LoopInv, UeHolds, UE!TypeOK
  <2> HIDE DEF count
  <2> QED
    BY <2>1, <2>2, <2>3
<1>2. tick \in 0 .. RetxBsrTimer \cup {UE!Off} /\ (tick = UE!Off <=> timer = UE!Off)
  BY UeAssumption DEF UE!DoSlotIndication, LoopInv, UeHolds, UE!TypeOK
<1>3. rnti = 1 /\ UNCHANGED <<rnti, ra, UE!bufVars, harqBuf, ulDci, granted>>
  BY DEF UE!DoSlotIndication, LoopInv, Connected
<1>4. \/ srState' = "ACTIVE" /\ timer' = RetxBsrTimer /\ out' = {"sr"}
      \/ srState' = srState /\ timer' = tick /\ out' = {}
  BY <1>3 DEF UE!DoSlotIndication
<1>5. /\ srState' \in UE!SrStates /\ timer' \in 0 .. RetxBsrTimer \cup {UE!Off}
      /\ out' \subseteq UE!Msgs
  BY <1>2, <1>4, UeAssumption DEF LoopInv, UeHolds, UE!TypeOK, UE!SrStates, UE!Msgs
<1>6. UE!TypeOK'
  BY <1>1, <1>3, <1>5 DEF LoopInv, UeHolds, UE!TypeOK, UE!bufVars
<1>7. UE!TimerIffActive' /\ UE!NoStall'
  BY <1>2, <1>3, <1>4, UeAssumption DEF LoopInv, UeHolds, UE!TimerIffActive, UE!NoStall, UE!bufVars
<1> QED
  BY <1>3, <1>6, <1>7 DEF LoopInv, UeHolds, UE!RetxHasPackets, UE!bufVars

LEMMA ExpireKeeps ==
    ASSUME LoopInv, UE!ExpireRetxBsrTimer
    PROVE  UeHolds' /\ UNCHANGED <<rnti, lcs, granted, bytes>>
<1>1. UNCHANGED <<slot, rnti, ra, lcs, reported, bytes, harqBuf, ulDci, granted>> /\ out' = {}
  BY DEF UE!ExpireRetxBsrTimer, UE!bufVars
<1>2. /\ srState' \in UE!SrStates /\ timer' = UE!Off /\ srState' # "ACTIVE"
      /\ UE!Buffered(bytes) => srState' = "TO_SEND"
  BY DEF UE!ExpireRetxBsrTimer, UE!Recovery, LoopInv, UeHolds, UE!TypeOK, UE!SrStates, UE!NoStall
<1> QED
  BY <1>1, <1>2 DEF LoopInv, UeHolds, UE!TypeOK, UE!TimerIffActive, UE!NoStall, UE!RetxHasPackets

LEMMA NewDataKeeps ==
    ASSUME LoopInv, NEW h \in HarqIds, NEW n \in 0 .. MaxBuf, NEW used \in BOOLEAN,
           UE!UlDciNewData(h, [l \in {Drb} |-> n], used)
    PROVE  UeHolds' /\ rnti' = rnti /\ lcs' = lcs /\ granted' = granted \cup {h} /\ bytes'[Drb] = n
<1> DEFINE b == [l \in {Drb} |-> n]
<1>1. /\ n \in Nat /\ n <= MaxBuf
      /\ bytes' = b /\ ulDci' = h /\ granted' = granted \cup {h}
      /\ UNCHANGED <<slot, rnti, ra, lcs, reported>>
  BY BufAssumption DEF UE!UlDciNewData
<1>2. harqBuf' \in [HarqIds -> {"fresh", "null", "data"}] /\ harqBuf'[h] # "fresh"
      /\ \A g \in HarqIds \ {h} : harqBuf'[g] = harqBuf[g]
  BY DEF UE!UlDciNewData, UE!NewDataBurst, LoopInv, UeHolds, UE!TypeOK
<1>3. out' \subseteq UE!Msgs
  BY DEF UE!UlDciNewData, UE!Bsr, UE!Msgs
<1>4. /\ srState' \in UE!SrStates /\ timer' \in 0 .. RetxBsrTimer \cup {UE!Off}
      /\ UE!TimerIffActive' /\ UE!NoStall'
  <2> HIDE DEF b
  <2>1. CASE ~UE!Buffered(b) /\ UE!Idle
    BY <1>1, <2>1 DEF UE!Idle, UE!TimerIffActive, UE!NoStall, UE!SrStates
  <2>2. CASE UE!Buffered(b) /\ srState' = "ACTIVE" /\ timer' = RetxBsrTimer
    BY <1>1, <2>2, UeAssumption DEF UE!TimerIffActive, UE!NoStall, UE!SrStates
  <2> QED
    BY <2>1, <2>2 DEF UE!UlDciNewData, b
<1>5. b \in [{Drb} -> Nat] /\ b[Drb] = n
  BY <1>1
<1> HIDE DEF b
<1>6. UE!TypeOK'
  BY <1>1, <1>2, <1>3, <1>4, <1>5 DEF LoopInv, UeHolds, UE!TypeOK
<1>7. UE!RetxHasPackets'
  BY <1>1, <1>2 DEF LoopInv, UeHolds, UE!TypeOK, UE!RetxHasPackets
<1> QED
  BY <1>1, <1>4, <1>5, <1>6, <1>7 DEF UeHolds

LEMMA RetxKeeps ==
    ASSUME LoopInv, NEW h \in HarqIds, UE!UlDciRetx(h)
    PROVE  UeHolds' /\ UNCHANGED <<rnti, lcs, granted, bytes>>
<1>1. /\ UNCHANGED <<srState, timer, slot, rnti, ra, lcs, reported, bytes, harqBuf, granted>>
      /\ ulDci' = h /\ out' \subseteq UE!Msgs
  BY DEF UE!UlDciRetx, UE!srVars, UE!bufVars, UE!Bsr, UE!Msgs
<1> QED
  BY <1>1 DEF LoopInv, UeHolds, UE!TypeOK, UE!TimerIffActive, UE!NoStall, UE!RetxHasPackets

-----------------------------------------------------------------------------
(* The steps of the gNB's MAC. *)

(* One group: a share is the whole TB, and what AssignedData leaves is a   *)
(* number of bytes again.                                                  *)
LEMMA RestIsNat ==
    ASSUME NEW e \in [{Group} -> Nat]
    PROVE  Gnb!AssignedData(e, Tb) \in [{Group} -> Nat]
<1> SUFFICES ASSUME e[Group] > 0
             PROVE  Gnb!Rest(e[Group], Gnb!Share(e, Tb)) \in Nat
  BY DEF Gnb!AssignedData
<1>1. Gnb!Active(e) = {Group}
  BY DEF Gnb!Active
<1>2. Cardinality({Group}) = 1
  BY FS_Singleton
<1>3. Gnb!Share(e, Tb) = 12
  <2>1. 12 \div 1 = 12
    OBVIOUS
  <2> QED
    BY <1>1, <1>2, <2>1, OneCardinality DEF Gnb!Share
<1> QED
  BY <1>3 DEF Gnb!Rest, Gnb!RlcOverhead, Gnb!SeedBytes

(* No call in the loop names a UE the scheduler does not know. *)
LEMMA UeIsKnown ==
    ASSUME LoopInv, NEW room \in BOOLEAN
    PROVE  ~Gnb!UnknownUe(room)
  BY DEF LoopInv, Connected, Gnb!TypeOK, Gnb!UnknownUe, Gnb!SrNow

LEMMA UlSlotKeeps ==
    ASSUME LoopInv, NEW tb \in {0, Tb}, UlSlotWith(tb)
    PROVE  /\ Gnb!TypeOK'
           /\ UNCHANGED <<known, left, bearers, lcOf, aborted>>
           /\ Gnb!SlotStep
<1> DEFINE tbs == [u \in {Ue} |-> tb]
<1>1. PICK room \in BOOLEAN : Gnb!UlSlot(room, tbs)
  BY DEF UlSlotWith
<1>2. tbs \in [{Ue} -> {Tb} \cup {0}]
  OBVIOUS
<1> HIDE DEF tbs
<1>3. UNCHANGED <<known, left, bearers, lcOf, aborted>>
  BY <1>1 DEF Gnb!UlSlot, Gnb!ueVars
<1>4. Gnb!AfterSr(Ue, room) \in [{Group} -> Nat]
  <2>1. Gnb!AfterBsr(Ue) \in [{Group} -> Nat]
    <3>1. est[Ue] \in [{Group} -> Nat]
      BY DEF LoopInv, Gnb!TypeOK
    <3>2. bsrIn[Ue] # NoBsr => bsrIn[Ue][Group] \in Nat
      <4>1. bsrIn[Ue] \in [{Group} -> {BytesOf(n) : n \in 0 .. MaxBuf}] \cup {NoBsr}
        BY DEF LoopInv, Gnb!TypeOK, Gnb!Bsrs
      <4>2. {BytesOf(n) : n \in 0 .. MaxBuf} \subseteq Nat
        BY BufAssumption DEF BytesOf
      <4> QED
        BY <4>1, <4>2
    <3> QED
      BY <3>1, <3>2 DEF Gnb!AfterBsr
  <2>2. Gnb!Seed(Ue) \in [{Group} -> Nat]
    BY DEF Gnb!Seed, Gnb!SeedBytes
  <2> QED
    BY <2>1, <2>2 DEF Gnb!AfterSr
<1>5. est' \in [{Ue} -> [{Group} -> Nat]]
  <2>1. est' = [u \in {Ue} |-> IF tbs[u] > 0 THEN Gnb!AssignedData(Gnb!AfterSr(u, room), tbs[u])
                               ELSE Gnb!AfterSr(u, room)]
    BY <1>1 DEF Gnb!UlSlot
  <2>2. tbs[Ue] > 0 => tbs[Ue] = Tb
    BY <1>2
  <2> QED
    BY <1>4, <2>1, <2>2, RestIsNat
<1>6. /\ pending' \subseteq known' /\ srList' \subseteq {Ue} /\ srIn' \subseteq {Ue}
      /\ capped' \subseteq {Ue}
  BY <1>1, <1>3 DEF Gnb!UlSlot, Gnb!StillPending, Gnb!PendingAfterSr, Gnb!SrNow, Gnb!Capped,
     Gnb!RestOfSrList, LoopInv, Gnb!TypeOK, Connected
<1>7. bsrIn' \in [{Ue} -> Gnb!Bsrs \cup {NoBsr}] /\ dci' \in [{Ue} -> {Tb} \cup {0}]
  BY <1>1, <1>2 DEF Gnb!UlSlot
<1>8. Gnb!TypeOK'
  BY <1>3, <1>5, <1>6, <1>7 DEF LoopInv, Gnb!TypeOK
<1>9. Gnb!SlotStep
  BY <1>1, <1>2 DEF Gnb!SlotStep
<1> QED
  BY <1>3, <1>8, <1>9

LEMMA SrKeeps ==
    ASSUME LoopInv, Gnb!DoReportSrToScheduler(Ue)
    PROVE  Gnb!TypeOK' /\ UNCHANGED <<known, left, bearers, lcOf, aborted>>
  BY DEF Gnb!DoReportSrToScheduler, Gnb!ueVars, Gnb!Quiet, Gnb!NoDci, LoopInv, Gnb!TypeOK

LEMMA BsrKeeps ==
    ASSUME LoopInv, NEW bsr \in Gnb!Bsrs, Gnb!DoReceivePhyPduBsr(Ue, bsr)
    PROVE  Gnb!TypeOK' /\ UNCHANGED <<known, left, bearers, lcOf, aborted>>
<1>1. /\ UNCHANGED <<known, left, bearers, lcOf, est, pending, srList, srIn, aborted>>
      /\ dci' = [u \in {Ue} |-> 0] /\ capped' = {}
      /\ bsrIn' = [bsrIn EXCEPT ![Ue] = bsr]
  BY DEF Gnb!DoReceivePhyPduBsr, Gnb!ueVars, Gnb!Quiet, Gnb!NoDci
<1>2. bsrIn' \in [{Ue} -> Gnb!Bsrs \cup {NoBsr}]
  BY <1>1 DEF LoopInv, Gnb!TypeOK
<1> QED
  BY <1>1, <1>2 DEF LoopInv, Gnb!TypeOK

-----------------------------------------------------------------------------
(* The steps of the loop: each keeps the invariant, and each is a step of  *)
(* one MAC's module, or of both in a slot.                                 *)

BothRun == [UE!Next]_(UE!vars) /\ [Gnb!Next]_(Gnb!vars)

LEMMA UeRests == UNCHANGED ueVars => UNCHANGED UE!vars /\ (LoopInv => UeHolds')
  BY DEF ueVars, UE!vars, LoopInv, UeHolds, UE!TypeOK, UE!TimerIffActive, UE!NoStall,
         UE!RetxHasPackets

LEMMA GnbRests ==
    UNCHANGED gnbVars => /\ UNCHANGED Gnb!vars
                         /\ LoopInv => Gnb!TypeOK'
                         /\ UNCHANGED <<known, left, bearers, lcOf, aborted>>
  BY DEF gnbVars, Gnb!vars, Gnb!ueVars, LoopInv, Gnb!TypeOK

LEMMA LinkWith ==
    ASSUME LoopInv, NEW h \in HarqIds, NEW v \in {Free, Dci} \cup 0 .. MaxBuf,
           link' = [link EXCEPT ![h] = v], srAir' = srAir,
           granted \subseteq granted', v >= 0 => h \in granted'
    PROVE  LinkHolds'
<1>1. /\ link \in [HarqIds -> {Free, Dci} \cup 0 .. MaxBuf] /\ srAir \in BOOLEAN
      /\ \A g \in HarqIds : link[g] >= 0 => g \in granted
  BY DEF LoopInv, LinkHolds
<1>2. link' \in [HarqIds -> {Free, Dci} \cup 0 .. MaxBuf]
  BY <1>1
<1>3. ASSUME NEW g \in HarqIds, link'[g] >= 0
      PROVE  g \in granted'
  BY <1>1, <1>3
<1> QED
  BY <1>1, <1>2, <1>3 DEF LinkHolds

LEMMA FreedLink ==
    ASSUME LoopInv, NEW h \in HarqIds, link' = [link EXCEPT ![h] = Free], srAir' = srAir,
           granted' = granted
    PROVE  LinkHolds'
<1>1. Free \in {Free, Dci} \cup 0 .. MaxBuf /\ granted \subseteq granted' /\ ~(Free >= 0)
  OBVIOUS
<1> HIDE DEF Free
<1> QED
  BY <1>1, LinkWith

LEMMA ReportSteps ==
    ASSUME LoopInv, NEW n \in 0 .. MaxBuf, Report(n)
    PROVE  LoopInv' /\ BothRun
<1>1. UE!DoTransmitBufferStatusReport(Drb, n) /\ UNCHANGED <<gnbVars, srAir, link>>
  BY DEF Report
<1>2. UE!Next
  BY <1>1 DEF UE!Next, UE!ReportStep
<1> QED
  BY <1>1, <1>2, ReportKeeps, GnbRests DEF LoopInv, Connected, LinkHolds, BothRun

LEMMA SlotSteps ==
    ASSUME LoopInv, Slot
    PROVE  LoopInv' /\ BothRun
<1>1. UE!DoSlotIndication /\ UE!Next /\ srAir' = (srAir \/ "sr" \in out')
  BY DEF Slot, UE!Next
<1>2. UeHolds' /\ UNCHANGED <<rnti, lcs, granted, bytes>>
  BY <1>1, SlotKeeps
<1>3. srAir' \in BOOLEAN
  BY <1>1, Zenon
<1>4. ASSUME NEW tb \in {0, Tb}, UlSlotWith(tb)
      PROVE  /\ Gnb!TypeOK' /\ Gnb!Next
             /\ UNCHANGED <<known, left, bearers, lcOf, aborted>>
  BY <1>4, UlSlotKeeps DEF Gnb!Next, LoopInv, Connected
<1>5. CASE UNCHANGED <<gnbVars, link>>
  BY <1>1, <1>2, <1>3, <1>5, GnbRests DEF LoopInv, Connected, LinkHolds, BothRun
<1>6. CASE UlSlotWith(0) /\ UNCHANGED link
  BY <1>1, <1>2, <1>3, <1>4, <1>6 DEF LoopInv, Connected, LinkHolds, BothRun
<1>7. ASSUME NEW h \in HarqIds, UlSlotWith(Tb), link' = [link EXCEPT ![h] = Dci]
      PROVE  LoopInv' /\ BothRun
  <2>1. /\ link' \in [HarqIds -> {Free, Dci} \cup 0 .. MaxBuf]
        /\ \A g \in HarqIds : link'[g] >= 0 => g \in granted
    BY <1>7 DEF LoopInv, LinkHolds
  <2> QED
    BY <1>1, <1>2, <1>3, <1>4, <1>7, <2>1 DEF LoopInv, Connected, LinkHolds, BothRun
<1> QED
  BY <1>5, <1>6, <1>7 DEF Slot

LEMMA ExpireSteps ==
    ASSUME LoopInv, Expire
    PROVE  LoopInv' /\ BothRun
<1>1. UE!ExpireRetxBsrTimer /\ UE!Next /\ UNCHANGED <<gnbVars, srAir, link>>
  BY DEF Expire, UE!Next
<1> QED
  BY <1>1, ExpireKeeps, GnbRests DEF LoopInv, Connected, LinkHolds, BothRun

LEMMA SrSteps ==
    ASSUME LoopInv, SrArrives
    PROVE  LoopInv' /\ BothRun
<1>1. /\ Gnb!DoReportSrToScheduler(Ue) /\ srAir' = FALSE /\ UNCHANGED <<ueVars, link>>
      /\ UNCHANGED <<rnti, lcs, granted>>
  BY DEF SrArrives, ueVars
<1>2. Gnb!Next
  BY <1>1 DEF Gnb!Next, LoopInv, Connected
<1> QED
  <2>1. LinkHolds'
    BY <1>1 DEF LoopInv, LinkHolds
  <2>2. Gnb!TypeOK' /\ UNCHANGED <<known, left, bearers, lcOf, aborted>>
    BY <1>1, SrKeeps
  <2>3. UeHolds' /\ UNCHANGED UE!vars
    BY <1>1, UeRests
  <2> QED
    BY <1>1, <1>2, <2>1, <2>2, <2>3 DEF LoopInv, Connected, BothRun

LEMMA DciSteps ==
    ASSUME LoopInv, NEW h \in HarqIds, DciArrives(h)
    PROVE  LoopInv' /\ BothRun
<1>1. PICK n \in 0 .. MaxBuf :
         /\ UE!UlDciNewData(h, [l \in {Drb} |-> n], Backlog > 0)
         /\ link' = [link EXCEPT ![h] = IF "bsr" \in out' THEN n ELSE Free]
  BY DEF DciArrives
<1>2. UNCHANGED <<gnbVars, srAir>>
  BY DEF DciArrives
<1>3. (Backlog > 0) \in BOOLEAN
  BY DEF LoopInv, UeHolds, UE!TypeOK
<1>4. UeHolds' /\ rnti' = rnti /\ lcs' = lcs /\ granted' = granted \cup {h}
  BY <1>1, <1>3, NewDataKeeps
<1>5. UE!Next
  <2>1. [l \in {Drb} |-> n] \in [{Drb} -> 0 .. MaxBuf]
    OBVIOUS
  <2> QED
    BY <1>1, <1>3, <2>1 DEF UE!Next, UE!NewDataStep
<1>6. LinkHolds'
  BY <1>1, <1>2, <1>4, LinkWith
<1> QED
  BY <1>2, <1>4, <1>5, <1>6, GnbRests DEF LoopInv, Connected, BothRun

LEMMA RetxSteps ==
    ASSUME LoopInv, NEW h \in HarqIds, TbRetx(h)
    PROVE  LoopInv' /\ BothRun
<1>1. UE!UlDciRetx(h) /\ UE!Next /\ UNCHANGED <<gnbVars, srAir>>
  BY DEF TbRetx, UE!Next
<1>2. link[h] >= 0 /\ link' = [link EXCEPT ![h] = Backlog]
  BY DEF TbRetx
<1>3. UeHolds' /\ UNCHANGED <<rnti, lcs, granted, bytes>>
  BY <1>1, RetxKeeps
<1>4. Backlog \in 0 .. MaxBuf /\ h \in granted
  BY <1>2, BufAssumption DEF LoopInv, UeHolds, UE!TypeOK, LinkHolds
<1>5. LinkHolds'
  BY <1>1, <1>2, <1>3, <1>4, LinkWith
<1> QED
  BY <1>1, <1>3, <1>5, GnbRests DEF LoopInv, Connected, BothRun

LEMMA DecodedSteps ==
    ASSUME LoopInv, NEW h \in HarqIds, TbDecoded(h)
    PROVE  LoopInv' /\ BothRun
<1> DEFINE bsr == [g \in {Group} |-> BytesOf(link[h])]
<1>1. /\ link[h] >= 0 /\ Gnb!DoReceivePhyPduBsr(Ue, bsr)
      /\ link' = [link EXCEPT ![h] = Free] /\ UNCHANGED <<ueVars, srAir>>
  BY DEF TbDecoded
<1>2. link[h] \in 0 .. MaxBuf
  BY <1>1 DEF LoopInv, LinkHolds
<1>3. bsr \in Gnb!Bsrs
  BY <1>2 DEF Gnb!Bsrs
<1> HIDE DEF bsr
<1>4. Gnb!Next
  BY <1>1, <1>3 DEF Gnb!Next, LoopInv, Connected
<1>5. LinkHolds' /\ UNCHANGED <<rnti, lcs, granted>>
  <2>1. UNCHANGED <<rnti, lcs, granted>>
    BY <1>1 DEF ueVars
  <2> QED
    BY <1>1, <2>1, FreedLink
<1> QED
  BY <1>1, <1>3, <1>4, <1>5, BsrKeeps, UeRests DEF LoopInv, Connected, BothRun

LEMMA LostSteps ==
    ASSUME LoopInv, NEW h \in HarqIds, TbLost(h)
    PROVE  LoopInv' /\ BothRun
<1>1. link' = [link EXCEPT ![h] = Free] /\ UNCHANGED <<ueVars, gnbVars, srAir>>
  BY DEF TbLost
<1>2. UNCHANGED <<rnti, lcs, granted>>
  BY <1>1 DEF ueVars
<1>3. LinkHolds'
  BY <1>1, <1>2, FreedLink
<1> QED
  BY <1>1, <1>2, <1>3, UeRests, GnbRests DEF LoopInv, Connected, BothRun

LEMMA LoopSteps == LoopInv /\ [Next]_vars => LoopInv' /\ BothRun
<1> SUFFICES ASSUME LoopInv, [Next]_vars PROVE LoopInv' /\ BothRun
  OBVIOUS
<1>1. CASE Next
  BY <1>1, ReportSteps, SlotSteps, ExpireSteps, SrSteps, DciSteps, RetxSteps, DecodedSteps,
     LostSteps DEF Next
<1>2. CASE UNCHANGED vars
  <2>1. UNCHANGED <<ueVars, gnbVars, srAir, link>> /\ UNCHANGED <<rnti, lcs, granted>>
    BY <1>2 DEF vars, ueVars, gnbVars
  <2> QED
    BY <2>1, UeRests, GnbRests DEF LoopInv, Connected, LinkHolds, BothRun
<1> QED
  BY <1>1, <1>2

LEMMA LoopStarts == Init => LoopInv
<1> SUFFICES ASSUME Init PROVE LoopInv
  OBVIOUS
<1>1. /\ bytes = [l \in {Drb} |-> 0] /\ ~UE!Buffered(bytes)
  BY DEF Init, UE!Buffered
<1>2. slot \in UE!Slots
  BY SlotsSize DEF Init
<1>3. UeHolds
  BY <1>1, <1>2, BufAssumption
  DEF Init, UeHolds, UE!TypeOK, UE!SrStates, UE!Msgs, UE!TimerIffActive, UE!NoStall,
      UE!RetxHasPackets
<1>4. Gnb!TypeOK
  BY DEF Init, Gnb!TypeOK
<1>5. Connected
  BY DEF Init, Connected
<1>6. LinkHolds
  <2>1. \A h \in HarqIds : link[h] = -1
    BY DEF Init
  <2>2. link \in [HarqIds -> {-1}] /\ srAir \in BOOLEAN
    BY DEF Init
  <2>3. ~(-1 >= 0)
    OBVIOUS
  <2> QED
    BY <2>1, <2>2, <2>3 DEF LinkHolds
<1> QED
  BY <1>3, <1>4, <1>5, <1>6 DEF LoopInv

(* The invariant of the loop: both MACs have their types, the UE the       *)
(* invariants of its SR/BSR machine, and a TB whose BSR is on its way was  *)
(* granted; the gNB has not aborted.                                       *)
THEOREM LoopHolds == Spec => []LoopInv
<1> QED
  BY LoopStarts, LoopSteps, PTL DEF Spec

(* Every behaviour of the loop is, for each MAC, one of its own module:    *)
(* the messages the loop delivers are messages the handlers are modelled   *)
(* for, and no step of the gNB is the one that aborts for an unknown UE.   *)
THEOREM EachRunsItsModule == Spec => [][UE!Next]_(UE!vars) /\ [][Gnb!Next]_(Gnb!vars)
<1>1. LoopInv /\ [Next]_vars => [UE!Next]_(UE!vars) /\ [Gnb!Next]_(Gnb!vars)
  BY LoopSteps DEF BothRun
<1> QED
  BY <1>1, LoopHolds, PTL DEF Spec

(* No SR and no BSR of the loop is about a UE the scheduler does not know: *)
(* NS_ABORT_IF in BSRReceivedFromUe and m_ueMap.at in DoScheduleUlSr.      *)
THEOREM LoopNeverAborts == Spec => [](~aborted /\ \A room \in BOOLEAN : ~Gnb!UnknownUe(room))
<1>1. LoopInv => ~aborted /\ \A room \in BOOLEAN : ~Gnb!UnknownUe(room)
  BY UeIsKnown DEF LoopInv, Connected
<1> QED
  BY <1>1, LoopHolds, PTL

-----------------------------------------------------------------------------
(* The uplink serves only what is queued, and a queue falls when it is     *)
(* served: a step of the loop is an arrival or a service of UplinkService. *)

LEMMA Arrives ==
    ASSUME LoopInv, Backlog' \in 0 .. MaxBuf, "data" \notin out'
    PROVE  Service!Arrive
<1>1. ("data" \in out)' = FALSE
  OBVIOUS
<1> QED
  BY <1>1 DEF Service!Arrive

LEMMA BacklogIs == LoopInv => Backlog \in 0 .. MaxBuf
  BY BufAssumption DEF LoopInv, UeHolds, UE!TypeOK

LEMMA UeStepServes ==
    ASSUME LoopInv,
           \/ \E n \in 0 .. MaxBuf : Report(n)
           \/ Slot
           \/ Expire
           \/ \E h \in HarqIds : TbRetx(h)
    PROVE  Service!Arrive
<1>1. ASSUME NEW n \in 0 .. MaxBuf, Report(n)
      PROVE  Backlog' \in 0 .. MaxBuf /\ out' = {}
  BY <1>1 DEF Report, UE!DoTransmitBufferStatusReport, LoopInv, UeHolds, UE!TypeOK
<1>2. CASE Slot
  BY <1>2, Arrives, BacklogIs DEF Slot, UE!DoSlotIndication, UE!bufVars
<1>3. CASE Expire
  BY <1>3, Arrives, BacklogIs DEF Expire, UE!ExpireRetxBsrTimer, UE!bufVars
<1>4. ASSUME NEW h \in HarqIds, TbRetx(h)
      PROVE  Service!Arrive
  BY <1>4, Arrives, BacklogIs DEF TbRetx, UE!UlDciRetx, UE!bufVars, UE!Bsr
<1> QED
  BY <1>1, <1>2, <1>3, <1>4, Arrives

LEMMA LinkStepRests ==
    ASSUME UNCHANGED ueVars
    PROVE  UNCHANGED Service!vars
  BY DEF ueVars, Service!vars

LEMMA DciServes ==
    ASSUME LoopInv, NEW h \in HarqIds, DciArrives(h)
    PROVE  Service!Next
<1>1. PICK n \in 0 .. MaxBuf :
         /\ n < Backlog \/ n = 0
         /\ UE!UlDciNewData(h, [l \in {Drb} |-> n], Backlog > 0)
  BY DEF DciArrives
<1>2. Backlog \in 0 .. MaxBuf /\ n \in Nat /\ Backlog \in Nat
  BY BacklogIs, BufAssumption
<1>3. Backlog' = n
  BY <1>1 DEF UE!UlDciNewData
<1>4. out' = UE!Bsr \cup (IF Backlog > 0 THEN {"data"} ELSE {})
                   \cup (IF ~UE!Buffered([l \in {Drb} |-> n]) /\ ~(Backlog > 0) /\ UE!Bsr = {}
                         THEN {"empty"} ELSE {})
  BY <1>1 DEF UE!UlDciNewData
<1>5. CASE Backlog > 0
  <2>1. "data" \in out'
    BY <1>4, <1>5
  <2>2. ("data" \in out)' = TRUE
    BY <2>1, Zenon
  <2>3. n \in 0 .. Backlog - 1
    BY <1>1, <1>2, <1>5
  <2> QED
    BY <1>3, <1>5, <2>2, <2>3 DEF Service!Next, Service!Serve
<1>6. CASE ~(Backlog > 0)
  <2>1. "data" \notin out'
    BY <1>4, <1>6 DEF UE!Bsr
  <2> QED
    BY <1>3, <2>1, Arrives DEF Service!Next
<1> QED
  BY <1>5, <1>6

(* The safety half of the refinement Serves: whatever is lost, late or     *)
(* stale, the uplink takes only what RLC reported, each grant in use       *)
(* leaves less than there was, and nothing else counts as service.         *)
THEOREM ServiceIsSafe == Spec => Service!Init /\ [][Service!Next]_(Service!vars)
<1>1. Init => Service!Init
  <2> SUFFICES ASSUME Init PROVE Service!Init
    OBVIOUS
  <2>1. Backlog = 0 /\ "data" \notin out
    BY DEF Init
  <2>2. ("data" \in out) = FALSE
    BY <2>1
  <2> QED
    BY <2>1, <2>2 DEF Service!Init
<1>2. LoopInv /\ [Next]_vars => [Service!Next]_(Service!vars)
  <2> SUFFICES ASSUME LoopInv, [Next]_vars PROVE [Service!Next]_(Service!vars)
    OBVIOUS
  <2>1. CASE UNCHANGED vars
    BY <2>1, LinkStepRests DEF vars
  <2>2. CASE SrArrives
    BY <2>2, LinkStepRests DEF SrArrives
  <2>3. ASSUME NEW h \in HarqIds, TbDecoded(h) \/ TbLost(h)
        PROVE  UNCHANGED Service!vars
    BY <2>3, LinkStepRests DEF TbDecoded, TbLost
  <2>4. ASSUME NEW h \in HarqIds, DciArrives(h)
        PROVE  Service!Next
    BY <2>4, DciServes
  <2>5. ASSUME \/ \E n \in 0 .. MaxBuf : Report(n)
               \/ Slot
               \/ Expire
               \/ \E h \in HarqIds : TbRetx(h)
        PROVE  Service!Next
    BY <2>5, UeStepServes DEF Service!Next
  <2> QED
    BY <2>1, <2>2, <2>3, <2>4, <2>5, Zenon DEF Next
<1> QED
  BY <1>1, <1>2, LoopHolds, PTL DEF Spec
=============================================================================

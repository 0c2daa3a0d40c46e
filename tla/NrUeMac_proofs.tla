---------------------------- MODULE NrUeMac_proofs ----------------------------
(***************************************************************************)
(* The safety of the SR/BSR machine of NrUeMac for every set of channels,  *)
(* every timer length and every SR grid, and the two promises of its timer *)
(* in NrUeMacTimed: an SR in bounded time, and none too early.  Then what  *)
(* a grant becomes in NrUeMacTb: a transport block is never overdrawn and  *)
(* RLC AM never offered too little, for every number of channels, every    *)
(* block the scheduler makes and every size of SDUs and retransmissions,   *)
(* as long as no two channels send STATUS PDUs.                            *)
(***************************************************************************)
EXTENDS NrUeMacTimed, NrUeMacTb, FiniteSetTheorems, WellFoundedInduction, TLAPS

(* The inductive invariant.  NoStall and NoSrWithoutRnti need each other   *)
(* and TimerIffActive: a request reported without an RNTI would leave the  *)
(* machine ACTIVE without a timer at the next SR opportunity.              *)
IInv == TypeOK /\ TimerIffActive /\ NoSrWithoutRnti /\ NoStall /\ RetxHasPackets

USE DEF Off, NoDci, InitialRnti

(* The SR grid has one slot at least, and a slot number stays on it. *)
LEMMA SlotsSize ==
    /\ Cardinality(Slots) \in Nat \ {0}
    /\ Slots = 0 .. Cardinality(Slots) - 1
<1> DEFINE last == IF SrPeriod = 0 THEN 0 ELSE SrPeriod - 1
<1>1. last \in Nat
  BY GridAssumption
<1>2. Cardinality(0 .. last) = last - 0 + 1
  BY <1>1, FS_Interval
<1>3. Slots = 0 .. last
  BY DEF Slots
<1> QED
  BY <1>1, <1>2, <1>3

(* An empty report makes the machine idle, a report of data leaves no      *)
(* request unmade; both keep the timer with the ACTIVE state.              *)
LEMMA ReportKeeps ==
    ASSUME IInv, NEW l \in LCs, NEW n \in Nat, DoTransmitBufferStatusReport(l, n)
    PROVE  IInv'
<1>1. bytes' \in [LCs -> Nat] /\ reported' \subseteq lcs'
  BY DEF DoTransmitBufferStatusReport, IInv, TypeOK
<1>2. TypeOK'
  BY <1>1 DEF DoTransmitBufferStatusReport, IInv, TypeOK, Idle, RequestIfIdle, SrStates, Msgs
<1>3. TimerIffActive' /\ NoStall'
  <2>1. CASE ~Buffered(bytes') /\ Idle
    BY <2>1 DEF Idle, TimerIffActive, NoStall
  <2>2. CASE Buffered(bytes') /\ RequestIfIdle
    BY <2>2 DEF RequestIfIdle, IInv, TypeOK, SrStates, TimerIffActive, NoStall
  <2> QED
    BY <2>1, <2>2 DEF DoTransmitBufferStatusReport
<1>4. NoSrWithoutRnti' /\ RetxHasPackets'
  BY DEF DoTransmitBufferStatusReport, IInv, NoSrWithoutRnti, RetxHasPackets
<1> QED
  BY <1>2, <1>3, <1>4 DEF IInv

(* A slot sends no SR without an RNTI, so that ACTIVE starts the timer. *)
LEMMA SlotKeeps ==
    ASSUME IInv, DoSlotIndication
    PROVE  IInv'
<1> DEFINE now == (slot + 1) % Cardinality(Slots)
           tick == IF timer = Off THEN Off ELSE timer - 1
<1>1. now \in Slots
  BY SlotsSize DEF IInv, TypeOK
<1>2. tick \in 0 .. RetxBsrTimer \cup {Off} /\ (tick = Off <=> timer = Off)
  BY TimerAssumption DEF DoSlotIndication, IInv, TypeOK
<1>3. CASE srState = "TO_SEND" /\ IsSrOpportunity(now) /\ srState' = "ACTIVE"
           /\ rnti # 0 /\ out' = {"sr"} /\ timer' = RetxBsrTimer
  BY <1>1, <1>3, TimerAssumption
     DEF DoSlotIndication, bufVars, IInv, TypeOK, TimerIffActive, NoSrWithoutRnti, NoStall,
         RetxHasPackets, SrStates, Msgs
<1>4. CASE ~(srState = "TO_SEND" /\ IsSrOpportunity(now))
           /\ out' = {} /\ timer' = tick /\ UNCHANGED srState
  BY <1>1, <1>2, <1>4
     DEF DoSlotIndication, bufVars, IInv, TypeOK, TimerIffActive, NoSrWithoutRnti, NoStall,
         RetxHasPackets, Buffered
<1>5. srState = "TO_SEND" => rnti # 0
  BY DEF IInv, NoSrWithoutRnti
<1> QED
  BY <1>3, <1>4, <1>5 DEF DoSlotIndication

(* The expiry of the recovery timer always leaves the ACTIVE state. *)
LEMMA ExpireKeeps ==
    ASSUME IInv, ExpireRetxBsrTimer
    PROVE  IInv'
<1>1. srState = "ACTIVE"
  BY DEF ExpireRetxBsrTimer, IInv, TimerIffActive
<1>2. CASE Buffered(bytes)
  BY <1>1, <1>2 DEF ExpireRetxBsrTimer, Recovery, bufVars, IInv, TypeOK, TimerIffActive,
                    NoSrWithoutRnti, NoStall, RetxHasPackets, SrStates
<1>3. CASE ~Buffered(bytes)
  BY <1>1, <1>3 DEF ExpireRetxBsrTimer, bufVars, IInv, TypeOK, TimerIffActive,
                    NoSrWithoutRnti, NoStall, RetxHasPackets, SrStates, Buffered
<1> QED
  BY <1>2, <1>3

(* A new-data grant restarts the timer or finds nothing left, and leaves   *)
(* its process with a burst that a retransmission can meet.                *)
LEMMA NewDataKeeps ==
    ASSUME IInv, NEW h \in HarqIds, NEW left \in [LCs -> Nat], NEW used \in BOOLEAN,
           UlDciNewData(h, left, used)
    PROVE  IInv'
<1>1. harqBuf' \in [HarqIds -> {"fresh", "null", "data"}] /\ harqBuf'[h] # "fresh"
      /\ \A i \in HarqIds \ {h} : harqBuf'[i] = harqBuf[i]
  BY DEF UlDciNewData, NewDataBurst, IInv, TypeOK
<1>2. out' \subseteq Msgs
  BY DEF UlDciNewData, Bsr, Msgs
<1>3. bytes' = left
  BY DEF UlDciNewData
<1>4. /\ srState' \in SrStates /\ timer' \in 0 .. RetxBsrTimer \cup {Off}
      /\ TimerIffActive' /\ NoStall'
  BY <1>3, TimerAssumption
     DEF UlDciNewData, Idle, SrStates, TimerIffActive, NoStall
<1>5. TypeOK'
  BY <1>1, <1>2, <1>3, <1>4 DEF UlDciNewData, IInv, TypeOK
<1>6. NoSrWithoutRnti'
  BY DEF UlDciNewData, NoSrWithoutRnti
<1>7. RetxHasPackets'
  BY <1>1 DEF UlDciNewData, IInv, RetxHasPackets, TypeOK
<1> QED
  BY <1>4, <1>5, <1>6, <1>7 DEF IInv

(* The response of a random access brings an RNTI before any request. *)
LEMMA RarKeeps ==
    ASSUME IInv, NEW r \in Rntis, NEW msg3 \in BOOLEAN, RecvRaResponse(r, msg3)
    PROVE  IInv'
<1>1. rnti' = r /\ r # 0
  BY RntiAssumption DEF RecvRaResponse
<1>2. /\ harqBuf' \in [HarqIds -> {"fresh", "null", "data"}]
      /\ \A h \in granted : harqBuf'[h] # "fresh"
  BY HarqAssumption DEF RecvRaResponse, IInv, TypeOK, RetxHasPackets
<1>3. TypeOK'
  BY <1>1, <1>2 DEF RecvRaResponse, bufVars, IInv, TypeOK, SrStates, Msgs
<1>4. TimerIffActive' /\ NoStall'
  BY DEF RecvRaResponse, bufVars, IInv, TypeOK, SrStates, TimerIffActive, NoStall, Buffered
<1> QED
  BY <1>1, <1>2, <1>3, <1>4 DEF RecvRaResponse, IInv, NoSrWithoutRnti, RetxHasPackets

(* A released bearer only takes bytes away. *)
LEMMA RemoveLcKeeps ==
    ASSUME IInv, NEW l \in LCs, DoRemoveLc(l)
    PROVE  IInv'
<1>1. bytes' \in [LCs -> Nat] /\ reported' \subseteq lcs' /\ lcs' \subseteq LCs
  BY DEF DoRemoveLc, IInv, TypeOK
<1>2. Buffered(bytes') => Buffered(bytes)
  BY DEF DoRemoveLc, Buffered, IInv, TypeOK
<1> QED
  BY <1>1, <1>2 DEF DoRemoveLc, srVars, IInv, TypeOK, TimerIffActive, NoSrWithoutRnti, NoStall,
                    RetxHasPackets, Msgs

(* A reset empties the machine together with the buffers. *)
LEMMA ResetKeeps ==
    ASSUME IInv, DoReset
    PROVE  IInv'
  BY DEF DoReset, ForgetCell, Idle, IInv, TypeOK, TimerIffActive, NoSrWithoutRnti, NoStall,
         RetxHasPackets, SrStates, Msgs, Buffered

(* The remaining calls do not touch the SR/BSR machine or the buffers. *)
LEMMA OthersKeep ==
    ASSUME IInv,
           \/ \E h \in HarqIds : UlDciRetx(h)
           \/ StartContentionRa
           \/ \E r \in Rntis : StartNonContentionRa(r)
           \/ \E l \in LCs : AddLc(l)
    PROVE  IInv'
<1>1. ASSUME NEW h \in HarqIds, UlDciRetx(h) PROVE IInv'
  BY <1>1 DEF UlDciRetx, Bsr, srVars, bufVars, IInv, TypeOK, TimerIffActive, NoSrWithoutRnti,
              NoStall, RetxHasPackets, Msgs, Buffered
<1>2. ASSUME StartContentionRa PROVE IInv'
  BY <1>2 DEF StartContentionRa, srVars, bufVars, IInv, TypeOK, TimerIffActive,
              NoSrWithoutRnti, NoStall, RetxHasPackets, Msgs, Buffered
<1>3. ASSUME NEW r \in Rntis, StartNonContentionRa(r) PROVE IInv'
  BY <1>3, RntiAssumption
     DEF StartNonContentionRa, srVars, bufVars, IInv, TypeOK, TimerIffActive,
         NoSrWithoutRnti, NoStall, RetxHasPackets, Msgs, Buffered
<1>4. ASSUME NEW l \in LCs, AddLc(l) PROVE IInv'
  BY <1>4 DEF AddLc, srVars, bufVars, IInv, TypeOK, TimerIffActive, NoSrWithoutRnti, NoStall,
              RetxHasPackets, Msgs, Buffered
<1> QED
  BY <1>1, <1>2, <1>3, <1>4

(* The invariant holds when the UE is created. *)
LEMMA InitIInv == Init => IInv
<1>1. 0 \in Slots
  BY SlotsSize
<1> QED
  BY <1>1, HarqAssumption
     DEF Init, IInv, TypeOK, TimerIffActive, NoSrWithoutRnti, NoStall, RetxHasPackets,
         SrStates, Msgs, Buffered

(* Every step keeps the invariant. *)
LEMMA NextIInv == IInv /\ [Next]_vars => IInv'
<1> SUFFICES ASSUME IInv, [Next]_vars PROVE IInv'
  OBVIOUS
<1>1. CASE ReportStep
  BY <1>1, ReportKeeps, BufAssumption DEF ReportStep
<1>2. CASE DoSlotIndication
  BY <1>2, SlotKeeps
<1>3. CASE ExpireRetxBsrTimer
  BY <1>3, ExpireKeeps
<1>4. CASE NewDataStep
  <2>1. PICK h \in HarqIds, left \in [LCs -> 0 .. MaxBuf], used \in BOOLEAN :
            UlDciNewData(h, left, used)
    BY <1>4 DEF NewDataStep
  <2>2. left \in [LCs -> Nat]
    BY BufAssumption
  <2> QED
    BY <2>1, <2>2, NewDataKeeps
<1>5. CASE \/ \E h \in HarqIds : UlDciRetx(h)
           \/ StartContentionRa
           \/ \E r \in Rntis : StartNonContentionRa(r)
           \/ \E l \in LCs : AddLc(l)
  BY <1>5, OthersKeep
<1>6. CASE \E r \in Rntis, msg3 \in BOOLEAN : RecvRaResponse(r, msg3)
  BY <1>6, RarKeeps
<1>7. CASE \E l \in LCs : DoRemoveLc(l)
  BY <1>7, RemoveLcKeeps
<1>8. CASE DoReset
  BY <1>8, ResetKeeps
<1>9. CASE UNCHANGED vars
  BY <1>9 DEF vars, IInv, TypeOK, TimerIffActive, NoSrWithoutRnti, NoStall, RetxHasPackets,
              Buffered
<1> QED
  BY <1>1, <1>2, <1>3, <1>4, <1>5, <1>6, <1>7, <1>8, <1>9 DEF Next

(* The invariant of the SR/BSR machine, for every behaviour. *)
THEOREM Invariance == Spec => []IInv
  BY InitIInv, NextIInv, PTL DEF Spec

(* Type correctness of the UE MAC. *)
THEOREM TypeCorrect == Spec => []TypeOK
<1>1. IInv => TypeOK
  BY DEF IInv
<1> QED
  BY <1>1, Invariance, PTL

(* No UE with reported data is left without a request or a running         *)
(* RetxBsrTimer.                                                           *)
THEOREM NeverStalls == Spec => []NoStall
<1>1. IInv => NoStall
  BY DEF IInv
<1> QED
  BY <1>1, Invariance, PTL

(* The recovery timer runs exactly in the ACTIVE state. *)
THEOREM TimerWithGrantWait == Spec => []TimerIffActive
<1>1. IInv => TimerIffActive
  BY DEF IInv
<1> QED
  BY <1>1, Invariance, PTL

(* Types and timer together, as the run checks them. *)
THEOREM MacHolds == Spec => []MacInv
<1>1. IInv => MacInv
  BY DEF IInv, MacInv
<1> QED
  BY <1>1, Invariance, PTL

(* SendSR never runs without an RNTI. *)
THEOREM SrHasRnti == Spec => []NoSrWithoutRnti
<1>1. IInv => NoSrWithoutRnti
  BY DEF IInv
<1> QED
  BY <1>1, Invariance, PTL

(* The assertion of TransmitRetx holds. *)
THEOREM RetxAssertion == Spec => []RetxHasPackets
<1>1. IInv => RetxHasPackets
  BY DEF IInv
<1> QED
  BY <1>1, Invariance, PTL

-----------------------------------------------------------------------------
(***************************************************************************)
(* NrUeMacTimed: the waits of the machine.                                 *)
(***************************************************************************)

(* Slots without an SR opportunity that follow slot s before the next one. *)
Target == IF SrPeriod = 0 THEN 0 ELSE SrOffset % SrPeriod
Distance(s) == IF s < Target THEN Target - s - 1
               ELSE Target - s - 1 + Cardinality(Slots)

(* The history variables follow the timer while the UE waits for a grant,  *)
(* and the distance to the SR grid's next slot while it waits to ask.      *)
WaitInv ==
    /\ wait \in Nat
    /\ ~Buffered(bytes) => wait = 0
    /\ srState = "ACTIVE" => wait + timer <= RetxBsrTimer
    /\ srState = "TO_SEND" => wait + Distance(slot) < RetxBsrTimer + Cardinality(Slots)

SinceInv ==
    /\ since \in 0 .. RetxBsrTimer
    /\ srState = "INACTIVE" => since = RetxBsrTimer
    /\ srState = "ACTIVE" => since + timer >= RetxBsrTimer
    /\ srState = "TO_SEND" => since >= RetxBsrTimer - 1

TimedInv == IInv /\ WaitInv /\ SinceInv

LEMMA ModOfSmall ==
    ASSUME NEW n \in Nat \ {0}, NEW x \in 0 .. n - 1
    PROVE  x % n = x
  OBVIOUS

(* A slot that is no opportunity brings the next one a slot nearer. *)
LEMMA DistanceFalls ==
    ASSUME NEW s \in Slots
    PROVE  LET now == (s + 1) % Cardinality(Slots) IN
           /\ Distance(s) \in 0 .. Cardinality(Slots) - 1
           /\ now \in Slots
           /\ ~IsSrOpportunity(now) => Distance(now) = Distance(s) - 1
<1> DEFINE period == Cardinality(Slots)
           now == (s + 1) % period
<1>1. period \in Nat \ {0} /\ Slots = 0 .. period - 1
  BY SlotsSize
<1>2. SrPeriod # 0 => period = SrPeriod
  <2>1. ASSUME SrPeriod # 0 PROVE Slots = 0 .. SrPeriod - 1
    BY <2>1 DEF Slots
  <2>2. ASSUME SrPeriod # 0 PROVE Cardinality(0 .. SrPeriod - 1) = SrPeriod
    BY <2>2, GridAssumption, FS_Interval
  <2> QED
    BY <2>1, <2>2
<1>3. Target \in 0 .. period - 1
  BY <1>1, <1>2, GridAssumption DEF Target
<1>4. now = IF s = period - 1 THEN 0 ELSE s + 1
  <2>1. CASE s = period - 1
    BY <1>1, <2>1
  <2>2. CASE s # period - 1
    <3>1. s + 1 \in 0 .. period - 1
      BY <1>1, <2>2
    <3> QED
      BY <1>1, <2>2, <3>1
  <2> QED
    BY <2>1, <2>2
<1>5. now \in 0 .. period - 1
  BY <1>1, <1>4
<1> HIDE DEF now
<1>7. ~IsSrOpportunity(now) => now # Target
  <2>1. CASE SrPeriod # 0
    <3>1. now % SrPeriod = now
      BY <1>1, <1>2, <1>5, <2>1, ModOfSmall
    <3> QED
      BY <2>1, <3>1 DEF IsSrOpportunity, Target
  <2> QED
    BY <2>1 DEF IsSrOpportunity
<1>8. Distance(s) \in 0 .. period - 1
  BY <1>1, <1>3 DEF Distance
<1>9. now # Target => Distance(now) = Distance(s) - 1
  <2>1. CASE s = period - 1
    BY <1>1, <1>3, <1>4, <2>1 DEF Distance
  <2>2. CASE s # period - 1
    BY <1>1, <1>3, <1>4, <2>2 DEF Distance
  <2> QED
    BY <2>1, <2>2
<1> QED
  BY <1>1, <1>5, <1>7, <1>8, <1>9 DEF now

-----------------------------------------------------------------------------
(* A new-data grant restarts both histories with the timer. *)
LEMMA NewDataTimed ==
    ASSUME TimedInv, IInv', NewDataStep, WaitNext, SinceNext
    PROVE  WaitInv' /\ SinceInv'
<1>1. /\ "sr" \notin out'
      /\ \/ ~Buffered(bytes') /\ srState' = "INACTIVE"
         \/ Buffered(bytes') /\ srState' = "ACTIVE" /\ timer' = RetxBsrTimer
  BY DEF NewDataStep, UlDciNewData, Bsr, Idle
<1>2. wait' = 0
  BY DEF WaitNext
<1>3. since' = IF Buffered(bytes') THEN 0 ELSE RetxBsrTimer
  BY <1>1 DEF SinceNext, Asked
<1> QED
  BY <1>1, <1>2, <1>3, TimerAssumption DEF WaitInv, SinceInv

(* A slot either asks, or moves the timer and both histories by one. *)
LEMMA SlotTimed ==
    ASSUME TimedInv, IInv', DoSlotIndication, ~NewDataStep, WaitNext, SinceNext
    PROVE  WaitInv' /\ SinceInv'
<1> DEFINE now == (slot + 1) % Cardinality(Slots)
           period == Cardinality(Slots)
<1>1. /\ period \in Nat \ {0}
      /\ Distance(slot) \in 0 .. period - 1 /\ slot' = now
      /\ ~IsSrOpportunity(slot') => Distance(slot') = Distance(slot) - 1
  BY SlotsSize, DistanceFalls DEF DoSlotIndication, TimedInv, IInv, TypeOK
<1>2. bytes' = bytes
  BY DEF DoSlotIndication, bufVars
<1>3. CASE srState = "TO_SEND" /\ IsSrOpportunity(now)
  <2>1. out' = {"sr"} /\ timer' = RetxBsrTimer /\ srState' = "ACTIVE"
    BY <1>3 DEF DoSlotIndication, TimedInv, IInv, NoSrWithoutRnti
  <2>2. wait' = 0 /\ since' = 0
    BY <2>1 DEF WaitNext, SinceNext, Asked
  <2> QED
    BY <2>1, <2>2, TimerAssumption DEF WaitInv, SinceInv
<1>4. CASE ~(srState = "TO_SEND" /\ IsSrOpportunity(now))
  <2>1. /\ out' = {} /\ srState' = srState
        /\ timer' = IF timer = Off THEN Off ELSE timer - 1
    BY <1>4 DEF DoSlotIndication
  <2>2. wait' = IF Buffered(bytes) THEN wait + 1 ELSE 0
    BY <1>2, <2>1 DEF WaitNext, Asked
  <2>3. since' = IF ~Buffered(bytes) \/ srState = "INACTIVE" THEN RetxBsrTimer
                 ELSE IF since < RetxBsrTimer THEN since + 1 ELSE since
    BY <1>2, <2>1 DEF SinceNext, Asked
  <2>4. CASE srState = "INACTIVE"
    BY <1>2, <2>1, <2>2, <2>3, <2>4, TimerAssumption
       DEF TimedInv, IInv, NoStall, WaitInv, SinceInv
  <2>5. CASE srState = "TO_SEND"
    <3>1. slot' \in Slots /\ Distance(slot') = Distance(slot) - 1
      BY <1>1, <1>4, <2>5, DistanceFalls DEF TimedInv, IInv, TypeOK
    <3>2. WaitInv'
      <4>1. wait + Distance(slot) < RetxBsrTimer + period /\ wait \in Nat
        BY <2>5 DEF TimedInv, WaitInv
      <4>2. wait' \in Nat /\ wait' + Distance(slot') < RetxBsrTimer + period
        BY <1>1, <2>2, <3>1, <4>1, TimerAssumption
      <4> QED
        BY <1>2, <2>1, <2>2, <2>5, <4>2 DEF WaitInv
    <3>3. SinceInv'
      BY <2>1, <2>3, <2>5, TimerAssumption DEF TimedInv, SinceInv
    <3> QED
      BY <3>2, <3>3
  <2>6. CASE srState = "ACTIVE"
    <3>1. timer \in 1 .. RetxBsrTimer /\ timer' = timer - 1
      BY <2>1, <2>6, TimerAssumption
         DEF DoSlotIndication, TimedInv, IInv, TypeOK, TimerIffActive
    <3>2. WaitInv'
      BY <1>2, <2>1, <2>2, <2>6, <3>1, TimerAssumption DEF TimedInv, WaitInv
    <3>3. SinceInv'
      BY <2>1, <2>3, <2>6, <3>1, TimerAssumption DEF TimedInv, SinceInv
    <3> QED
      BY <3>2, <3>3
  <2> QED
    BY <2>4, <2>5, <2>6 DEF TimedInv, IInv, TypeOK, SrStates
<1> QED
  BY <1>3, <1>4

(* Every other step stops a history or leaves it alone.  One that makes a  *)
(* request finds a UE without data or an expired timer.                    *)
LEMMA OtherTimed ==
    ASSUME TimedInv, IInv', ~NewDataStep, ~DoSlotIndication, WaitNext, SinceNext,
           "sr" \notin out', slot' = slot,
           \/ UNCHANGED srVars
           \/ srState' = "INACTIVE"
           \/ srState = "INACTIVE" /\ srState' = "TO_SEND"
           \/ srState = "ACTIVE" /\ timer \in {0, 1} /\ srState' = "TO_SEND"
    PROVE  WaitInv' /\ SinceInv'
<1> DEFINE period == Cardinality(Slots)
<1>1. period \in Nat \ {0} /\ Distance(slot) \in 0 .. period - 1 /\ Distance(slot') = Distance(slot)
  BY SlotsSize, DistanceFalls DEF TimedInv, IInv, TypeOK
<1>2. wait' = IF Buffered(bytes') THEN wait ELSE 0
  BY DEF WaitNext, Asked
<1>3. since' = IF ~Buffered(bytes') \/ srState' = "INACTIVE" THEN RetxBsrTimer ELSE since
  BY DEF SinceNext, Asked
<1>4. CASE UNCHANGED srVars
  <2>1. timer' = timer /\ srState' = srState /\ (srState = "ACTIVE" => timer \in Nat)
    BY <1>4 DEF srVars, TimedInv, IInv, TypeOK, TimerIffActive
  <2>2. WaitInv'
    BY <1>1, <1>2, <2>1, TimerAssumption DEF TimedInv, WaitInv
  <2>3. SinceInv'
    BY <1>3, <2>1, TimerAssumption DEF TimedInv, SinceInv
  <2> QED
    BY <2>2, <2>3
<1>5. CASE srState' = "INACTIVE"
  BY <1>2, <1>3, <1>5, TimerAssumption DEF TimedInv, WaitInv, SinceInv
<1>6. CASE srState = "INACTIVE" /\ srState' = "TO_SEND"
  <2>1. wait = 0
    BY <1>6 DEF TimedInv, IInv, NoStall, WaitInv
  <2> QED
    BY <1>1, <1>2, <1>3, <1>6, <2>1, TimerAssumption DEF TimedInv, WaitInv, SinceInv
<1>7. CASE srState = "ACTIVE" /\ timer \in {0, 1} /\ srState' = "TO_SEND"
  <2>1. wait \in Nat /\ wait <= RetxBsrTimer
    BY <1>7, TimerAssumption DEF TimedInv, WaitInv
  <2>2. WaitInv'
    BY <1>1, <1>2, <1>7, <2>1, TimerAssumption DEF WaitInv
  <2>3. SinceInv'
    BY <1>3, <1>7, TimerAssumption DEF TimedInv, SinceInv
  <2> QED
    BY <2>2, <2>3
<1> QED
  BY <1>4, <1>5, <1>6, <1>7

(* What OtherTimed asks for holds of every step but the first two kinds. *)
LEMMA OtherSteps ==
    ASSUME IInv, Next, ~NewDataStep, ~DoSlotIndication
    PROVE  /\ "sr" \notin out' /\ slot' = slot
           /\ \/ UNCHANGED srVars
              \/ srState' = "INACTIVE"
              \/ srState = "INACTIVE" /\ srState' = "TO_SEND"
              \/ srState = "ACTIVE" /\ timer \in {0, 1} /\ srState' = "TO_SEND"
<1>1. ASSUME NEW l \in LCs, NEW n \in Nat, DoTransmitBufferStatusReport(l, n)
      PROVE  /\ "sr" \notin out' /\ slot' = slot
             /\ \/ UNCHANGED srVars
                \/ srState' = "INACTIVE"
                \/ srState = "INACTIVE" /\ srState' = "TO_SEND"
  BY <1>1 DEF DoTransmitBufferStatusReport, Idle, RequestIfIdle, srVars
<1>2. ASSUME ExpireRetxBsrTimer
      PROVE  /\ "sr" \notin out' /\ slot' = slot
             /\ \/ srState' = "INACTIVE"
                \/ srState = "ACTIVE" /\ timer \in {0, 1} /\ srState' = "TO_SEND"
  BY <1>2 DEF ExpireRetxBsrTimer, Recovery, IInv, TimerIffActive, Off
<1>3. ASSUME NEW h \in HarqIds, UlDciRetx(h)
      PROVE  "sr" \notin out' /\ slot' = slot /\ UNCHANGED srVars
  BY <1>3 DEF UlDciRetx, Bsr
<1>4. ASSUME NEW r \in Rntis, NEW msg3 \in BOOLEAN, RecvRaResponse(r, msg3)
      PROVE  /\ "sr" \notin out' /\ slot' = slot
             /\ \/ UNCHANGED srVars
                \/ srState = "INACTIVE" /\ srState' = "TO_SEND"
  <2>1. out' = {"msg3"} \/ out' = {}
    BY <1>4 DEF RecvRaResponse
  <2>2. slot' = slot /\ timer' = timer
    BY <1>4 DEF RecvRaResponse
  <2>3. srState' = srState \/ (srState = "INACTIVE" /\ srState' = "TO_SEND")
    BY <1>4 DEF RecvRaResponse
  <2> QED
    BY <2>1, <2>2, <2>3 DEF srVars
<1>5. CASE \/ StartContentionRa
           \/ \E r \in Rntis : StartNonContentionRa(r)
           \/ \E l \in LCs : AddLc(l) \/ DoRemoveLc(l)
  BY <1>5 DEF StartContentionRa, StartNonContentionRa, AddLc, DoRemoveLc
<1>6. CASE DoReset
  BY <1>6 DEF DoReset, ForgetCell, Idle
<1>7. CASE ReportStep
  BY <1>1, <1>7, BufAssumption DEF ReportStep
<1> QED
  BY <1>2, <1>3, <1>4, <1>5, <1>6, <1>7 DEF Next

LEMMA TimedStep == TimedInv /\ [TimedNext]_timedVars => TimedInv'
<1> SUFFICES ASSUME TimedInv, [TimedNext]_timedVars PROVE TimedInv'
  OBVIOUS
<1>1. IInv'
  <2>1. [Next]_vars
    BY DEF TimedNext, timedVars
  <2> QED
    BY <2>1, NextIInv DEF TimedInv
<1>2. CASE TimedNext
  <2>1. CASE NewDataStep
    BY <1>1, <1>2, <2>1, NewDataTimed DEF TimedNext, TimedInv
  <2>2. CASE ~NewDataStep /\ DoSlotIndication
    BY <1>1, <1>2, <2>2, SlotTimed DEF TimedNext, TimedInv
  <2>3. CASE ~NewDataStep /\ ~DoSlotIndication
    BY <1>1, <1>2, <2>3, OtherSteps, OtherTimed DEF TimedNext, TimedInv
  <2> QED
    BY <2>1, <2>2, <2>3
<1>3. CASE UNCHANGED timedVars
  <2>1. WaitInv'
    BY <1>3 DEF timedVars, vars, TimedInv, WaitInv, Buffered, Distance
  <2>2. SinceInv'
    BY <1>3 DEF timedVars, vars, TimedInv, SinceInv
  <2> QED
    BY <1>1, <2>1, <2>2 DEF TimedInv
<1> QED
  BY <1>2, <1>3

LEMMA TimedStart == TimedInit => TimedInv
<1> SUFFICES ASSUME TimedInit PROVE TimedInv
  OBVIOUS
<1>1. IInv
  BY InitIInv DEF TimedInit
<1> QED
  BY <1>1, TimerAssumption DEF TimedInit, Init, TimedInv, WaitInv, SinceInv

(* The invariant of the histories, for every behaviour. *)
THEOREM TimedInvariance == TimedSpec => []TimedInv
  BY TimedStart, TimedStep, PTL DEF TimedSpec

(* A UE with data that gets no grant asks again within the timer and one   *)
(* turn of the SR grid, for every timer length, period and offset.         *)
THEOREM RecoveryIsBounded == TimedSpec => []BoundedWait
<1>1. TimedInv => BoundedWait
  <2> SUFFICES ASSUME TimedInv PROVE BoundedWait
    OBVIOUS
  <2>1. Cardinality(Slots) \in Nat \ {0} /\ Distance(slot) \in Nat
    BY SlotsSize, DistanceFalls DEF TimedInv, IInv, TypeOK
  <2>2. CASE srState = "INACTIVE"
    BY <2>1, <2>2, TimerAssumption DEF TimedInv, IInv, NoStall, WaitInv, BoundedWait
  <2>3. CASE srState = "TO_SEND"
    BY <2>1, <2>3, TimerAssumption DEF TimedInv, WaitInv, BoundedWait
  <2>4. CASE srState = "ACTIVE"
    <3>1. timer \in Nat
      BY <2>4 DEF TimedInv, IInv, TypeOK, TimerIffActive
    <3> QED
      BY <2>1, <2>4, <3>1, TimerAssumption DEF TimedInv, WaitInv, BoundedWait
  <2> QED
    BY <2>2, <2>3, <2>4 DEF TimedInv, IInv, TypeOK, SrStates
<1> QED
  BY <1>1, TimedInvariance, PTL

(* A UE with data that was served or has asked stays quiet until its timer *)
(* is due.                                                                 *)
THEOREM NoSrTooEarly == TimedSpec => NoEarlySr
<1>1. TimedInv /\ [TimedNext]_timedVars => [Asked => since >= RetxBsrTimer - 1]_timedVars
  <2> SUFFICES ASSUME TimedInv, TimedNext, Asked PROVE since >= RetxBsrTimer - 1
    OBVIOUS
  <2>1. CASE NewDataStep
    BY <2>1 DEF NewDataStep, UlDciNewData, Bsr, Asked
  <2>2. CASE DoSlotIndication
    BY <2>2 DEF DoSlotIndication, Asked, TimedInv, SinceInv
  <2>3. CASE ~NewDataStep /\ ~DoSlotIndication
    BY <2>3, OtherSteps DEF TimedNext, TimedInv, Asked
  <2> QED
    BY <2>1, <2>2, <2>3
<1> QED
  BY <1>1, TimedInvariance, PTL DEF TimedSpec, NoEarlySr

-----------------------------------------------------------------------------
(* The division of a block (NrUeMacTb): what a pass works on. *)
Typed(s) ==
    /\ s.bsr \in [Lcs -> Queue] /\ s.rlc \in [Lcs -> Queue]
    /\ s.used \in Nat /\ s.offers \subseteq Offer

Enough(offer) ==
    offer.lc \in Am => offer.bytes >= 7 \/ (offer.bytes = StatusSize /\ offer.pdu = StatusSize)

(* MAC knows of the STATUS PDUs that wait, which are of one channel. *)
Paired(b, r) ==
    \A lc \in Lcs :
        /\ b[lc].status = r[lc].status
        /\ b[lc].status \in {0, StatusSize}
        /\ b[lc].status # 0 => lc \in StatusLcs

OneReporter == \A a, b \in StatusLcs : a = b

(* After the turns of channels 1..n in SendNewStatusData. *)
StatusPass(s, n) ==
    /\ Typed(s) /\ Paired(s.bsr, s.rlc)
    /\ \A o \in s.offers : Enough(o)
    /\ s.used <= 7
    /\ \A lc \in Lcs : s.bsr[lc].status # 0 => s.used = 0
    /\ \A lc \in Lcs : lc <= n => s.bsr[lc].status = 0

(* In SendRetxData and SendTxData, with cap bytes for everything but the   *)
(* SHORT_BSR.                                                              *)
DataPass(s, cap) ==
    /\ Typed(s)
    /\ \A o \in s.offers : Enough(o)
    /\ \A lc \in Lcs : s.bsr[lc].status = 0 /\ s.rlc[lc].status = 0
    /\ s.used <= cap

-----------------------------------------------------------------------------
(* Integer division, as the shares use it. *)
LEMMA ShareHolds ==
    ASSUME NEW a \in Int, a > 0, NEW u \in Int, u >= 7 * a
    PROVE  u \div a \in Int /\ u \div a >= 7
  BY SMTT(30)

LEMMA Lowers ==
    ASSUME NEW a \in Nat, NEW b \in Nat
    PROVE  Lowered(a, b) \in Nat
  BY DEF Lowered, Least

(***************************************************************************)
(* What RLC answers fits in the opportunity, and its queue keeps its type. *)
(***************************************************************************)
LEMMA AnswerFits ==
    ASSUME NEW lc \in Lcs, NEW q \in Queue, NEW space \in Nat, q.status = 0
    PROVE  /\ Answer(lc, q, space).pdu \in Nat
           /\ Answer(lc, q, space).pdu <= space
           /\ Answer(lc, q, space).q \in Queue
           /\ Answer(lc, q, space).q.status = 0
<1> DEFINE pdu == Least(q.tx + RlcHeader(lc), space)
<1>1. q.status \in Nat /\ q.retx \in Nat /\ q.tx \in Nat
  BY DEF Queue
<1>2. CASE q.retx \in 1..space
  <2>1. Answer(lc, q, space) = [pdu |-> q.retx, q |-> [q EXCEPT !.retx = 0]]
    BY <1>2 DEF Answer
  <2> QED
    BY <1>1, <1>2, <2>1 DEF Queue
<1>3. CASE q.retx = 0 /\ q.tx > 0 /\ space >= LeastBytes(lc)
  <2>1. Answer(lc, q, space) = [pdu |-> pdu, q |-> [q EXCEPT !.tx = @ - (pdu - RlcHeader(lc))]]
    BY <1>1, <1>3 DEF Answer
  <2>2. /\ pdu \in Nat /\ pdu <= space
        /\ q.tx - (pdu - RlcHeader(lc)) \in Nat
    BY <1>1, <1>3 DEF Least, RlcHeader, LeastBytes
  <2> HIDE DEF pdu
  <2> QED
    BY <2>1, <2>2 DEF Queue
<1>4. CASE /\ q.retx \notin 1..space
           /\ ~(q.retx = 0 /\ q.tx > 0 /\ space >= LeastBytes(lc))
  <2>1. Answer(lc, q, space) = [pdu |-> 0, q |-> q]
    BY <1>1, <1>4 DEF Answer
  <2> QED
    BY <2>1
<1> QED
  BY <1>2, <1>3, <1>4

LEMMA SubheaderIs ==
    ASSUME NEW pdu \in Nat
    PROVE  Subheader(pdu) \in {2, 3}
  BY DEF Subheader

Notified(t, s, kind, lc, space) ==
    LET a == Answer(lc, s.rlc[lc], space)
    IN  /\ t.bsr = [s.bsr EXCEPT ![lc] = Served(@, kind, space)]
        /\ t.rlc = [s.rlc EXCEPT ![lc] = a.q]
        /\ t.used = s.used + (IF a.pdu = 0 THEN 0 ELSE a.pdu + Subheader(a.pdu))
        /\ t.offers = s.offers \cup
               {[kind |-> kind, lc |-> lc, bytes |-> space, pdu |-> a.pdu]}

LEMMA NotifyIs ==
    ASSUME NEW s, NEW kind, NEW lc, NEW space
    PROVE  Notified(Notify(s, kind, lc, space), s, kind, lc, space)
<1> DEFINE a == Answer(lc, s.rlc[lc], space)
           b1 == [s.bsr EXCEPT ![lc] = Served(@, kind, space)]
           r1 == [s.rlc EXCEPT ![lc] = a.q]
           used1 == s.used + (IF a.pdu = 0 THEN 0 ELSE a.pdu + Subheader(a.pdu))
           offers1 == s.offers \cup {[kind |-> kind, lc |-> lc, bytes |-> space, pdu |-> a.pdu]}
<1>1. Notify(s, kind, lc, space) = [bsr |-> b1, rlc |-> r1, used |-> used1, offers |-> offers1]
  BY Zenon DEF Notify
<1> HIDE DEF b1, r1, used1, offers1
<1>2. /\ Notify(s, kind, lc, space).bsr = b1 /\ Notify(s, kind, lc, space).rlc = r1
      /\ Notify(s, kind, lc, space).used = used1
      /\ Notify(s, kind, lc, space).offers = offers1
  BY <1>1
<1> QED
  BY <1>2 DEF Notified, b1, r1, used1, offers1

(* One more entry in a function of records. *)
LEMMA OneChanged ==
    ASSUME NEW f \in [Lcs -> Queue], NEW lc \in Lcs, NEW q \in Queue
    PROVE  /\ [f EXCEPT ![lc] = q] \in [Lcs -> Queue]
           /\ [f EXCEPT ![lc] = q][lc] = q
           /\ \A o \in Lcs : o # lc => [f EXCEPT ![lc] = q][o] = f[o]
  OBVIOUS

-----------------------------------------------------------------------------
(* A turn of SendNewStatusData. *)
LEMMA StatusTurnKeeps ==
    ASSUME OneReporter, NEW n \in Nat, n + 1 \in Lcs, NEW tbs \in Tbs, NEW s, StatusPass(s, n)
    PROVE  StatusPass(StatusTurn(s, n + 1, tbs), n + 1)
<1> DEFINE lc == n + 1
           b == s.bsr[lc]
           q == s.rlc[lc]
           t == StatusTurn(s, lc, tbs)
<1>1. /\ b \in Queue /\ q \in Queue /\ s.used \in Nat
      /\ b.status = q.status /\ b.status \in {0, 4}
  BY DEF StatusPass, Typed, Paired, StatusSize
<1>a. /\ tbs \in Nat /\ tbs >= 12 /\ Lcs \subseteq Nat
      /\ \A o \in Lcs : o <= lc => o <= n \/ o = lc
  BY ChannelAssumption, GrantAssumption DEF Lcs
<1>2. CASE b.status = 0
  <2>1. t = s
    BY <1>2 DEF StatusTurn
  <2>2. \A o \in Lcs : o <= lc => s.bsr[o].status = 0
    BY <1>a, <1>2 DEF StatusPass
  <2>3. StatusPass(s, lc)
    BY <2>2 DEF StatusPass
  <2> QED
    BY <2>1, <2>3
<1>3. CASE b.status = 4
  <2> DEFINE b1 == [b EXCEPT !.status = 0]
             q1 == [q EXCEPT !.status = 0]
             offer == [kind |-> "status", lc |-> lc, bytes |-> 4, pdu |-> 4]
  <2>1. s.used = 0 /\ lc \in StatusLcs
    BY <1>3 DEF StatusPass, Paired
  <2>2. Answer(lc, q, 4) = [pdu |-> 4, q |-> q1]
    BY <1>1, <1>3 DEF Answer
  <2>3. t = Notify(s, "status", lc, 4)
    BY <1>1, <1>a, <1>3, <2>1 DEF StatusTurn
  <2>4. Served(b, "status", 4) = b1
    BY DEF Served
  <2>5. b1 \in Queue /\ q1 \in Queue /\ b1.status = 0 /\ q1.status = 0
    BY <1>1 DEF Queue
  <2>6. offer \in Offer /\ Enough(offer)
    BY DEF Offer, Enough, StatusSize
  <2>7. \A o \in Lcs : o # lc => s.bsr[o].status = 0 /\ s.rlc[o].status = 0
    BY <2>1 DEF OneReporter, StatusPass, Paired
  <2> HIDE DEF b1, q1, offer, t, lc
  <2>c. /\ t.bsr = [s.bsr EXCEPT ![lc] = b1] /\ t.rlc = [s.rlc EXCEPT ![lc] = q1]
        /\ t.used = s.used + (4 + Subheader(4)) /\ t.offers = s.offers \cup {offer}
    <3>1. Notified(t, s, "status", lc, 4)
      BY <2>3, NotifyIs
    <3>2. Answer(lc, s.rlc[lc], 4).q = q1 /\ Answer(lc, s.rlc[lc], 4).pdu = 4
      BY <2>2
    <3> QED
      BY <2>4, <3>1, <3>2 DEF Notified, offer
  <2>8. /\ t.bsr \in [Lcs -> Queue] /\ t.rlc \in [Lcs -> Queue]
        /\ \A o \in Lcs : t.bsr[o].status = 0 /\ t.rlc[o].status = 0
    BY <2>c, <2>5, <2>7 DEF StatusPass, Typed
  <2>9. /\ t.used \in Nat /\ t.used <= 7
    BY <2>1, <2>c, SubheaderIs
  <2>10. /\ t.offers \subseteq Offer
         /\ \A o \in t.offers : Enough(o)
    BY <2>c, <2>6 DEF StatusPass, Typed
  <2>11. StatusPass(t, lc)
    BY <2>8, <2>9, <2>10 DEF StatusPass, Typed, Paired
  <2> QED
    BY <2>11 DEF t, lc
<1> QED
  BY <1>1, <1>2, <1>3

(* A turn of SendRetxData or SendTxData. *)
LEMMA DataTurnKeeps ==
    ASSUME NEW kind \in {"retx", "tx"}, NEW lc \in Lcs, NEW share \in Nat, share >= 7,
           NEW useful \in Nat, NEW cap \in Nat, useful + 3 <= cap,
           NEW s, DataPass(s, cap)
    PROVE  DataPass(DataTurn(s, kind, lc, share, useful), cap)
<1> DEFINE b == s.bsr[lc]
           q == s.rlc[lc]
           t == DataTurn(s, kind, lc, share, useful)
           a == Answer(lc, q, share)
           sub == IF a.pdu = 0 THEN 0 ELSE a.pdu + Subheader(a.pdu)
           b1 == Served(b, kind, share)
           offer == [kind |-> kind, lc |-> lc, bytes |-> share, pdu |-> a.pdu]
<1>1. CASE s.used + share > useful \/ ~FitsIn(s.used, share, useful)
  <2>1. t = s
    BY <1>1 DEF DataTurn, FitsIn, DataPass, Typed
  <2> QED
    BY <2>1
<1>2. CASE FitsIn(s.used, share, useful)
  <2>1. b \in Queue /\ q \in Queue /\ s.used \in Nat /\ b.status = 0 /\ q.status = 0
    BY DEF DataPass, Typed
  <2>2. a.pdu \in Nat /\ a.pdu <= share /\ a.q \in Queue /\ a.q.status = 0
    BY <2>1, AnswerFits
  <2>3. sub \in Nat /\ sub <= share + 3
    BY <2>2, SubheaderIs
  <2>4. b1 \in Queue /\ b1.status = 0
    <3>1. b.retx \in Nat /\ b.tx \in Nat
      BY <2>1 DEF Queue
    <3>2. Lowered(b.retx, share) \in Nat /\ Lowered(b.tx, share) \in Nat
      BY <3>1, Lowers
    <3> QED
      BY <2>1, <3>2 DEF Queue, Served
  <2>5. offer \in Offer /\ Enough(offer)
    BY <2>2 DEF Offer, Enough
  <2>6. t = Notify(s, kind, lc, share)
    BY <1>2 DEF DataTurn
  <2>7. /\ t.bsr = [s.bsr EXCEPT ![lc] = b1] /\ t.rlc = [s.rlc EXCEPT ![lc] = a.q]
        /\ t.used = s.used + sub /\ t.offers = s.offers \cup {offer}
    <3>1. Notified(t, s, kind, lc, share)
      BY <2>6, NotifyIs
    <3> QED
      BY <3>1 DEF Notified
  <2> HIDE DEF a, sub, b1, offer, t
  <2>8. /\ t.bsr \in [Lcs -> Queue] /\ t.rlc \in [Lcs -> Queue]
        /\ \A o \in Lcs : t.bsr[o].status = 0 /\ t.rlc[o].status = 0
    BY <2>2, <2>4, <2>7 DEF DataPass, Typed
  <2>9. t.used \in Nat /\ t.used <= cap
    BY <1>2, <2>1, <2>3, <2>7 DEF FitsIn
  <2>10. t.offers \subseteq Offer /\ \A o \in t.offers : Enough(o)
    BY <2>5, <2>7 DEF DataPass, Typed
  <2> QED
    BY <2>8, <2>9, <2>10 DEF DataPass, Typed, t
<1> QED
  BY <1>1, <1>2

-----------------------------------------------------------------------------
(***************************************************************************)
(* Induction over the channels of a pass.  The set holds the numbers a     *)
(* fact is true of.                                                        *)
(***************************************************************************)
LEMMA CountsUp ==
    ASSUME NEW S, 0 \in S, \A n \in Nat : n \in S => n + 1 \in S
    PROVE  Nat \subseteq S
<1> DEFINE Others == Nat \ S
<1>1. SUFFICES ASSUME Others # {} PROVE FALSE
  OBVIOUS
<1>2. PICK k \in Others : \A i \in Others : <<i, k>> \notin OpToRel(<, Nat)
  BY <1>1, WFMin, NatLessThanWellFounded, Zenon
<1>3. \A i \in Others : ~(i < k)
  BY <1>2, Zenon DEF OpToRel
<1>4. k \in Nat /\ k \notin S
  BY <1>2, Zenon
<1>5. k # 0
  BY <1>4
<1>6. k - 1 \in Nat /\ (k - 1) + 1 = k /\ k - 1 < k
  BY <1>4, <1>5
<1>7. k - 1 \in S
  BY <1>3, <1>6
<1> QED
  BY <1>4, <1>6, <1>7

(* The states before and after the turns of channels 1..n. *)
StatusTurns(g, s, tbs, n) ==
    g = [lc \in 0..n |-> IF lc = 0 THEN s ELSE StatusTurn(g[lc - 1], lc, tbs)]

DataTurns(g, s, kind, share, useful, n) ==
    g = [lc \in 0..n |-> IF lc = 0 THEN s ELSE DataTurn(g[lc - 1], kind, lc, share, useful)]

LEMMA StatusTurnsExist ==
    ASSUME NEW s, NEW tbs
    PROVE  \A n \in Nat : \E g : StatusTurns(g, s, tbs, n)
<1> DEFINE S == {n \in Nat : \E g : StatusTurns(g, s, tbs, n)}
<1>1. 0 \in S
  <2> DEFINE g == [lc \in 0..0 |-> s]
  <2>1. g = [lc \in 0..0 |-> IF lc = 0 THEN s ELSE StatusTurn(g[lc - 1], lc, tbs)]
    OBVIOUS
  <2> QED
    BY <2>1, Zenon DEF StatusTurns
<1>2. ASSUME NEW n \in Nat, n \in S
      PROVE  n + 1 \in S
  <2>1. PICK g : StatusTurns(g, s, tbs, n)
    BY <1>2
  <2> DEFINE h == [lc \in 0..(n + 1) |->
                     IF lc = n + 1 THEN StatusTurn(g[n], n + 1, tbs) ELSE g[lc]]
             e == [lc \in 0..(n + 1) |-> IF lc = 0 THEN s ELSE StatusTurn(h[lc - 1], lc, tbs)]
  <2>2. \A lc \in 0..n : g[lc] = IF lc = 0 THEN s ELSE StatusTurn(g[lc - 1], lc, tbs)
    BY <2>1 DEF StatusTurns
  <2>3. \A lc \in 0..n : h[lc] = g[lc]
    OBVIOUS
  <2>4. ASSUME NEW lc \in 0..(n + 1)
        PROVE  h[lc] = e[lc]
    <3>1. CASE lc = n + 1
      <4>1. lc # 0 /\ lc - 1 = n /\ n \in 0..n
        BY <3>1
      <4>2. h[lc - 1] = g[n]
        BY <2>3, <4>1
      <4> QED
        BY <3>1, <4>1, <4>2
    <3>2. CASE lc # n + 1
      <4>1. lc \in 0..n /\ (lc # 0 => lc - 1 \in 0..n)
        BY <3>2
      <4>2. lc # 0 => h[lc - 1] = g[lc - 1]
        BY <2>3, <4>1
      <4> HIDE DEF h
      <4> QED
        BY <2>2, <2>3, <4>1, <4>2
    <3> QED
      BY <3>1, <3>2
  <2>5. h = e
    BY <2>4
  <2>6. StatusTurns(h, s, tbs, n + 1)
    BY <2>5, Zenon DEF StatusTurns
  <2> QED
    BY <2>6
<1> HIDE DEF S
<1>3. Nat \subseteq S
  BY <1>1, <1>2, CountsUp
<1> QED
  BY <1>3 DEF S

LEMMA DataTurnsExist ==
    ASSUME NEW s, NEW kind, NEW share, NEW useful
    PROVE  \A n \in Nat : \E g : DataTurns(g, s, kind, share, useful, n)
<1> DEFINE S == {n \in Nat : \E g : DataTurns(g, s, kind, share, useful, n)}
<1>1. 0 \in S
  <2> DEFINE g == [lc \in 0..0 |-> s]
  <2>1. g = [lc \in 0..0 |-> IF lc = 0 THEN s ELSE DataTurn(g[lc - 1], kind, lc, share, useful)]
    OBVIOUS
  <2> QED
    BY <2>1, Zenon DEF DataTurns
<1>2. ASSUME NEW n \in Nat, n \in S
      PROVE  n + 1 \in S
  <2>1. PICK g : DataTurns(g, s, kind, share, useful, n)
    BY <1>2
  <2> DEFINE h == [lc \in 0..(n + 1) |->
                     IF lc = n + 1 THEN DataTurn(g[n], kind, n + 1, share, useful) ELSE g[lc]]
             e == [lc \in 0..(n + 1) |->
                     IF lc = 0 THEN s ELSE DataTurn(h[lc - 1], kind, lc, share, useful)]
  <2>2. \A lc \in 0..n :
           g[lc] = IF lc = 0 THEN s ELSE DataTurn(g[lc - 1], kind, lc, share, useful)
    BY <2>1 DEF DataTurns
  <2>3. \A lc \in 0..n : h[lc] = g[lc]
    OBVIOUS
  <2>4. ASSUME NEW lc \in 0..(n + 1)
        PROVE  h[lc] = e[lc]
    <3>1. CASE lc = n + 1
      <4>1. lc # 0 /\ lc - 1 = n /\ n \in 0..n
        BY <3>1
      <4>2. h[lc - 1] = g[n]
        BY <2>3, <4>1
      <4> QED
        BY <3>1, <4>1, <4>2
    <3>2. CASE lc # n + 1
      <4>1. lc \in 0..n /\ (lc # 0 => lc - 1 \in 0..n)
        BY <3>2
      <4>2. lc # 0 => h[lc - 1] = g[lc - 1]
        BY <2>3, <4>1
      <4> HIDE DEF h
      <4> QED
        BY <2>2, <2>3, <4>1, <4>2
    <3> QED
      BY <3>1, <3>2
  <2>5. h = e
    BY <2>4
  <2>6. DataTurns(h, s, kind, share, useful, n + 1)
    BY <2>5, Zenon DEF DataTurns
  <2> QED
    BY <2>6
<1> HIDE DEF S
<1>3. Nat \subseteq S
  BY <1>1, <1>2, CountsUp
<1> QED
  BY <1>3 DEF S

-----------------------------------------------------------------------------
(* All turns of SendNewStatusData. *)
LEMMA StatusPassed ==
    ASSUME OneReporter, NEW tbs \in Tbs, NEW s, StatusPass(s, 0)
    PROVE  DataPass(SendNewStatusData(s, tbs), tbs - BsrSize)
<1>1. N \in Nat /\ Lcs = 1..N /\ tbs \in Nat /\ tbs >= 12
  BY ChannelAssumption, GrantAssumption DEF Lcs
<1>2. PICK g : StatusTurns(g, s, tbs, N) /\ SendNewStatusData(s, tbs) = g[N]
  <2>1. \E g : StatusTurns(g, s, tbs, N)
    BY <1>1, StatusTurnsExist, Zenon
  <2> QED
    BY <2>1, Zenon DEF SendNewStatusData, StatusTurns
<1>3. \A lc \in 0..N : g[lc] = IF lc = 0 THEN s ELSE StatusTurn(g[lc - 1], lc, tbs)
  BY <1>2 DEF StatusTurns
<1> DEFINE S == {n \in Nat : n <= N => StatusPass(g[n], n)}
<1>4. 0 \in S
  <2>1. g[0] = s
    BY <1>1, <1>3
  <2> QED
    BY <2>1
<1>5. ASSUME NEW n \in Nat, n \in S
      PROVE  n + 1 \in S
  <2>1. SUFFICES ASSUME n + 1 <= N PROVE StatusPass(g[n + 1], n + 1)
    OBVIOUS
  <2>2. n + 1 \in Lcs /\ n <= N /\ n + 1 \in 0..N /\ n + 1 # 0 /\ (n + 1) - 1 = n
    BY <1>1, <2>1
  <2>3. g[n + 1] = StatusTurn(g[n], n + 1, tbs)
    BY <1>3, <2>2
  <2>4. StatusPass(g[n], n)
    BY <1>5, <2>2
  <2> QED
    BY <2>2, <2>3, <2>4, StatusTurnKeeps
<1> HIDE DEF S
<1>6. N \in S
  BY <1>1, <1>4, <1>5, CountsUp
<1>7. StatusPass(g[N], N)
  BY <1>1, <1>6 DEF S
<1>8. \A lc \in Lcs : g[N].bsr[lc].status = 0
  BY <1>1, <1>7 DEF StatusPass
<1> QED
  BY <1>1, <1>2, <1>7, <1>8 DEF StatusPass, DataPass, Paired, Typed, BsrSize

(* All turns of SendRetxData or SendTxData. *)
LEMMA SharedOut ==
    ASSUME NEW kind \in {"retx", "tx"}, NEW active \in Nat \ {0}, NEW useful \in Nat,
           useful >= 7 * active, NEW cap \in Nat, useful + 3 <= cap, NEW s, DataPass(s, cap)
    PROVE  DataPass(ShareOut(s, kind, useful, active), cap)
<1> DEFINE share == useful \div active
<1>1. N \in Nat /\ Lcs = 1..N
  BY ChannelAssumption DEF Lcs
<1>2. share \in Nat /\ share >= 7
  BY ShareHolds
<1> HIDE DEF share
<1>3. PICK g : DataTurns(g, s, kind, share, useful, N) /\ ShareOut(s, kind, useful, active) = g[N]
  <2>1. \E g : DataTurns(g, s, kind, share, useful, N)
    BY <1>1, DataTurnsExist, Zenon
  <2> QED
    BY <2>1, Zenon DEF ShareOut, DataTurns, share
<1>4. \A lc \in 0..N :
         g[lc] = IF lc = 0 THEN s ELSE DataTurn(g[lc - 1], kind, lc, share, useful)
  BY <1>3 DEF DataTurns
<1> DEFINE S == {n \in Nat : n <= N => DataPass(g[n], cap)}
<1>5. 0 \in S
  <2>1. g[0] = s
    BY <1>1, <1>4
  <2> QED
    BY <2>1
<1>6. ASSUME NEW n \in Nat, n \in S
      PROVE  n + 1 \in S
  <2>1. SUFFICES ASSUME n + 1 <= N PROVE DataPass(g[n + 1], cap)
    OBVIOUS
  <2>2. n + 1 \in Lcs /\ n <= N /\ n + 1 \in 0..N /\ n + 1 # 0 /\ (n + 1) - 1 = n
    BY <1>1, <2>1
  <2>3. g[n + 1] = DataTurn(g[n], kind, n + 1, share, useful)
    BY <1>4, <2>2
  <2>4. DataPass(g[n], cap)
    BY <1>6, <2>2
  <2> QED
    BY <1>2, <2>2, <2>3, <2>4, DataTurnKeeps
<1> HIDE DEF S
<1>7. N \in S
  BY <1>1, <1>5, <1>6, CountsUp
<1> QED
  BY <1>1, <1>3, <1>7 DEF S

LEMMA KindSent ==
    ASSUME NEW kind \in {"retx", "tx"}, NEW active \in Nat, NEW tbs \in Tbs, NEW s,
           DataPass(s, tbs - BsrSize)
    PROVE  DataPass(SendKind(s, kind, tbs, active), tbs - BsrSize)
<1> DEFINE useful == Useful(s, tbs) - 3 * active
           cap == tbs - BsrSize
<1>1. tbs \in Nat /\ tbs >= 12 /\ s.used \in Nat /\ cap \in Nat
  BY GrantAssumption DEF DataPass, Typed, BsrSize
<1>2. CASE active > 0 /\ LeastSpace(active) <= Useful(s, tbs)
  <2>1. /\ useful \in Nat /\ useful >= 7 * active /\ useful + 3 <= cap
    BY <1>1, <1>2 DEF LeastSpace, Useful, BsrSize
  <2>2. SendKind(s, kind, tbs, active) = ShareOut(s, kind, useful, active)
    BY <1>2 DEF SendKind
  <2> HIDE DEF useful, cap
  <2>3. DataPass(ShareOut(s, kind, useful, active), cap)
    BY <1>1, <1>2, <2>1, SharedOut DEF cap
  <2> QED
    BY <2>2, <2>3 DEF cap
<1>3. CASE ~(active > 0 /\ LeastSpace(active) <= Useful(s, tbs))
  BY <1>3 DEF SendKind
<1> QED
  BY <1>2, <1>3

LEMMA ActiveIs ==
    ASSUME NEW s, NEW kind
    PROVE  Active(s, kind) \in Nat
<1>1. IsFiniteSet(Lcs)
  BY ChannelAssumption, FS_Interval DEF Lcs
<1> QED
  BY <1>1, FS_Subset, FS_CardinalityType DEF Active

-----------------------------------------------------------------------------
(* The inductive invariant: BlockInv, with the queues of MAC and RLC in    *)
(* step for the STATUS PDUs.                                               *)
TbInv == BlockInv /\ Paired(bsr, rlc)

LEMMA TbInitially == TbInit => TbInv
<1> SUFFICES ASSUME TbInit PROVE TbInv
  OBVIOUS
<1>1. Nothing \in Queue /\ Nothing.status = 0
  BY DEF Nothing, Queue
<1> QED
  BY <1>1 DEF TbInit, TbInv, BlockInv, TbTypeOK, FitsTb, EnoughForAm, Paired

LEMMA GrantKeeps ==
    ASSUME OneReporter, TbInv, NEW tbs \in Tbs, ProcessUlDci(tbs)
    PROVE  TbInv'
<1> DEFINE s0 == [bsr |-> bsr, rlc |-> rlc, used |-> 0, offers |-> {}]
           s1 == SendNewStatusData(s0, tbs)
           s2 == SendKind(s1, "retx", tbs, Active(s1, "retx"))
           s3 == SendKind(s2, "tx", tbs, Active(s1, "tx"))
<1>1. /\ tb' = tbs /\ bsr' = s3.bsr /\ rlc' = s3.rlc /\ offers' = s3.offers
      /\ totalUsed' = s3.used + BsrSize
  BY Zenon DEF ProcessUlDci
<1>2. StatusPass(s0, 0)
  BY DEF StatusPass, TbInv, BlockInv, TbTypeOK, Typed, Lcs, Paired
<1> HIDE DEF s0
<1>3. DataPass(s1, tbs - BsrSize)
  BY <1>2, StatusPassed
<1> HIDE DEF s1
<1>4. DataPass(s2, tbs - BsrSize)
  BY <1>3, ActiveIs, KindSent
<1> HIDE DEF s2
<1>5. DataPass(s3, tbs - BsrSize)
  BY <1>4, ActiveIs, KindSent
<1> HIDE DEF s3
<1>6. tbs \in Nat /\ s3.used \in Nat /\ s3.used + BsrSize <= tbs /\ s3.used + BsrSize \in Nat
  BY <1>5, GrantAssumption DEF DataPass, Typed, BsrSize
<1>7. TbTypeOK' /\ FitsTb'
  BY <1>1, <1>5, <1>6 DEF DataPass, Typed, TbTypeOK, FitsTb
<1>8. EnoughForAm'
  BY <1>1, <1>5 DEF DataPass, EnoughForAm, Enough
<1>9. Paired(bsr, rlc)'
  BY <1>1, <1>5 DEF DataPass, Paired
<1> QED
  BY <1>7, <1>8, <1>9 DEF TbInv, BlockInv

(* RLC queues something, and reports its queue. *)
LEMMA EnqueueKeeps ==
    ASSUME TbInv, NEW lc \in Lcs, NEW q \in Queue, q.status \in {0, StatusSize},
           q.status # 0 => lc \in StatusLcs, Enqueue(lc, q)
    PROVE  TbInv'
<1>1. PICK unacked \in Unacked : bsr' = [bsr EXCEPT ![lc] = Reported(lc, q, unacked)]
  BY DEF Enqueue
<1>2. /\ rlc' = [rlc EXCEPT ![lc] = q] /\ offers' = {} /\ tb' = tb /\ totalUsed' = totalUsed
  BY DEF Enqueue, Quiet
<1>3. Reported(lc, q, unacked) \in Queue /\ Reported(lc, q, unacked).status = q.status
  <2>1. unacked \in Nat /\ q.status \in Nat /\ q.retx \in Nat /\ q.tx \in Nat
    BY SizeAssumption DEF Queue
  <2> QED
    BY <2>1 DEF Reported, Queue
<1>4. /\ bsr \in [Lcs -> Queue] /\ rlc \in [Lcs -> Queue]
  BY DEF TbInv, BlockInv, TbTypeOK
<1>5. bsr' \in [Lcs -> Queue] /\ rlc' \in [Lcs -> Queue]
  BY <1>1, <1>2, <1>3, <1>4
<1>6. Paired(bsr, rlc)'
  BY <1>1, <1>2, <1>3, <1>4 DEF TbInv, Paired
<1> QED
  BY <1>2, <1>5, <1>6 DEF TbInv, BlockInv, TbTypeOK, FitsTb, EnoughForAm

LEMMA QueueWith ==
    ASSUME NEW q \in Queue, NEW n \in Nat
    PROVE  /\ [q EXCEPT !.tx = n] \in Queue /\ [q EXCEPT !.tx = n].status = q.status
           /\ [q EXCEPT !.retx = n] \in Queue /\ [q EXCEPT !.retx = n].status = q.status
           /\ [q EXCEPT !.status = n] \in Queue /\ [q EXCEPT !.status = n].status = n
  BY DEF Queue

LEMMA TbStepKeeps ==
    ASSUME OneReporter, TbInv, TbNext
    PROVE  TbInv'
<1>1. \A lc \in Lcs : /\ rlc[lc] \in Queue
                      /\ rlc[lc].status \in {0, StatusSize}
                      /\ rlc[lc].status # 0 => lc \in StatusLcs
  BY DEF TbInv, BlockInv, TbTypeOK, Paired
<1>2. CASE \E lc \in Lcs : DataArrives(lc)
  <2>1. PICK lc \in Lcs, n \in Sizes : Enqueue(lc, [rlc[lc] EXCEPT !.tx = n])
    BY <1>2 DEF DataArrives
  <2>2. n \in Nat
    BY SizeAssumption
  <2> DEFINE q == [rlc[lc] EXCEPT !.tx = n]
  <2>3. rlc[lc] \in Queue
    BY <1>1
  <2>4. q \in Queue /\ q.status = rlc[lc].status
    BY <2>2, <2>3, QueueWith
  <2>5. q.status \in {0, StatusSize} /\ (q.status # 0 => lc \in StatusLcs)
    BY <1>1, <2>4
  <2> HIDE DEF q
  <2> QED
    BY <2>1, <2>4, <2>5, EnqueueKeeps DEF q
<1>3. CASE \E lc \in Lcs : PduIsNacked(lc)
  <2>1. PICK lc \in Lcs, n \in RetxSizes : Enqueue(lc, [rlc[lc] EXCEPT !.retx = n])
    BY <1>3 DEF PduIsNacked
  <2>2. n \in Nat
    BY SizeAssumption
  <2> DEFINE q == [rlc[lc] EXCEPT !.retx = n]
  <2>3. rlc[lc] \in Queue
    BY <1>1
  <2>4. q \in Queue /\ q.status = rlc[lc].status
    BY <2>2, <2>3, QueueWith
  <2>5. q.status \in {0, StatusSize} /\ (q.status # 0 => lc \in StatusLcs)
    BY <1>1, <2>4
  <2> HIDE DEF q
  <2> QED
    BY <2>1, <2>4, <2>5, EnqueueKeeps DEF q
<1>4. CASE \E lc \in Lcs : StatusIsWanted(lc)
  <2>1. PICK lc \in Lcs : lc \in StatusLcs /\ Enqueue(lc, [rlc[lc] EXCEPT !.status = StatusSize])
    BY <1>4 DEF StatusIsWanted
  <2> DEFINE q == [rlc[lc] EXCEPT !.status = StatusSize]
  <2>2. q \in Queue /\ q.status = StatusSize
    BY <1>1, QueueWith DEF StatusSize
  <2> HIDE DEF q
  <2> QED
    BY <2>1, <2>2, EnqueueKeeps DEF q
<1>5. CASE \E lc \in Lcs : ReportsAgain(lc)
  <2>1. PICK lc \in Lcs : Enqueue(lc, rlc[lc])
    BY <1>5 DEF ReportsAgain
  <2>2. rlc[lc] \in Queue
    BY <1>1
  <2> QED
    BY <1>1, <2>1, <2>2, EnqueueKeeps
<1>6. CASE \E tbs \in Tbs : ProcessUlDci(tbs)
  BY <1>6, GrantKeeps
<1> QED
  BY <1>2, <1>3, <1>4, <1>5, <1>6 DEF TbNext, Arrives

(***************************************************************************)
(* With at most one channel that sends STATUS PDUs, no block is overdrawn  *)
(* and no assertion of RLC AM fails, for every number of channels and      *)
(* every block of 12 bytes or more (SendNewData).                          *)
(***************************************************************************)
THEOREM BlocksHold ==
    ASSUME OneReporter
    PROVE  TbSpec => []BlockInv
<1>1. TbInit => TbInv
  BY TbInitially
<1>2. TbInv /\ [TbNext]_tbVars => TbInv'
  <2>1. TbInv /\ UNCHANGED tbVars => TbInv'
    BY DEF TbInv, BlockInv, TbTypeOK, FitsTb, EnoughForAm, Paired, tbVars
  <2> QED
    BY <2>1, TbStepKeeps
<1>3. TbInv => BlockInv
  BY DEF TbInv
<1> QED
  BY <1>1, <1>2, <1>3, PTL DEF TbSpec

-----------------------------------------------------------------------------
(***************************************************************************)
(* NotWasted needs no OneReporter.  A pass that has not sent anything has  *)
(* used nothing and left the queues of RLC as they were.                   *)
(***************************************************************************)
Carried(s) == \E o \in s.offers : o.pdu > 0
Untouched(s, r) == Typed(s) /\ (Carried(s) \/ (s.used = 0 /\ s.rlc = r))

(* RLC sends something or leaves its queue alone; with 7 bytes and new     *)
(* data only, it sends.                                                    *)
LEMMA AnswerSends ==
    ASSUME NEW lc \in Lcs, NEW q \in Queue, NEW space \in Nat
    PROVE  /\ Answer(lc, q, space).pdu \in Nat
           /\ Answer(lc, q, space).q \in Queue
           /\ Answer(lc, q, space).pdu = 0 => Answer(lc, q, space).q = q
           /\ space >= 7 /\ q.retx = 0 /\ q.tx > 0 => Answer(lc, q, space).pdu > 0
<1> DEFINE pdu == Least(q.tx + RlcHeader(lc), space)
<1>1. q.status \in Nat /\ q.retx \in Nat /\ q.tx \in Nat
  BY DEF Queue
<1>2. CASE q.status > 0
  <2>1. Answer(lc, q, space) = [pdu |-> q.status, q |-> [q EXCEPT !.status = 0]]
    BY <1>2 DEF Answer
  <2> QED
    BY <1>1, <1>2, <2>1 DEF Queue
<1>3. CASE q.status = 0 /\ q.retx \in 1..space
  <2>1. Answer(lc, q, space) = [pdu |-> q.retx, q |-> [q EXCEPT !.retx = 0]]
    BY <1>3 DEF Answer
  <2> QED
    BY <1>1, <1>3, <2>1 DEF Queue
<1>4. CASE q.status = 0 /\ q.retx = 0 /\ q.tx > 0 /\ space >= LeastBytes(lc)
  <2>1. Answer(lc, q, space) = [pdu |-> pdu, q |-> [q EXCEPT !.tx = @ - (pdu - RlcHeader(lc))]]
    BY <1>1, <1>4 DEF Answer
  <2>2. /\ pdu \in Nat /\ pdu > 0
        /\ q.tx - (pdu - RlcHeader(lc)) \in Nat
    BY <1>1, <1>4 DEF Least, RlcHeader, LeastBytes
  <2> HIDE DEF pdu
  <2> QED
    BY <2>1, <2>2 DEF Queue
<1>5. CASE /\ q.status = 0 /\ q.retx \notin 1..space
           /\ ~(q.retx = 0 /\ q.tx > 0 /\ space >= LeastBytes(lc))
  <2>1. Answer(lc, q, space) = [pdu |-> 0, q |-> q]
    BY <1>1, <1>5 DEF Answer
  <2>2. ~(space >= 7 /\ q.retx = 0 /\ q.tx > 0)
    BY <1>5 DEF LeastBytes
  <2> QED
    BY <2>1, <2>2
<1> QED
  BY <1>1, <1>2, <1>3, <1>4, <1>5

(* One offer. *)
LEMMA OfferKeeps ==
    ASSUME NEW kind \in {"status", "retx", "tx"}, NEW lc \in Lcs, NEW space \in Nat,
           NEW s, Typed(s)
    PROVE  LET t == Notify(s, kind, lc, space) IN
           /\ Typed(t)
           /\ Carried(s) => Carried(t)
           /\ Carried(t) \/ (t.used = s.used /\ t.rlc = s.rlc)
           /\ space >= 7 /\ s.rlc[lc].retx = 0 /\ s.rlc[lc].tx > 0 => Carried(t)
           /\ kind = "status" => \A o \in Lcs : t.bsr[o].tx = s.bsr[o].tx
<1> DEFINE b == s.bsr[lc]
           q == s.rlc[lc]
           t == Notify(s, kind, lc, space)
           a == Answer(lc, q, space)
           sub == IF a.pdu = 0 THEN 0 ELSE a.pdu + Subheader(a.pdu)
           b1 == Served(b, kind, space)
           offer == [kind |-> kind, lc |-> lc, bytes |-> space, pdu |-> a.pdu]
<1>1. b \in Queue /\ q \in Queue /\ s.used \in Nat
  BY DEF Typed
<1>2. /\ a.pdu \in Nat /\ a.q \in Queue /\ (a.pdu = 0 => a.q = q)
      /\ space >= 7 /\ q.retx = 0 /\ q.tx > 0 => a.pdu > 0
  BY <1>1, AnswerSends
<1>3. sub \in Nat /\ (a.pdu = 0 => sub = 0)
  BY <1>2, SubheaderIs
<1>4. b1 \in Queue /\ (kind = "status" => b1.tx = b.tx)
  <2>1. b.retx \in Nat /\ b.tx \in Nat
    BY <1>1 DEF Queue
  <2>2. Lowered(b.retx, space) \in Nat /\ Lowered(b.tx, space) \in Nat
    BY <2>1, Lowers
  <2> QED
    BY <1>1, <2>2 DEF Queue, Served
<1>5. offer \in Offer /\ offer.pdu = a.pdu
  BY <1>2 DEF Offer
<1>6. /\ t.bsr = [s.bsr EXCEPT ![lc] = b1] /\ t.rlc = [s.rlc EXCEPT ![lc] = a.q]
      /\ t.used = s.used + sub /\ t.offers = s.offers \cup {offer}
  <2>1. Notified(t, s, kind, lc, space)
    BY NotifyIs
  <2> QED
    BY <2>1 DEF Notified
<1> HIDE DEF a, sub, b1, offer, t
<1>7. Typed(t)
  BY <1>1, <1>2, <1>3, <1>4, <1>5, <1>6 DEF Typed
<1>8. Carried(s) => Carried(t)
  BY <1>6 DEF Carried
<1>9. a.pdu > 0 => Carried(t)
  BY <1>5, <1>6 DEF Carried
<1>10. a.pdu = 0 => t.used = s.used /\ t.rlc = s.rlc
  BY <1>1, <1>2, <1>3, <1>6 DEF Typed
<1>11. kind = "status" => \A o \in Lcs : t.bsr[o].tx = s.bsr[o].tx
  BY <1>4, <1>6 DEF Typed
<1>12. Carried(t) \/ (t.used = s.used /\ t.rlc = s.rlc)
  BY <1>2, <1>9, <1>10
<1>13. space >= 7 /\ s.rlc[lc].retx = 0 /\ s.rlc[lc].tx > 0 => Carried(t)
  BY <1>2, <1>9
<1> QED
  BY <1>7, <1>8, <1>11, <1>12, <1>13 DEF t

(* The STATUS PDUs change nothing in what MAC counts as new data. *)
LEMMA StatusLeaves ==
    ASSUME NEW tbs \in Tbs, NEW s, NEW r, Untouched(s, r)
    PROVE  LET t == SendNewStatusData(s, tbs) IN
           Untouched(t, r) /\ \A o \in Lcs : t.bsr[o].tx = s.bsr[o].tx
<1>1. N \in Nat /\ Lcs = 1..N
  BY ChannelAssumption DEF Lcs
<1>2. PICK g : StatusTurns(g, s, tbs, N) /\ SendNewStatusData(s, tbs) = g[N]
  <2>1. \E g : StatusTurns(g, s, tbs, N)
    BY <1>1, StatusTurnsExist, Zenon
  <2> QED
    BY <2>1, Zenon DEF SendNewStatusData, StatusTurns
<1>3. \A lc \in 0..N : g[lc] = IF lc = 0 THEN s ELSE StatusTurn(g[lc - 1], lc, tbs)
  BY <1>2 DEF StatusTurns
<1> DEFINE Leaves(t) == Untouched(t, r) /\ \A o \in Lcs : t.bsr[o].tx = s.bsr[o].tx
           S == {n \in Nat : n <= N => Leaves(g[n])}
<1>4. 0 \in S
  <2>1. g[0] = s
    BY <1>1, <1>3
  <2> QED
    BY <2>1
<1>5. ASSUME NEW n \in Nat, n \in S
      PROVE  n + 1 \in S
  <2>1. SUFFICES ASSUME n + 1 <= N PROVE Leaves(g[n + 1])
    OBVIOUS
  <2>2. n + 1 \in Lcs /\ n <= N /\ n + 1 \in 0..N /\ n + 1 # 0 /\ (n + 1) - 1 = n
    BY <1>1, <2>1
  <2>3. g[n + 1] = StatusTurn(g[n], n + 1, tbs)
    BY <1>3, <2>2
  <2>4. Leaves(g[n])
    BY <1>5, <2>2
  <2> DEFINE lc == n + 1
             c == g[n].bsr[lc].status
             t == Notify(g[n], "status", lc, c)
  <2>5. Typed(g[n]) /\ c \in Nat
    BY <2>2, <2>4 DEF Untouched, Typed, Queue
  <2>6. /\ Typed(t) /\ (Carried(g[n]) => Carried(t))
        /\ Carried(t) \/ (t.used = g[n].used /\ t.rlc = g[n].rlc)
        /\ \A o \in Lcs : t.bsr[o].tx = g[n].bsr[o].tx
    BY <2>2, <2>5, OfferKeeps
  <2>7. g[n + 1] = t \/ g[n + 1] = g[n]
    BY <2>3 DEF StatusTurn
  <2> HIDE DEF t, c
  <2>8. Leaves(t)
    BY <2>4, <2>6 DEF Untouched
  <2> QED
    BY <2>4, <2>7, <2>8
<1> HIDE DEF S
<1>6. N \in S
  BY <1>1, <1>4, <1>5, CountsUp
<1> QED
  BY <1>1, <1>2, <1>6 DEF S

(* A pass of equal shares.  When one of the channels D, which have new     *)
(* data and nothing to send again, is among those that got a turn, a PDU   *)
(* has been sent.                                                          *)
LEMMA ShareLeaves ==
    ASSUME NEW kind \in {"retx", "tx"}, NEW active \in Nat \ {0}, NEW useful \in Nat,
           useful >= 7 * active, NEW s, NEW r, Untouched(s, r), NEW D \in SUBSET Lcs,
           \A lc \in D : r[lc].retx = 0 /\ r[lc].tx > 0
    PROVE  LET t == ShareOut(s, kind, useful, active) IN
           Untouched(t, r) /\ (D # {} => Carried(t))
<1> DEFINE share == useful \div active
<1>1. N \in Nat /\ Lcs = 1..N
  BY ChannelAssumption DEF Lcs
<1>2. share \in Nat /\ share >= 7 /\ share <= useful
  <2>1. share \in Int /\ share >= 7
    BY ShareHolds
  <2>2. share <= useful
    BY SMTT(30)
  <2> QED
    BY <2>1, <2>2
<1> HIDE DEF share
<1>3. PICK g : DataTurns(g, s, kind, share, useful, N) /\ ShareOut(s, kind, useful, active) = g[N]
  <2>1. \E g : DataTurns(g, s, kind, share, useful, N)
    BY <1>1, DataTurnsExist, Zenon
  <2> QED
    BY <2>1, Zenon DEF ShareOut, DataTurns, share
<1>4. \A lc \in 0..N :
         g[lc] = IF lc = 0 THEN s ELSE DataTurn(g[lc - 1], kind, lc, share, useful)
  BY <1>3 DEF DataTurns
<1> DEFINE Leaves(n) == /\ Untouched(g[n], r)
                        /\ (\E lc \in D : lc <= n) => Carried(g[n])
           S == {n \in Nat : n <= N => Leaves(n)}
<1>5. 0 \in S
  <2>1. g[0] = s
    BY <1>1, <1>4
  <2>2. ~\E lc \in D : lc <= 0
    BY <1>1
  <2> QED
    BY <2>1, <2>2
<1>6. ASSUME NEW n \in Nat, n \in S
      PROVE  n + 1 \in S
  <2>1. SUFFICES ASSUME n + 1 <= N PROVE Leaves(n + 1)
    OBVIOUS
  <2>2. n + 1 \in Lcs /\ n <= N /\ n + 1 \in 0..N /\ n + 1 # 0 /\ (n + 1) - 1 = n
    BY <1>1, <2>1
  <2> DEFINE lc == n + 1
             t == Notify(g[n], kind, lc, share)
  <2>3. g[lc] = DataTurn(g[n], kind, lc, share, useful)
    BY <1>4, <2>2
  <2>4. Leaves(n)
    BY <1>6, <2>2
  <2>5. Typed(g[n])
    BY <2>4 DEF Untouched
  <2>6. /\ Typed(t) /\ (Carried(g[n]) => Carried(t))
        /\ Carried(t) \/ (t.used = g[n].used /\ t.rlc = g[n].rlc)
        /\ g[n].rlc[lc].retx = 0 /\ g[n].rlc[lc].tx > 0 => Carried(t)
    BY <1>2, <2>2, <2>5, OfferKeeps
  <2>7. \/ g[lc] = t
        \/ g[lc] = g[n] /\ ~(g[n].used + share <= useful)
    BY <2>3 DEF DataTurn, FitsIn
  <2>8. \A k \in D : k <= lc => k <= n \/ k = lc
    BY <1>1
  <2> HIDE DEF t, lc
  <2>9. CASE g[lc] = t
    <3>1. Untouched(t, r)
      BY <2>4, <2>6 DEF Untouched
    <3>2. ASSUME NEW k \in D, k <= lc PROVE Carried(t)
      <4>1. CASE k <= n
        BY <2>4, <2>6, <4>1
      <4>2. CASE k = lc
        <5>1. CASE Carried(g[n])
          BY <2>6, <5>1
        <5>2. CASE ~Carried(g[n])
          <6>1. g[n].rlc = r
            BY <2>4, <5>2 DEF Untouched
          <6> QED
            BY <2>6, <4>2, <6>1
        <5> QED
          BY <5>1, <5>2
      <4> QED
        BY <2>8, <3>2, <4>1, <4>2
    <3> QED
      BY <2>9, <3>1, <3>2 DEF lc
  <2>10. CASE g[lc] = g[n] /\ ~(g[n].used + share <= useful)
    <3>1. g[n].used # 0
      BY <1>2, <2>10
    <3>2. Carried(g[n])
      BY <2>4, <3>1 DEF Untouched
    <3> QED
      BY <2>4, <2>10, <3>2 DEF lc
  <2> QED
    BY <2>7, <2>9, <2>10
<1> HIDE DEF S
<1>7. N \in S
  BY <1>1, <1>5, <1>6, CountsUp
<1>8. Leaves(N)
  BY <1>1, <1>7 DEF S
<1>9. \A lc \in D : lc <= N
  BY <1>1
<1> HIDE DEF Leaves
<1>10. D # {} => \E lc \in D : lc <= N
  BY <1>9
<1> QED
  BY <1>3, <1>8, <1>10 DEF Leaves

LEMMA KindLeaves ==
    ASSUME NEW kind \in {"retx", "tx"}, NEW active \in Nat, NEW tbs \in Tbs,
           NEW s, NEW r, Untouched(s, r), NEW D \in SUBSET Lcs,
           \A lc \in D : r[lc].retx = 0 /\ r[lc].tx > 0
    PROVE  LET t == SendKind(s, kind, tbs, active) IN
           /\ Untouched(t, r)
           /\ active > 0 /\ 10 * active + BsrSize <= tbs /\ D # {} => Carried(t)
<1> DEFINE useful == Useful(s, tbs) - 3 * active
           t == SendKind(s, kind, tbs, active)
<1>1. tbs \in Nat /\ s.used \in Nat
  BY GrantAssumption DEF Untouched, Typed
<1>2. CASE active > 0 /\ LeastSpace(active) <= Useful(s, tbs)
  <2>1. useful \in Nat /\ useful >= 7 * active
    BY <1>1, <1>2 DEF LeastSpace, Useful, BsrSize
  <2>2. t = ShareOut(s, kind, useful, active)
    BY <1>2 DEF SendKind
  <2> HIDE DEF useful, t
  <2>3. active \in Nat \ {0}
    BY <1>2
  <2>4. /\ Untouched(ShareOut(s, kind, useful, active), r)
        /\ D # {} => Carried(ShareOut(s, kind, useful, active))
    BY <2>1, <2>3, ShareLeaves
  <2> QED
    BY <2>2, <2>4 DEF t
<1>3. CASE ~(active > 0 /\ LeastSpace(active) <= Useful(s, tbs))
  <2>1. t = s
    BY <1>3 DEF SendKind
  <2>2. active > 0 /\ 10 * active + BsrSize <= tbs => s.used # 0
    BY <1>1, <1>3 DEF LeastSpace, Useful, BsrSize
  <2> HIDE DEF t
  <2>3. s.used # 0 => Carried(s)
    BY DEF Untouched
  <2> QED
    BY <2>1, <2>2, <2>3 DEF t
<1> QED
  BY <1>2, <1>3

(* A whole grant. *)
LEMMA GrantLeaves ==
    ASSUME TbTypeOK, NEW tbs \in Tbs, ProcessUlDci(tbs)
    PROVE  /\ TbTypeOK'
           /\ /\ Waiting("tx") # {} /\ \A lc \in Waiting("tx") : WaitsWith("tx", lc)
              /\ 10 * Cardinality(Waiting("tx")) + BsrSize <= tbs
              => \E o \in offers' : o.pdu > 0
<1> DEFINE s0 == [bsr |-> bsr, rlc |-> rlc, used |-> 0, offers |-> {}]
           s1 == SendNewStatusData(s0, tbs)
           s2 == SendKind(s1, "retx", tbs, Active(s1, "retx"))
           s3 == SendKind(s2, "tx", tbs, Active(s1, "tx"))
           D == {lc \in Waiting("tx") : rlc[lc].retx = 0 /\ rlc[lc].tx > 0}
<1>1. /\ tb' = tbs /\ bsr' = s3.bsr /\ rlc' = s3.rlc /\ offers' = s3.offers
      /\ totalUsed' = s3.used + BsrSize
  BY Zenon DEF ProcessUlDci
<1>2. Untouched(s0, rlc) /\ s0.bsr = bsr
  BY DEF Untouched, TbTypeOK, Typed
<1> HIDE DEF s0
<1>3. Untouched(s1, rlc) /\ \A o \in Lcs : s1.bsr[o].tx = bsr[o].tx
  BY <1>2, StatusLeaves
<1> HIDE DEF s1
<1>4. Active(s1, "tx") = Cardinality(Waiting("tx"))
  <2>1. {lc \in Lcs : s1.bsr[lc]["tx"] > 0} = Waiting("tx")
    BY <1>3 DEF Waiting
  <2> QED
    BY <2>1 DEF Active
<1>5. D \in SUBSET Lcs /\ \A lc \in D : rlc[lc].retx = 0 /\ rlc[lc].tx > 0
  BY DEF Waiting
<1>6. Active(s1, "retx") \in Nat /\ Active(s1, "tx") \in Nat
  BY ActiveIs
<1> HIDE DEF D
<1>7. Untouched(s2, rlc)
  BY <1>3, <1>5, <1>6, KindLeaves
<1> HIDE DEF s2
<1>8. /\ Untouched(s3, rlc)
      /\ /\ Active(s1, "tx") > 0 /\ 10 * Active(s1, "tx") + BsrSize <= tbs /\ D # {}
         => Carried(s3)
  BY <1>5, <1>6, <1>7, KindLeaves
<1> HIDE DEF s3
<1>9. TbTypeOK'
  BY <1>1, <1>8, GrantAssumption DEF TbTypeOK, Untouched, Typed, BsrSize
<1>10. ASSUME Waiting("tx") # {}, \A lc \in Waiting("tx") : WaitsWith("tx", lc),
              10 * Cardinality(Waiting("tx")) + BsrSize <= tbs
       PROVE  \E o \in offers' : o.pdu > 0
  <2>1. D # {}
    BY <1>10 DEF D, WaitsWith
  <2>2. Active(s1, "tx") > 0
    <3>1. IsFiniteSet(Waiting("tx"))
      <4>1. IsFiniteSet(Lcs)
        BY ChannelAssumption, FS_Interval DEF Lcs
      <4> QED
        BY <4>1, FS_Subset DEF Waiting
    <3>2. Cardinality(Waiting("tx")) # 0
      BY <1>10, <3>1, FS_EmptySet
    <3> QED
      BY <1>4, <1>6, <3>2
  <2>3. Carried(s3)
    BY <1>4, <1>8, <1>10, <2>1, <2>2
  <2> QED
    BY <1>1, <2>3 DEF Carried
<1> QED
  BY <1>9, <1>10

(* Sizes keep their type whatever channels send STATUS PDUs. *)
LEMMA EnqueueTypes ==
    ASSUME TbTypeOK, NEW lc \in Lcs, NEW q \in Queue, Enqueue(lc, q)
    PROVE  TbTypeOK'
<1>1. PICK unacked \in Unacked : bsr' = [bsr EXCEPT ![lc] = Reported(lc, q, unacked)]
  BY DEF Enqueue
<1>2. rlc' = [rlc EXCEPT ![lc] = q] /\ offers' = {} /\ tb' = tb /\ totalUsed' = totalUsed
  BY DEF Enqueue, Quiet
<1>3. Reported(lc, q, unacked) \in Queue
  <2>1. unacked \in Nat /\ q.status \in Nat /\ q.retx \in Nat /\ q.tx \in Nat
    BY SizeAssumption DEF Queue
  <2> QED
    BY <2>1 DEF Reported, Queue
<1> QED
  BY <1>1, <1>2, <1>3 DEF TbTypeOK

LEMMA TbTypesKept ==
    ASSUME TbTypeOK, TbNext
    PROVE  TbTypeOK'
<1>1. \A lc \in Lcs : rlc[lc] \in Queue
  BY DEF TbTypeOK
<1>2. ASSUME NEW lc \in Lcs, Arrives(lc) \/ ReportsAgain(lc)
      PROVE  \E q \in Queue : Enqueue(lc, q)
  <2>1. CASE DataArrives(lc)
    <3>1. PICK n \in Sizes : Enqueue(lc, [rlc[lc] EXCEPT !.tx = n])
      BY <2>1 DEF DataArrives
    <3>2. [rlc[lc] EXCEPT !.tx = n] \in Queue
      BY <1>1, QueueWith, SizeAssumption
    <3> QED
      BY <3>1, <3>2, Zenon
  <2>2. CASE PduIsNacked(lc)
    <3>1. PICK n \in RetxSizes : Enqueue(lc, [rlc[lc] EXCEPT !.retx = n])
      BY <2>2 DEF PduIsNacked
    <3>2. [rlc[lc] EXCEPT !.retx = n] \in Queue
      BY <1>1, QueueWith, SizeAssumption
    <3> QED
      BY <3>1, <3>2, Zenon
  <2>3. CASE StatusIsWanted(lc)
    <3>1. Enqueue(lc, [rlc[lc] EXCEPT !.status = StatusSize])
      BY <2>3 DEF StatusIsWanted
    <3>2. [rlc[lc] EXCEPT !.status = StatusSize] \in Queue
      BY <1>1, QueueWith DEF StatusSize
    <3> QED
      BY <3>1, <3>2, Zenon
  <2>4. CASE ReportsAgain(lc)
    BY <1>1, <2>4 DEF ReportsAgain
  <2> QED
    BY <1>2, <2>1, <2>2, <2>3, <2>4 DEF Arrives
<1>3. CASE \E lc \in Lcs : Arrives(lc) \/ ReportsAgain(lc)
  BY <1>2, <1>3, EnqueueTypes
<1>4. CASE \E tbs \in Tbs : ProcessUlDci(tbs)
  BY <1>4, GrantLeaves
<1> QED
  BY <1>3, <1>4 DEF TbNext

(***************************************************************************)
(* SendNewData wastes no block: one with space for every channel that      *)
(* waits with new data carries a PDU, whatever channels send STATUS PDUs,  *)
(* and although shares go to channels without data too.                    *)
(***************************************************************************)
THEOREM NoBlockWasted == TbSpec => NotWasted
<1>1. TbInit => TbTypeOK
  BY TbInitially DEF TbInv, BlockInv
<1>2. TbTypeOK /\ [TbNext]_tbVars => TbTypeOK'
  <2>1. TbTypeOK /\ UNCHANGED tbVars => TbTypeOK'
    BY DEF TbTypeOK, tbVars
  <2> QED
    BY <2>1, TbTypesKept
<1>3. TbTypeOK /\ [TbNext]_tbVars =>
         [\A tbs \in Tbs :
             /\ ProcessUlDci(tbs)
             /\ Waiting("tx") # {} /\ \A lc \in Waiting("tx") : WaitsWith("tx", lc)
             /\ 10 * Cardinality(Waiting("tx")) + BsrSize <= tbs
             => \E o \in offers' : o.pdu > 0]_tbVars
  BY GrantLeaves
<1> QED
  BY <1>1, <1>2, <1>3, PTL DEF TbSpec, NotWasted
=============================================================================

------------------------------- MODULE NrRach -------------------------------
(***************************************************************************)
(* Random access of several UEs to one cell: the UE MAC (NrUeMac), the     *)
(* preamble the UE PHY waits for, the gNB MAC's preambles (NrGnbMac), the  *)
(* Msg3 grants of the scheduler, and what RRC makes of the outcome.        *)
(*                                                                         *)
(*   - Preambles of a contention-based access come from one counter of all *)
(*     UEs; those the gNB hands out for a handover are FirstDedicated and   *)
(*     above (NumberOfRaPreambles of the code).                            *)
(*   - The window for the answer to a preamble opens one slot after it was *)
(*     sent, before an answer can come; it closes at any time after that,  *)
(*     since how soon a preamble is transmitted, and an uplink slot of the *)
(*     gNB has symbols to spare, is the frame structure's.                 *)
(*   - UEs of other cells draw from the counter, come here by handover, or *)
(*     come here to search for a cell.                                     *)
(*   - rar is what the gNB's answers say, on the air to every UE of the    *)
(*     cell: for each preamble answered, the preamble id and the RNTI.     *)
(*   - ctx[r] is the RRC context of RNTI r, of which only the states that  *)
(*     the random access tells apart are kept (NrHandover has the others). *)
(*   - fault is the handler in which the program aborted: NS_FATAL_ERROR,  *)
(*     out of which no action leads.                                       *)
(***************************************************************************)
EXTENDS Integers, Sequences, FiniteSets

CONSTANTS
    Ue,
    NumIds,             \* ids before the counter is back at 0 (255)
    FirstDedicated,     \* NumberOfRaPreambles (52)
    LastDedicated,      \* 63
    PreambleTransMax,
    SrsIndices,         \* contexts the SRS configurations suffice for
    MaxRnti,            \* bound: RNTIs handed out
    MaxSent,            \* bound: preambles sent with contention
    PatientJoining,     \* HandoverJoiningTimeout outlasts an access: with 200 ms and
                        \* 51 windows of 9 slots, from 60 kHz up
    None

ASSUME RachAssumption ==
    /\ NumIds \in Nat /\ FirstDedicated \in Nat /\ LastDedicated \in Nat
    /\ FirstDedicated <= LastDedicated /\ LastDedicated < NumIds
    /\ {PreambleTransMax, SrsIndices, MaxRnti, MaxSent} \subseteq Nat
    /\ PatientJoining \in BOOLEAN
    /\ None \notin Nat /\ None \notin [rnti : Nat, expired : BOOLEAN]

Preamble == 0 .. NumIds - 1
Dedicated == FirstDedicated .. LastDedicated
Rnti == 1 .. MaxRnti

VARIABLES
    \* each UE
    rrc,        \* NrUeRrc::m_state
    rnti,       \* NrUeMac::m_rnti
    id,         \* NrUeMac::m_raPreambleId
    phyId,      \* NrUePhy::m_raPreambleId, None for 255
    waiting,    \* NrUeMac::m_waitingForRaResponse
    timer,      \* NrUeMac::m_noRaResponseReceivedEvent: the kind of access, or "off"
    count,      \* NrUeMac::m_preambleTransmissionCounter
    out,        \* preambles handed to PHY until the next slot, when the window opens
    air,        \* preambles on their way to the gNB
    \* all UEs
    sent,       \* NrUeMac::g_raPreambleId, not reduced
    \* the gNB
    ctx,        \* NrGnbRrc::m_ueMap: the state of each context, or "none"
    last,       \* NrGnbRrc::m_lastAllocatedRnti
    nc,         \* NrGnbMac::m_allocatedNcRaPreambleMap: an RNTI and whether it is
                \* past its expiry time, or None
    heard,      \* NrGnbMac::m_receivedRachPreambleCount, 2 for any collision
    rapId,      \* NrGnbMac::m_rapIdRntiMap
    rar,        \* RARs on the air
    command,    \* the handover command on its way to a UE, or None
    fault

ueVars == <<rrc, rnti, id, phyId, waiting, timer, count, out, air, sent>>
gnbVars == <<ctx, last, nc, heard, rapId>>
vars == <<ueVars, gnbVars, rar, command, fault>>

Running == fault = "none"

Abort(h) == fault' = h /\ UNCHANGED <<ueVars, gnbVars, rar, command>>

-----------------------------------------------------------------------------

(***************************************************************************)
(* What the handlers share.                                                *)
(***************************************************************************)

\* SendRaPreamble and NrUePhy::SendRachPreamble.
Send(u, p, kind) ==
    /\ id' = [id EXCEPT ![u] = p]
    /\ phyId' = [phyId EXCEPT ![u] = p]
    /\ out' = [out EXCEPT ![u] = @ \cup {p}]
    /\ timer' = [timer EXCEPT ![u] = kind]

\* A contention-based preamble: the counter of all UEs, past 255.
SendNext(u) ==
    /\ sent < MaxSent
    /\ Send(u, sent % NumIds, "contention")
    /\ sent' = sent + 1

\* RemoveUe: the context goes, and in the MAC the UE's preamble, heard or not.
Own(r) == {p \in Dedicated : nc[p] # None /\ nc[p].rnti = r}

RemoveUe(r) ==
    /\ ctx' = [q \in Rnti |-> IF q = r THEN "none" ELSE ctx[q]]
    /\ nc' = [p \in Dedicated |-> IF p \in Own(r) THEN None ELSE nc[p]]
    /\ heard' = [p \in Preamble |-> IF p \in Own(r) THEN 0 ELSE heard[p]]
    /\ UNCHANGED <<last, rapId>>

\* Mutated form: the PHY is not reset.
LeaveWaiting(u, removed) ==
    /\ rrc' = [rrc EXCEPT ![u] = "idle"]
    /\ rnti' = [rnti EXCEPT ![u] = 0]
    /\ timer' = [timer EXCEPT ![u] = "off"]
    /\ IF removed THEN RemoveUe(rnti[u]) ELSE UNCHANGED gnbVars
    /\ UNCHANGED <<id, phyId, out, air, sent>>

\* LeaveConnectedMode, which resets MAC and PHY; removed if the gNB is told to
\* remove the context.
Leave(u, removed) ==
    /\ rrc' = [rrc EXCEPT ![u] = "idle"]
    /\ rnti' = [rnti EXCEPT ![u] = 0]
    /\ timer' = [timer EXCEPT ![u] = "off"]
    /\ phyId' = [phyId EXCEPT ![u] = None]
    /\ IF removed THEN RemoveUe(rnti[u]) ELSE UNCHANGED gnbVars
    /\ UNCHANGED <<id, out, air, sent>>

-----------------------------------------------------------------------------

(***************************************************************************)
(* The UE.                                                                 *)
(***************************************************************************)

\* StartConnection and DoStartContentionBasedRandomAccessProcedure.
StartAccess(u) ==
    /\ Running /\ rrc[u] = "idle"
    /\ SendNext(u)
    /\ rrc' = [rrc EXCEPT ![u] = "access"]
    /\ UNCHANGED <<rnti, waiting, count, air, gnbVars, rar, command, fault>>

\* A UE of another cell does the same.
AccessElsewhere ==
    /\ Running /\ sent < MaxSent
    /\ sent' = sent + 1
    /\ UNCHANGED <<rrc, rnti, id, phyId, waiting, timer, count, out, air, gnbVars, rar,
                   command, fault>>

\* Nothing of p is on its way, in either direction.
Settled(p) ==
    /\ \A v \in Ue : p \notin out[v] \cup air[v]
    /\ heard[p] = 0
    /\ \A i \in DOMAIN rar : \A q \in DOMAIN rar[i] : rar[i][q].id # p

\* DoRecvRrcConnectionReconfiguration of a handover command and
\* DoStartNonContentionBasedRandomAccessProcedure.  The command takes longer than
\* what an earlier owner of the preamble may have left on its way.
StartHandover(u) ==
    /\ Running /\ command[u] # None /\ Settled(command[u].id)
    /\ rrc' = [rrc EXCEPT ![u] = "handover"]
    /\ rnti' = [rnti EXCEPT ![u] = command[u].rnti]
    /\ count' = [count EXCEPT ![u] = 0]
    /\ Send(u, command[u].id, "dedicated")
    /\ command' = [command EXCEPT ![u] = None]
    /\ UNCHANGED <<waiting, air, sent, gnbVars, rar, fault>>

\* StartWaitingForRaResponse.
StartWaitingForRaResponse(u) ==
    /\ Running /\ out[u] # {}
    /\ waiting' = [waiting EXCEPT ![u] = TRUE]
    /\ out' = [out EXCEPT ![u] = {}]
    /\ air' = [air EXCEPT ![u] = @ \cup out[u]]
    /\ UNCHANGED <<rrc, rnti, id, phyId, timer, count, sent, gnbVars, rar, command, fault>>

\* DoNotifyRandomAccessFailed.
Fails(u) ==
    \/ /\ rrc[u] = "access"
       /\ rrc' = [rrc EXCEPT ![u] = "idle"]
       /\ timer' = [timer EXCEPT ![u] = "off"]
       /\ UNCHANGED <<rnti, phyId, id, out, air, sent, gnbVars>>
    \/ /\ rrc[u] = "handover"
       /\ Leave(u, TRUE)

\* Mutated form: the counter starts anew with each preamble.
CountedAnew(u) == 1

\* The preambles sent without an answer (8 bits, which the bounds do not reach).
Counted(u) == count[u] + 1

\* RaResponseTimeout.
RaResponseTimeout(u) ==
    /\ Running /\ timer[u] # "off" /\ out[u] = {}
    /\ LET n == Counted(u)
           over == n = PreambleTransMax + 1
       IN  IF over /\ rrc[u] \notin {"access", "handover"} THEN Abort("failed")
           ELSE /\ count' = [count EXCEPT ![u] = n]
                /\ waiting' = [waiting EXCEPT ![u] = FALSE]
                /\ \/ over /\ Fails(u)
                   \/ /\ ~over /\ timer[u] = "contention"
                      /\ SendNext(u)
                      /\ UNCHANGED <<rrc, rnti, air, gnbVars>>
                   \/ /\ ~over /\ timer[u] = "dedicated"
                      /\ Send(u, id[u], "dedicated")
                      /\ UNCHANGED <<rrc, rnti, air, sent, gnbVars>>
                /\ UNCHANGED <<rar, command, fault>>

\* ProcessRar in the PHY, which then stops to wait, and the loop over the RARs in
\* the MAC: the answers to u's preamble, taken only while the window is open.
Mine(u) == {p \in DOMAIN Head(rar) : Head(rar)[p].id = id[u]}
Hears(u) == \E p \in DOMAIN Head(rar) : Head(rar)[p].id = phyId[u]
Taken(u) == IF Hears(u) /\ waiting[u] THEN Mine(u) ELSE {}

\* RecvRaResponse and DoNotifyRandomAccessSuccessful, which a second call of would
\* find in the wrong state.
RecvRaResponse ==
    /\ Running /\ rar # <<>>
    /\ IF \E u \in Ue : Taken(u) # {} /\ (rrc[u] \notin {"access", "handover"}
                                          \/ Cardinality(Taken(u)) > 1)
       THEN Abort("successful")
       ELSE LET done == {u \in Ue : Taken(u) # {}}
                got(u) == Head(rar)[CHOOSE p \in Taken(u) : TRUE].rnti
            IN  /\ rar' = Tail(rar)
                /\ phyId' = [u \in Ue |-> IF Hears(u) THEN None ELSE phyId[u]]
                /\ waiting' = [u \in Ue |-> IF u \in done THEN FALSE ELSE waiting[u]]
                /\ timer' = [u \in Ue |-> IF u \in done THEN "off" ELSE timer[u]]
                /\ rnti' = [u \in Ue |-> IF u \in done THEN got(u) ELSE rnti[u]]
                /\ rrc' = [u \in Ue |-> IF u \notin done THEN rrc[u]
                                        ELSE IF rrc[u] = "access" THEN "connecting"
                                        ELSE "completing"]
                /\ UNCHANGED <<id, count, out, air, sent, gnbVars, command, fault>>

\* ConnectionTimeout (T300), or a connection that is rejected.
ConnectionTimeout(u) ==
    /\ Running /\ rrc[u] = "connecting"
    /\ rrc' = [rrc EXCEPT ![u] = "idle"]
    /\ rnti' = [rnti EXCEPT ![u] = 0]
    /\ UNCHANGED <<id, phyId, waiting, timer, count, out, air, sent, gnbVars, rar,
                   command, fault>>

\* RadioLinkFailureDetected, in CONNECTED_NORMALLY.
RadioLinkFailureDetected(u) ==
    /\ Running /\ rrc[u] \in {"completing", "connected"}
    /\ Leave(u, TRUE)
    /\ UNCHANGED <<waiting, count, rar, command, fault>>

\* DoDisconnect, asked for by NAS.
Disconnect(u) ==
    /\ Running /\ rrc[u] \in {"handover", "completing", "connected"}
    /\ Leave(u, FALSE)
    /\ UNCHANGED <<waiting, count, rar, command, fault>>

\* A UE of another cell loses its connection there, and finds this cell.
FindsCell(u) ==
    /\ Running /\ rrc[u] = "elsewhere"
    /\ rrc' = [rrc EXCEPT ![u] = "idle"]
    /\ command' = [command EXCEPT ![u] = None]
    /\ UNCHANGED <<rnti, id, phyId, waiting, timer, count, out, air, sent, gnbVars, rar, fault>>

-----------------------------------------------------------------------------

(***************************************************************************)
(* The gNB.                                                                *)
(***************************************************************************)

Contexts == {r \in Rnti : ctx[r] # "none"}

\* IsRandomAccessCompleted.
Completed(r) == ctx[r] = "connected"

\* Mutated form: an expired preamble is free.
FreeOnceExpired(p) == nc[p] # None => nc[p].expired

\* The preambles DoAllocateNcRaPreamble may hand out.
Free(p) == nc[p] # None => nc[p].expired /\ Completed(nc[p].rnti)

\* DoRecvHandoverRequest, admitted, or refused for want of a preamble, in which
\* case the RNTI is gone all the same.
AdmitHandover(u) ==
    /\ Running /\ rrc[u] = "elsewhere" /\ command[u] = None
    /\ last < MaxRnti /\ Cardinality(Contexts) < SrsIndices
    /\ last' = last + 1
    /\ \/ \E p \in Dedicated :
            /\ Free(p) /\ \A q \in Dedicated : q < p => ~Free(q)
            /\ nc' = [nc EXCEPT ![p] = [rnti |-> last + 1, expired |-> FALSE]]
            /\ ctx' = [ctx EXCEPT ![last + 1] = "joining"]
            /\ command' = [command EXCEPT ![u] = [id |-> p, rnti |-> last + 1]]
       \/ /\ \A p \in Dedicated : ~Free(p)
          /\ UNCHANGED <<nc, ctx, command>>
    /\ UNCHANGED <<ueVars, heard, rapId, rar, fault>>

\* The expiry time of an allocation passes.
Expire(p) ==
    /\ Running /\ nc[p] # None /\ ~nc[p].expired
    /\ nc' = [nc EXCEPT ![p].expired = TRUE]
    /\ UNCHANGED <<ueVars, ctx, last, heard, rapId, rar, command, fault>>

\* ProcessRaPreambles: the preambles heard once, in their order; the RNTI of a
\* dedicated one, a new context for any other, or 0 when SRS configurations are out.
Answered == {p \in Preamble : heard[p] = 1}
Known(p) == p \in Dedicated /\ nc[p] # None
Unknown == {p \in Answered : ~Known(p)}
Rank(S, p) == Cardinality({q \in S : q <= p})
RntiOf(p) ==
    IF Known(p) THEN nc[p].rnti
    ELSE IF Cardinality(Contexts) + Rank(Unknown, p) <= SrsIndices
         THEN last + Rank(Unknown, p)
         ELSE 0
NewRntis == {RntiOf(p) : p \in Unknown} \ {0}

\* The insertions into m_rapIdRntiMap, which keep what is there.
Mapped ==
    [r \in 0 .. MaxRnti |->
        LET ps == {p \in Answered : RntiOf(p) = r}
        IN  IF rapId[r] # None \/ ps = {} THEN rapId[r]
            ELSE CHOOSE p \in ps : \A q \in ps : p <= q]

\* DoSlotUlIndication: DoScheduleUlMsg3 has symbols for the first room of the
\* preambles and forgets the others, and DoBuildRarList makes their RARs.
UlSlot(room) ==
    /\ Running /\ \E p \in Preamble : heard[p] > 0
    /\ last + Cardinality(NewRntis) <= MaxRnti
    /\ LET built == {p \in Answered : Rank(Answered, p) <= room}
       IN  /\ last' = last + Cardinality(NewRntis)
           /\ ctx' = [r \in Rnti |-> IF r \in NewRntis THEN "access" ELSE ctx[r]]
           /\ heard' = [p \in Preamble |-> 0]
           /\ IF built = {}
              THEN rapId' = Mapped /\ UNCHANGED rar
              ELSE /\ rapId' = [r \in 0 .. MaxRnti |-> None]
                   /\ rar' = Append(rar, [p \in built |->
                                [id |-> Mapped[RntiOf(p)], rnti |-> RntiOf(p)]])
    /\ UNCHANGED <<ueVars, nc, command, fault>>

\* ReceiveRachPreamble.
ReceiveRachPreamble(u, p) ==
    /\ Running /\ p \in air[u]
    /\ air' = [air EXCEPT ![u] = @ \ {p}]
    /\ heard' = [heard EXCEPT ![p] = IF @ = 0 THEN 1 ELSE 2]
    /\ UNCHANGED <<rrc, rnti, id, phyId, waiting, timer, count, out, sent, ctx, last, nc,
                   rapId, rar, command, fault>>

\* RecvRrcConnectionRequest and RecvRrcConnectionReconfigurationCompleted, each in
\* the states of the context it is for.  With no context left, or with RNTI 0, the
\* message goes nowhere (NrHandover).
Expecting(message) ==
    IF message = "connecting" THEN {"access"} ELSE {"joining", "connected"}

RecvFirstMessage(u) ==
    /\ Running /\ rrc[u] \in {"connecting", "completing"} /\ rnti[u] \in Contexts
    /\ LET r == rnti[u]
       IN  IF ctx[r] \notin Expecting(rrc[u]) THEN Abort("first message")
           ELSE /\ rrc' = [rrc EXCEPT ![u] = "connected"]
                /\ ctx' = [ctx EXCEPT ![r] = IF @ = "joining" THEN "switching"
                                            ELSE "connected"]
                /\ UNCHANGED <<rnti, id, phyId, waiting, timer, count, out, air, sent,
                               last, nc, heard, rapId, rar, command, fault>>

\* DoPathSwitchRequestAcknowledge.
PathSwitched(r) ==
    /\ Running /\ ctx[r] = "switching"
    /\ ctx' = [ctx EXCEPT ![r] = "connected"]
    /\ UNCHANGED <<ueVars, last, nc, heard, rapId, rar, command, fault>>

\* ConnectionRequestTimeout and HandoverJoiningTimeout.
Joining(r) == \E u \in Ue : \/ /\ rrc[u] = "handover"
                                /\ rnti[u] = r
                             \/ /\ command[u] # None
                                /\ command[u].rnti = r

ContextTimeout(r) ==
    /\ Running
    /\ \/ ctx[r] = "access"
       \/ /\ ctx[r] = "joining"
          /\ PatientJoining => ~Joining(r)
    /\ RemoveUe(r)
    /\ UNCHANGED <<ueVars, rar, command, fault>>

-----------------------------------------------------------------------------

Init ==
    /\ rrc \in [Ue -> {"idle", "elsewhere"}]
    /\ rnti = [u \in Ue |-> 0]
    /\ id = [u \in Ue |-> 0]
    /\ phyId = [u \in Ue |-> None]
    /\ waiting = [u \in Ue |-> TRUE]
    /\ timer = [u \in Ue |-> "off"]
    /\ count \in [Ue -> 0 .. PreambleTransMax + 1]
    /\ \A u \in Ue : rrc[u] = "idle" => count[u] = 0
    /\ out = [u \in Ue |-> {}]
    /\ air = [u \in Ue |-> {}]
    /\ sent = 0
    /\ ctx = [r \in Rnti |-> "none"]
    /\ last = 0
    /\ nc = [p \in Dedicated |-> None]
    /\ heard = [p \in Preamble |-> 0]
    /\ rapId = [r \in 0 .. MaxRnti |-> None]
    /\ rar = <<>>
    /\ command = [u \in Ue |-> None]
    /\ fault = "none"

Next ==
    \/ \E u \in Ue : StartAccess(u)
    \/ AccessElsewhere
    \/ \E u \in Ue : StartHandover(u)
    \/ \E u \in Ue : StartWaitingForRaResponse(u)
    \/ \E u \in Ue : RaResponseTimeout(u)
    \/ RecvRaResponse
    \/ \E u \in Ue : ConnectionTimeout(u)
    \/ \E u \in Ue : RadioLinkFailureDetected(u)
    \/ \E u \in Ue : Disconnect(u)
    \/ \E u \in Ue : FindsCell(u)
    \/ \E u \in Ue : AdmitHandover(u)
    \/ \E p \in Dedicated : Expire(p)
    \/ \E u \in Ue : \E p \in Preamble : ReceiveRachPreamble(u, p)
    \/ \E room \in 0 .. Cardinality(Ue) : UlSlot(room)
    \/ \E u \in Ue : RecvFirstMessage(u)
    \/ \E r \in Rnti : PathSwitched(r)
    \/ \E r \in Rnti : ContextTimeout(r)

Fairness ==
    \A u \in Ue : /\ WF_vars(StartWaitingForRaResponse(u))
                  /\ WF_vars(RaResponseTimeout(u))

Spec == Init /\ [][Next]_vars /\ Fairness

-----------------------------------------------------------------------------

\* The values of the variables.
TypeOK ==
    /\ rrc \in [Ue -> {"idle", "elsewhere", "access", "handover", "connecting",
                       "completing", "connected"}]
    /\ rnti \in [Ue -> 0 .. MaxRnti]
    /\ id \in [Ue -> Preamble] /\ phyId \in [Ue -> Preamble \cup {None}]
    /\ waiting \in [Ue -> BOOLEAN]
    /\ timer \in [Ue -> {"off", "contention", "dedicated"}]
    /\ count \in [Ue -> Nat] /\ sent \in 0 .. MaxSent
    /\ out \in [Ue -> SUBSET Preamble] /\ air \in [Ue -> SUBSET Preamble]
    /\ ctx \in [Rnti -> {"none", "access", "joining", "switching", "connected"}]
    /\ last \in 0 .. MaxRnti
    /\ nc \in [Dedicated -> [rnti : Rnti, expired : BOOLEAN] \cup {None}]
    /\ heard \in [Preamble -> 0 .. 2]
    /\ rapId \in [0 .. MaxRnti -> Preamble \cup {None}]
    /\ command \in [Ue -> [id : Dedicated, rnti : Rnti] \cup {None}]

\* "re-assigning the preamble to another UE only if it is not being used": the
\* preamble a UE was given stays with its RNTI until its access has ended.
HasPreamble(u) ==
    /\ command[u] # None => LET p == command[u].id
                            IN  nc[p] # None /\ nc[p].rnti = command[u].rnti
    /\ rrc[u] = "handover" => nc[id[u]] # None /\ nc[id[u]].rnti = rnti[u]
PreambleKept == \A u \in Ue : HasPreamble(u)

\* No two UEs of the cell use the same RNTI: an answer is taken by the UE it is for.
OneUeEach == \A u, v \in Ue : rnti[u] = rnti[v] /\ rnti[u] # 0 => u = v

\* "Maximum number of random access preamble transmissions", of an access for a
\* handover: an access with contention may send more (Bounded).
DedicatedBounded == \A u \in Ue : timer[u] = "dedicated" => count[u] <= PreambleTransMax

\* The types, the preambles of handovers, and whom the answers reach.
RachInv == TypeOK /\ PreambleKept /\ DedicatedBounded /\ OneUeEach

\* No outcome of an access, and no first message, meets a state that does not
\* expect it: such a one ends the program (DoNotifyRandomAccessSuccessful,
\* DoNotifyRandomAccessFailed, the handlers of the gNB RRC).
ResultsExpected == Running

\* An access for a handover ends, if only in failure, whatever was lost and however
\* often the UE had to repeat preambles before.
DedicatedEnds == \A u \in Ue : rrc[u] = "handover" ~> rrc[u] # "handover"

\* The same of every access, given up with the answer to the last one missing.
\* Violated: the counter is not reset when an access with contention begins.
Bounded == \A u \in Ue : count[u] <= PreambleTransMax + 1
=============================================================================

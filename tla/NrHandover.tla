----------------------------- MODULE NrHandover -----------------------------
(***************************************************************************)
(* X2 handover of one UE among several gNBs: the UE contexts each gNB RRC  *)
(* keeps (NrUeManager, NrGnbRrc), the UE RRC (NrUeRrc), the X2 links, the  *)
(* core network's answers, the timers of a context and of the UE, radio    *)
(* link failure, the release of the connection and the set-up of a new one. *)
(*                                                                         *)
(*   - ctx[g][r] is gNB g's context for RNTI r; one that does not exist has *)
(*     the state "NONE".  A context has at most one timer running: every   *)
(*     state that starts one is left by the handler that cancels it.       *)
(*   - x2[s][t] is the link from gNB s to gNB t: one point-to-point link, *)
(*     control and data, first in first out, nothing lost.                 *)
(*   - now holds the calls scheduled with a delay of zero: the RRC release *)
(*     to the UE and the UE's request to delete its context.  They run     *)
(*     before anything else happens.                                       *)
(*   - dl and ul are the RRC messages between the UE and its context; they *)
(*     go with the radio entities when the UE moves or leaves.  Those on   *)
(*     SRB0, which RLC does not repeat, may also be lost on the air.       *)
(*   - fault is the handler in which the program aborted: an assertion or  *)
(*     an NS_FATAL_ERROR. Nothing happens after it.                        *)
(*                                                                         *)
(* Left out: SN status transfer (it sets PDCP counters), component         *)
(* carriers, handover inside a gNB, the reestablishment messages, which no *)
(* UE code sends.  IDLE_RANDOM_ACCESS is also the UE that waits, camped,   *)
(* for the system information it needs to try again.                       *)
(***************************************************************************)
EXTENDS Integers, Sequences, FiniteSets

CONSTANTS
    Gnb,            \* the gNBs
    First,          \* those the UE may be connected to at first
    MaxRnti,        \* bound: RNTIs one gNB hands out
    MaxFailures,    \* bound: radio link failures
    NoCell,         \* the cell of a UE that is idle
    Orders,         \* what leavingLast may be
    Forwards        \* the source has data to forward over X2-U

ASSUME HandoverAssumption ==
    /\ NoCell \notin Gnb /\ First \subseteq Gnb
    /\ MaxRnti \in Nat \ {0}
    /\ MaxFailures \in Nat
    /\ Orders \subseteq BOOLEAN
    /\ Forwards \in BOOLEAN

Rnti == 1 .. MaxRnti

VARIABLES
    ctx,        \* NrGnbRrc::m_ueMap, with the fields of NrUeManager
    last,       \* NrGnbRrc::m_lastAllocatedRnti
    teid,       \* NrGnbRrc::m_x2uTeidInfoMap: the RNTI of the UE's tunnel, or 0
    imsiRnti,   \* NrEpcGnbApplication::m_imsiRntiMap: the UE's RNTI, or 0
    ue,         \* NrUeRrc
    dl, ul,     \* RRC messages in flight from and to the UE
    x2,         \* X2 messages in flight
    s1,         \* the MME's answers on their way to the gNBs
    now,        \* calls scheduled with no delay
    failures,   \* radio link failures so far
    fault,      \* where the program aborted, or "none"
    leavingLast \* the leaving timer outlasts the joining timer and the messages
                \* that follow it, as the default durations (500 and 200 ms) have it

vars == <<ctx, last, teid, imsiRnti, ue, dl, ul, x2, s1, now, failures, fault>>

gnbVars == <<ctx, last, teid, imsiRnti>>
ueVars == <<ue, dl, ul>>

\* A context that does not exist.
NoCtx == [st |-> "NONE", peer |-> NoCell, peerId |-> 0, timer |-> "none", pend |-> FALSE]

IdleUe == [st |-> "IDLE", cell |-> NoCell, rnti |-> 0, left |-> TRUE, from |-> <<NoCell, 0>>]

Exists(g, r) == r \in Rnti /\ ctx[g][r].st # "NONE"

\* The UE is attached to, or accessing, this cell under this RNTI.
UeAt(g, r) == ue.st # "IDLE" /\ ue.cell = g /\ ue.rnti = r

\* No message is on its way on X2 or S1.
Settled == s1 = <<>> /\ \A s, t \in Gnb : x2[s][t] = <<>>

Running == fault = "none" /\ now = <<>>

\* NS_FATAL_ERROR or a failed assertion in handler h.
Abort(h) == fault' = h /\ UNCHANGED <<gnbVars, ueVars, x2, s1, now, failures>>

-----------------------------------------------------------------------------

(***************************************************************************)
(* What the handlers share.                                                *)
(***************************************************************************)

\* SwitchToState(CONNECTED_NORMALLY): a reconfiguration that was waiting is
\* sent at once and the context is CONNECTION_RECONFIGURATION.
Connected(c) ==
    [c EXCEPT !.st = IF c.pend THEN "CONNECTION_RECONFIGURATION" ELSE "CONNECTED_NORMALLY",
              !.pend = FALSE,
              !.timer = "none"]

\* The message that goes with it, on SRB1 if the UE listens there.
Reconfigures(g, r) ==
    dl' = IF ctx[g][r].pend /\ UeAt(g, r) THEN Append(dl, [kind |-> "reconf"]) ELSE dl

\* Mutant: the tunnel outlives the context.
RemoveUeKeepsTunnel(g, r) ==
    /\ ctx' = [ctx EXCEPT ![g][r] = NoCtx]
    /\ UNCHANGED <<last, teid, imsiRnti>>

\* RemoveUe: the context goes, with its timers and its X2-U tunnel.
RemoveUe(g, r) ==
    /\ ctx' = [ctx EXCEPT ![g][r] = NoCtx]
    /\ teid' = [teid EXCEPT ![g] = IF @ = r THEN 0 ELSE @]
    /\ UNCHANGED <<last, imsiRnti>>

\* SendRrcConnectionRelease: the UE is told without going over the air, and
\* the context is deleted.
SendRrcConnectionRelease(g, r) ==
    /\ now' = Append(now, [kind |-> "release", cell |-> g, rnti |-> r])
    /\ RemoveUe(g, r)

\* LeaveConnectedMode.  A UE that was connected has asked for its context to be
\* deleted before it.
Leave ==
    /\ ue' = IdleUe
    /\ dl' = <<>> /\ ul' = <<>>

RemoveRequest == [kind |-> "remove", cell |-> ue.cell, rnti |-> ue.rnti]

Take(s, t) == [x2 EXCEPT ![s][t] = Tail(@)]
Answer(s, t, m) == [x2 EXCEPT ![s][t] = Tail(@), ![t][s] = Append(@, m)]
Arrives(s, t, k) == Running /\ x2[s][t] # <<>> /\ Head(x2[s][t]).kind = k

Msg(k, old, new) == [kind |-> k, old |-> old, new |-> new]

-----------------------------------------------------------------------------

(***************************************************************************)
(* Preparation, at the source and at the target.                           *)
(***************************************************************************)

\* DoTriggerHandover and PrepareHandover, on a measurement report.  A report
\* that asks for a handover takes longer (256 ms by default) than messages on X2
\* and S1, and than a joining timer an earlier attempt may have left running.
TriggerHandover(g, r, t) ==
    /\ Running /\ Settled /\ t # g
    /\ ctx[g][r].st = "CONNECTED_NORMALLY" /\ UeAt(g, r)
    /\ \A q \in Rnti : ctx[t][q].timer # "joining"
    /\ last[t] < MaxRnti
    /\ ctx' = [ctx EXCEPT ![g][r].st = "HANDOVER_PREPARATION", ![g][r].peer = t]
    /\ x2' = [x2 EXCEPT ![g][t] = Append(@, Msg("request", r, 0))]
    /\ UNCHANGED <<last, teid, imsiRnti, ueVars, s1, now, failures, fault>>

\* DoRecvHandoverRequest, refused: admission, SRS indices or preambles.
RefuseHandover(s, t) ==
    /\ Arrives(s, t, "request")
    /\ x2' = Answer(s, t, Msg("failure", Head(x2[s][t]).old, 0))
    /\ UNCHANGED <<gnbVars, ueVars, s1, now, failures, fault>>

\* DoRecvHandoverRequest, admitted: the new context waits for the UE under the
\* joining timer; its bearers leave a reconfiguration waiting and register the
\* X2-U tunnel, which must not be registered yet.
AdmitHandover(s, t) ==
    /\ Arrives(s, t, "request") /\ last[t] < MaxRnti
    /\ LET r == last[t] + 1
           old == Head(x2[s][t]).old
       IN  IF teid[t] # 0 THEN Abort("tunnel")
           ELSE /\ ctx' = [ctx EXCEPT ![t][r] =
                        [st |-> "HANDOVER_JOINING", peer |-> s, peerId |-> old,
                         timer |-> "joining", pend |-> TRUE]]
                /\ last' = [last EXCEPT ![t] = r]
                /\ teid' = [teid EXCEPT ![t] = r]
                /\ x2' = Answer(s, t, Msg("ack", old, r))
                /\ UNCHANGED <<imsiRnti, ueVars, s1, now, failures, fault>>

\* The source waits for the UE to arrive at the target's context id.
Commanded(c, id) ==
    [c EXCEPT !.st = "HANDOVER_LEAVING", !.peerId = id, !.timer = "leaving"]

\* DoRecvHandoverRequestAck and RecvHandoverRequestAck: the command goes to the
\* UE and the leaving timer starts.  The context is not looked for first.
RecvHandoverRequestAck(t, g) ==
    /\ Arrives(t, g, "ack")
    /\ LET m == Head(x2[t][g])
           r == m.old
       IN  IF ~Exists(g, r) THEN Abort("request_ack")
           ELSE /\ ctx' = [ctx EXCEPT ![g][r] = Commanded(@, m.new)]
                /\ dl' = IF UeAt(g, r)
                         THEN Append(dl, [kind |-> "handover", cell |-> t, rnti |-> m.new])
                         ELSE dl
                /\ x2' = Take(t, g)
                /\ UNCHANGED <<last, teid, imsiRnti, ue, ul, s1, now, failures, fault>>

\* RecvHandoverPreparationFailure: the preparation is given up, or, once the
\* command was sent, the UE is released.
FailurePrepares(g, r) ==
    /\ ctx' = [ctx EXCEPT ![g][r] = Connected(@)]
    /\ Reconfigures(g, r)
    /\ UNCHANGED <<last, teid, imsiRnti, now>>

\* Mutant: the source takes the UE for its own again.
FailureReturns(g, r) ==
    /\ ctx' = [ctx EXCEPT ![g][r] = Connected(@)]
    /\ UNCHANGED <<last, teid, imsiRnti, now, dl>>

\* Mutant: the release is left to the leaving timer.
FailureWaits(g, r) == UNCHANGED <<gnbVars, now, dl>>

FailureLeaves(g, r) ==
    /\ SendRrcConnectionRelease(g, r)
    /\ UNCHANGED dl

\* DoRecvHandoverPreparationFailure: ignored when the context is gone.
RecvHandoverPreparationFailure(t, g) ==
    /\ Arrives(t, g, "failure")
    /\ LET r == Head(x2[t][g]).old
       IN  IF ctx[g][r].st \notin {"NONE", "HANDOVER_PREPARATION", "HANDOVER_LEAVING"}
           THEN Abort("preparation_failure")
           ELSE /\ \/ ~Exists(g, r) /\ UNCHANGED <<gnbVars, dl, now>>
                   \/ ctx[g][r].st = "HANDOVER_PREPARATION" /\ FailurePrepares(g, r)
                   \/ ctx[g][r].st = "HANDOVER_LEAVING" /\ FailureLeaves(g, r)
                /\ x2' = Take(t, g)
                /\ UNCHANGED <<ue, ul, s1, failures, fault>>

-----------------------------------------------------------------------------

(***************************************************************************)
(* Execution, at the UE and at the target.                                 *)
(***************************************************************************)

\* DoRecvRrcConnectionReconfiguration.
UeRecvReconfiguration ==
    /\ Running /\ dl # <<>> /\ Head(dl).kind \in {"handover", "reconf"}
    /\ IF ue.st # "CONNECTED_NORMALLY" THEN Abort("UE_reconfiguration")
       ELSE /\ IF Head(dl).kind = "handover"
               THEN /\ ue' = [ue EXCEPT !.st = "CONNECTED_HANDOVER",
                                        !.cell = Head(dl).cell,
                                        !.rnti = Head(dl).rnti,
                                        !.from = <<ue.cell, ue.rnti>>]
                    /\ dl' = <<>> /\ ul' = <<>>
               ELSE /\ dl' = Tail(dl)
                    /\ ul' = Append(ul, "completed")
                    /\ UNCHANGED ue
            /\ UNCHANGED <<gnbVars, x2, s1, now, failures, fault>>

\* The gNB answers the UE's preamble: the dedicated one with the RNTI of the
\* context, any other with a new context.  The UE takes the RNTI of the answer
\* and reports the handover complete, or asks for a connection.
Answered(r) ==
    \/ /\ ue.st = "CONNECTED_HANDOVER"
       /\ ue' = [ue EXCEPT !.st = "CONNECTED_NORMALLY", !.rnti = r]
       /\ ul' = <<"completed">>
    \/ /\ ue.st = "IDLE_RANDOM_ACCESS"
       /\ ue' = [ue EXCEPT !.st = "IDLE_CONNECTING", !.rnti = r]
       /\ ul' = <<"request">>

RandomAccessSucceeds ==
    /\ Running /\ ue.st \in {"CONNECTED_HANDOVER", "IDLE_RANDOM_ACCESS"}
    /\ \/ /\ Exists(ue.cell, ue.rnti)
          /\ Answered(ue.rnti)
          /\ UNCHANGED gnbVars
       \/ /\ ~Exists(ue.cell, ue.rnti) /\ last[ue.cell] < MaxRnti
          /\ LET r == last[ue.cell] + 1
             IN  /\ Answered(r)
                 /\ last' = [last EXCEPT ![ue.cell] = r]
                 /\ ctx' = [ctx EXCEPT ![ue.cell][r] =
                        [NoCtx EXCEPT !.st = "INITIAL_RANDOM_ACCESS", !.timer = "request"]]
          /\ UNCHANGED <<teid, imsiRnti>>
    /\ UNCHANGED <<dl, x2, s1, now, failures, fault>>

\* DoNotifyRandomAccessFailed in CONNECTED_HANDOVER.
RandomAccessFails ==
    /\ Running /\ ue.st = "CONNECTED_HANDOVER" /\ ~ue.left
    /\ now' = Append(now, RemoveRequest)
    /\ Leave
    /\ UNCHANGED <<gnbVars, x2, s1, failures, fault>>

\* The states in which RecvRrcConnectionReconfigurationCompleted is expected.
ExpectsCompleted ==
    {"CONNECTION_RECONFIGURATION", "CONNECTED_NORMALLY", "HANDOVER_LEAVING", "HANDOVER_JOINING"}

\* RecvRrcConnectionReconfigurationCompleted: the UE has joined and the path is
\* switched, or an ordinary reconfiguration is over.  The gNB MAC, which the
\* message passes first, asserts that the context is there.
\* Mutant: the joining timer is not cancelled.
JoinsTimed(c) == [c EXCEPT !.st = "HANDOVER_PATH_SWITCH"]

Joins(c) == [c EXCEPT !.st = "HANDOVER_PATH_SWITCH", !.timer = "none"]

RecvReconfigurationCompleted ==
    /\ Running /\ ul # <<>> /\ Head(ul) = "completed"
    /\ LET g == ue.cell
           r == ue.rnti
           c == ctx[g][r]
       IN  IF c.st \notin ExpectsCompleted THEN Abort("completed")
           ELSE /\ ul' = Tail(ul)
                /\ \/ /\ c.st = "HANDOVER_JOINING"
                      /\ ctx' = [ctx EXCEPT ![g][r] = Joins(@)]
                      /\ imsiRnti' = [imsiRnti EXCEPT ![g] = r]
                      /\ s1' = Append(s1, [kind |-> "switched", gnb |-> g])
                      /\ UNCHANGED dl
                   \/ /\ c.st = "CONNECTION_RECONFIGURATION"
                      /\ ctx' = [ctx EXCEPT ![g][r] = Connected(@)]
                      /\ Reconfigures(g, r)
                      /\ UNCHANGED <<imsiRnti, s1>>
                   \/ /\ c.st \in {"CONNECTED_NORMALLY", "HANDOVER_LEAVING"}
                      /\ UNCHANGED <<ctx, imsiRnti, s1, dl>>
                /\ UNCHANGED <<last, teid, ue, x2, now, failures, fault>>

\* DoPathSwitchRequestAcknowledge and SendUeContextRelease: the source is told
\* to delete its context, and the reconfiguration the bearers left goes out.
RecvPathSwitchAck ==
    /\ Running /\ s1 # <<>> /\ Head(s1).kind = "switched"
    /\ LET g == Head(s1).gnb
           r == imsiRnti[g]
       IN  IF ~Exists(g, r) \/ ctx[g][r].st # "HANDOVER_PATH_SWITCH"
           THEN Abort("path_switch_ack")
           ELSE /\ x2' = [x2 EXCEPT ![g][ctx[g][r].peer] =
                                Append(@, Msg("context_release", ctx[g][r].peerId, r))]
                /\ ctx' = [ctx EXCEPT ![g][r] = Connected(@)]
                /\ Reconfigures(g, r)
                /\ s1' = Tail(s1)
                /\ UNCHANGED <<last, teid, imsiRnti, ue, ul, now, failures, fault>>

\* DoRecvUeContextRelease: the context must be the one the UE left.
RecvUeContextRelease(t, g) ==
    /\ Arrives(t, g, "context_release")
    /\ LET r == Head(x2[t][g]).old
       IN  IF Exists(g, r) /\ ctx[g][r].st # "HANDOVER_LEAVING"
           THEN Abort("context_release")
           ELSE /\ IF Exists(g, r) THEN RemoveUe(g, r) ELSE UNCHANGED gnbVars
                /\ x2' = Take(t, g)
                /\ UNCHANGED <<ueVars, s1, now, failures, fault>>

-----------------------------------------------------------------------------

(***************************************************************************)
(* Timers.                                                                 *)
(***************************************************************************)

\* Mutant: the source is told and the context stays.
JoiningTimeoutKeeps(g, r) ==
    /\ Running /\ ctx[g][r].timer = "joining"
    /\ x2' = [x2 EXCEPT ![g][ctx[g][r].peer] =
                    Append(@, Msg("failure", ctx[g][r].peerId, 0))]
    /\ ctx' = [ctx EXCEPT ![g][r].timer = "none"]
    /\ UNCHANGED <<last, teid, imsiRnti, ueVars, s1, now, failures, fault>>

\* HandoverJoiningTimeout: the source is told and the context goes.
JoiningTimeout(g, r) ==
    /\ Running /\ ctx[g][r].timer = "joining"
    /\ IF ctx[g][r].st # "HANDOVER_JOINING" THEN Abort("joining_timeout")
       ELSE /\ x2' = [x2 EXCEPT ![g][ctx[g][r].peer] =
                            Append(@, Msg("failure", ctx[g][r].peerId, 0))]
            /\ RemoveUe(g, r)
            /\ UNCHANGED <<ueVars, s1, now, failures, fault>>

\* With the default durations the target's timer, and what follows from it,
\* comes before the source's.
TargetDone(g, r) ==
    /\ s1 = <<>>
    /\ \A t \in Gnb : x2[g][t] = <<>> /\ x2[t][g] = <<>>
    /\ \A q \in Rnti : ctx[ctx[g][r].peer][q].timer = "none"

\* HandoverLeavingTimeout: the target is told, the UE released.
LeavingTimeout(g, r) ==
    /\ Running /\ ctx[g][r].timer = "leaving"
    /\ leavingLast => TargetDone(g, r)
    /\ IF ctx[g][r].st # "HANDOVER_LEAVING" THEN Abort("leaving_timeout")
       ELSE /\ x2' = [x2 EXCEPT ![g][ctx[g][r].peer] =
                            Append(@, Msg("cancel", r, ctx[g][r].peerId))]
            /\ SendRrcConnectionRelease(g, r)
            /\ UNCHANGED <<ueVars, s1, failures, fault>>

\* DoRecvHandoverCancel: the timer is cancelled and the bearers of the context
\* are released in the core network; the context stays.
Cancelled(c) == [c EXCEPT !.timer = "none"]

RecvHandoverCancel(s, g) ==
    /\ Arrives(s, g, "cancel")
    /\ LET r == Head(x2[s][g]).new
       IN  IF Exists(g, r) /\ ctx[g][r].st # "HANDOVER_JOINING" THEN Abort("cancel")
           ELSE /\ ctx' = IF Exists(g, r) THEN [ctx EXCEPT ![g][r] = Cancelled(@)] ELSE ctx
                /\ x2' = Take(s, g)
                /\ UNCHANGED <<last, teid, imsiRnti, ueVars, s1, now, failures, fault>>

\* The states the three timers of a set-up guard.
Guards(timer) ==
    CASE timer = "request"  -> "INITIAL_RANDOM_ACCESS"
      [] timer = "setup"    -> "CONNECTION_SETUP"
      [] timer = "rejected" -> "CONNECTION_REJECTED"

\* ConnectionRequestTimeout, ConnectionSetupTimeout, ConnectionRejectedTimeout.
SetupTimeout(g, r) ==
    /\ Running /\ ctx[g][r].timer \in {"request", "setup", "rejected"}
    /\ IF ctx[g][r].st # Guards(ctx[g][r].timer) THEN Abort("setup_timeout")
       ELSE /\ RemoveUe(g, r)
            /\ UNCHANGED <<ueVars, x2, s1, now, failures, fault>>

-----------------------------------------------------------------------------

(***************************************************************************)
(* Release, radio link failure and data.                                   *)
(***************************************************************************)

\* DoRecvRrcConnectionRelease: nothing when the UE has left already.
UeRecvRelease ==
    /\ fault = "none" /\ now # <<>> /\ Head(now).kind = "release"
    /\ IF ue.left
       THEN now' = Tail(now) /\ UNCHANGED ueVars
       ELSE now' = Append(Tail(now), RemoveRequest) /\ Leave
    /\ UNCHANGED <<gnbVars, x2, s1, failures, fault>>

\* DoRecvIdealUeContextRemoveRequest: a context that waits for the UE tells the
\* source first.
RecvRemoveRequest ==
    /\ fault = "none" /\ now # <<>> /\ Head(now).kind = "remove"
    /\ now' = Tail(now)
    /\ LET g == Head(now).cell
           r == Head(now).rnti
       IN  \/ /\ ~Exists(g, r)
              /\ UNCHANGED <<gnbVars, x2>>
           \/ /\ Exists(g, r)
              /\ x2' = IF ctx[g][r].st = "HANDOVER_JOINING"
                       THEN [x2 EXCEPT ![g][ctx[g][r].peer] =
                                Append(@, Msg("failure", ctx[g][r].peerId, 0))]
                       ELSE x2
              /\ RemoveUe(g, r)
    /\ UNCHANGED <<ueVars, s1, failures, fault>>

\* RadioLinkFailureDetected, when T310 expires.
RadioLinkFailure ==
    /\ Running /\ ~ue.left /\ failures < MaxFailures
    /\ failures' = failures + 1
    /\ now' = Append(now, RemoveRequest)
    /\ Leave
    /\ UNCHANGED <<gnbVars, x2, s1, fault>>

\* SendData in HANDOVER_LEAVING; one packet in flight at a time.
ForwardData(g, r) ==
    /\ Running /\ Forwards
    /\ ctx[g][r].st = "HANDOVER_LEAVING"
    /\ LET t == ctx[g][r].peer
       IN  /\ \A i \in DOMAIN x2[g][t] : x2[g][t][i].kind # "data"
           /\ x2' = [x2 EXCEPT ![g][t] = Append(@, Msg("data", 0, 0))]
    /\ UNCHANGED <<gnbVars, ueVars, s1, now, failures, fault>>

\* DoRecvUeData: the tunnel must be known.
RecvUeData(s, g) ==
    /\ Arrives(s, g, "data")
    /\ IF teid[g] = 0 THEN Abort("data")
       ELSE /\ x2' = Take(s, g)
            /\ UNCHANGED <<gnbVars, ueVars, s1, now, failures, fault>>

-----------------------------------------------------------------------------

(***************************************************************************)
(* The set-up of a connection.                                             *)
(***************************************************************************)

\* StartConnection, after a cell selection and the cell's system information:
\* that takes longer than any message on X2 or S1.
StartConnection(g) ==
    /\ Running /\ Settled /\ ue.st = "IDLE" /\ last[g] < MaxRnti
    /\ ue' = [IdleUe EXCEPT !.st = "IDLE_RANDOM_ACCESS", !.cell = g]
    /\ UNCHANGED <<gnbVars, dl, ul, x2, s1, now, failures, fault>>

\* RecvRrcConnectionRequest, admitted or refused.
RecvConnectionRequest ==
    /\ Running /\ ul # <<>> /\ Head(ul) = "request"
    /\ LET g == ue.cell
           r == ue.rnti
       IN  IF ~Exists(g, r) THEN Abort("uplink")
           ELSE IF ctx[g][r].st # "INITIAL_RANDOM_ACCESS" THEN Abort("connection_request")
           ELSE /\ ul' = Tail(ul)
                /\ \/ /\ ctx' = [ctx EXCEPT ![g][r].st = "CONNECTION_SETUP",
                                             ![g][r].timer = "setup"]
                      /\ dl' = Append(dl, [kind |-> "setup"])
                   \/ /\ ctx' = [ctx EXCEPT ![g][r].st = "CONNECTION_REJECTED",
                                             ![g][r].timer = "rejected"]
                      /\ dl' = Append(dl, [kind |-> "reject"])
                /\ UNCHANGED <<last, teid, imsiRnti, ue, x2, s1, now, failures, fault>>

\* DoRecvRrcConnectionSetup: T300 is cancelled.
UeRecvSetup ==
    /\ Running /\ dl # <<>> /\ Head(dl).kind = "setup"
    /\ IF ue.st # "IDLE_CONNECTING" THEN Abort("UE_setup")
       ELSE /\ ue' = [ue EXCEPT !.st = "CONNECTED_NORMALLY", !.left = FALSE]
            /\ dl' = Tail(dl)
            /\ ul' = Append(ul, "setup_completed")
            /\ UNCHANGED <<gnbVars, x2, s1, now, failures, fault>>

\* The MAC is reset, the NAS asks for the connection again.
TriesAgain ==
    /\ ue' = [ue EXCEPT !.st = "IDLE_RANDOM_ACCESS", !.rnti = 0]
    /\ dl' = <<>> /\ ul' = <<>>

\* DoRecvRrcConnectionReject.
UeRecvReject ==
    /\ Running /\ dl # <<>> /\ Head(dl).kind = "reject"
    /\ TriesAgain
    /\ UNCHANGED <<gnbVars, x2, s1, now, failures, fault>>

\* ConnectionTimeout, when T300 expires: another attempt in the cell, or, after
\* as many as the cell allows, the UE leaves without a word to the gNB.  T300
\* lasts 100 ms at least, the timer for the request 15 ms at most.
ConnectionTimeout ==
    /\ Running /\ ue.st = "IDLE_CONNECTING"
    /\ Exists(ue.cell, ue.rnti) => ctx[ue.cell][ue.rnti].timer # "request"
    /\ TriesAgain \/ Leave
    /\ UNCHANGED <<gnbVars, x2, s1, now, failures, fault>>

\* RecvRrcConnectionSetupCompleted and the MME's InitialUeMessage.
RecvSetupCompleted ==
    /\ Running /\ ul # <<>> /\ Head(ul) = "setup_completed"
    /\ LET g == ue.cell
           r == ue.rnti
       IN  IF ~Exists(g, r) THEN Abort("uplink")
           ELSE IF ctx[g][r].st # "CONNECTION_SETUP" THEN Abort("setup_completed")
           ELSE /\ ul' = Tail(ul)
                /\ ctx' = [ctx EXCEPT ![g][r].st = "ATTACH_REQUEST", ![g][r].timer = "none"]
                /\ imsiRnti' = [imsiRnti EXCEPT ![g] = r]
                /\ s1' = Append(s1, [kind |-> "attached", gnb |-> g])
                /\ UNCHANGED <<last, teid, ue, dl, x2, now, failures, fault>>

\* DoInitialContextSetupRequest: the bearers leave a reconfiguration waiting,
\* which goes out as the context is connected.
RecvInitialContextSetup ==
    /\ Running /\ s1 # <<>> /\ Head(s1).kind = "attached"
    /\ LET g == Head(s1).gnb
           r == imsiRnti[g]
       IN  IF ~Exists(g, r) THEN Abort("initial_context_setup")
           ELSE IF ctx[g][r].st # "ATTACH_REQUEST" THEN Abort("attach")
           ELSE /\ s1' = Tail(s1)
                /\ ctx' = [ctx EXCEPT ![g][r] = Connected([@ EXCEPT !.pend = TRUE])]
                /\ dl' = IF UeAt(g, r) THEN Append(dl, [kind |-> "reconf"]) ELSE dl
                /\ UNCHANGED <<last, teid, imsiRnti, ue, ul, x2, now, failures, fault>>

\* A message on SRB0 is lost.
LoseSrb0 ==
    /\ Running
    /\ \/ ul # <<>> /\ Head(ul) = "request" /\ ul' = Tail(ul) /\ UNCHANGED dl
       \/ dl # <<>> /\ Head(dl).kind \in {"setup", "reject"} /\ dl' = Tail(dl) /\ UNCHANGED ul
    /\ UNCHANGED <<gnbVars, ue, x2, s1, now, failures, fault>>

-----------------------------------------------------------------------------

\* The UE is connected.
Init ==
    \E g \in First :
        /\ ctx = [h \in Gnb |-> [r \in Rnti |->
                    IF h = g /\ r = 1 THEN [NoCtx EXCEPT !.st = "CONNECTED_NORMALLY"]
                                      ELSE NoCtx]]
        /\ last = [h \in Gnb |-> IF h = g THEN 1 ELSE 0]
        /\ imsiRnti = [h \in Gnb |-> IF h = g THEN 1 ELSE 0]
        /\ ue = [IdleUe EXCEPT !.st = "CONNECTED_NORMALLY", !.cell = g,
                               !.rnti = 1, !.left = FALSE]
        /\ teid = [h \in Gnb |-> 0]
        /\ dl = <<>> /\ ul = <<>>
        /\ x2 = [s \in Gnb |-> [t \in Gnb |-> <<>>]]
        /\ s1 = <<>> /\ now = <<>>
        /\ failures = 0 /\ fault = "none"
        /\ leavingLast \in Orders

Preparation ==
    \/ \E g, t \in Gnb, r \in Rnti : TriggerHandover(g, r, t)
    \/ \E s, t \in Gnb : RefuseHandover(s, t)
    \/ \E s, t \in Gnb : AdmitHandover(s, t)
    \/ \E t, g \in Gnb : RecvHandoverRequestAck(t, g)
    \/ \E t, g \in Gnb : RecvHandoverPreparationFailure(t, g)

Execution ==
    \/ UeRecvReconfiguration
    \/ RandomAccessSucceeds
    \/ RandomAccessFails
    \/ RecvReconfigurationCompleted
    \/ RecvPathSwitchAck
    \/ \E t, g \in Gnb : RecvUeContextRelease(t, g)

Timers ==
    \/ \E g \in Gnb, r \in Rnti : JoiningTimeout(g, r)
    \/ \E g \in Gnb, r \in Rnti : LeavingTimeout(g, r)
    \/ \E s, g \in Gnb : RecvHandoverCancel(s, g)
    \/ \E g \in Gnb, r \in Rnti : SetupTimeout(g, r)

Connection ==
    \/ UeRecvRelease
    \/ RecvRemoveRequest
    \/ RadioLinkFailure
    \/ \E g \in Gnb, r \in Rnti : ForwardData(g, r)
    \/ \E s, g \in Gnb : RecvUeData(s, g)

SetUp ==
    \/ \E g \in Gnb : StartConnection(g)
    \/ RecvConnectionRequest
    \/ UeRecvSetup
    \/ UeRecvReject
    \/ ConnectionTimeout
    \/ RecvSetupCompleted
    \/ RecvInitialContextSetup
    \/ LoseSrb0

Next ==
    /\ Preparation \/ Execution \/ Timers \/ Connection \/ SetUp
    /\ UNCHANGED leavingLast

Spec == Init /\ [][Next]_<<vars, leavingLast>>

(***************************************************************************)
(* Messages on X2 and S1 arrive, timers expire, scheduled calls run, and a *)
(* random access ends one way or the other.  Nothing is assumed of the     *)
(* radio link, of measurements or of traffic.                              *)
(***************************************************************************)
X2Arrives(s, t) ==
    \/ RefuseHandover(s, t) \/ AdmitHandover(s, t)
    \/ RecvHandoverRequestAck(s, t) \/ RecvHandoverPreparationFailure(s, t)
    \/ RecvUeContextRelease(s, t) \/ RecvHandoverCancel(s, t) \/ RecvUeData(s, t)

Fairness ==
    /\ \A s, t \in Gnb : WF_vars(X2Arrives(s, t))
    /\ \A g \in Gnb, r \in Rnti :
            WF_vars(JoiningTimeout(g, r) \/ LeavingTimeout(g, r) \/ SetupTimeout(g, r))
    /\ WF_vars(RecvPathSwitchAck \/ RecvInitialContextSetup)
    /\ WF_vars(UeRecvRelease \/ RecvRemoveRequest)
    /\ WF_vars(RandomAccessSucceeds \/ RandomAccessFails)

FairSpec == Spec /\ Fairness

-----------------------------------------------------------------------------

ContextType ==
    [st : {"NONE", "INITIAL_RANDOM_ACCESS", "CONNECTION_SETUP",
           "CONNECTION_REJECTED", "ATTACH_REQUEST", "CONNECTED_NORMALLY",
           "CONNECTION_RECONFIGURATION", "HANDOVER_PREPARATION",
           "HANDOVER_JOINING", "HANDOVER_PATH_SWITCH", "HANDOVER_LEAVING"},
     peer : Gnb \cup {NoCell}, peerId : 0 .. MaxRnti,
     timer : {"none", "joining", "leaving", "request", "setup", "rejected"},
     pend : BOOLEAN]

UeType ==
    [st : {"IDLE", "IDLE_RANDOM_ACCESS", "IDLE_CONNECTING",
           "CONNECTED_NORMALLY", "CONNECTED_HANDOVER"},
     cell : Gnb \cup {NoCell}, rnti : 0 .. MaxRnti, left : BOOLEAN,
     from : (Gnb \cup {NoCell}) \X (0 .. MaxRnti)]

\* A timer runs in the state it guards only.
Guarded(c) ==
    c.timer # "none" =>
        <<c.timer, c.st>> \in
            {<<"joining", "HANDOVER_JOINING">>, <<"leaving", "HANDOVER_LEAVING">>,
             <<"request", "INITIAL_RANDOM_ACCESS">>, <<"setup", "CONNECTION_SETUP">>,
             <<"rejected", "CONNECTION_REJECTED">>}

TypeOK ==
    /\ ctx \in [Gnb -> [Rnti -> ContextType]]
    /\ last \in [Gnb -> 0 .. MaxRnti]
    /\ teid \in [Gnb -> 0 .. MaxRnti]
    /\ imsiRnti \in [Gnb -> 0 .. MaxRnti]
    /\ ue \in UeType
    /\ Len(dl) <= 2 /\ Len(ul) <= 2
    /\ \A g \in Gnb, r \in Rnti : Guarded(ctx[g][r])

(***************************************************************************)
(* No message between the gNBs, no timer and no message to the UE meets a  *)
(* context or a UE in a state its handler does not allow: the NS_FATAL_ERROR *)
(* and the assertions in RecvHandoverPreparationFailure,                   *)
(* RecvUeContextRelease, RecvHandoverCancel, the five timeouts,            *)
(* DoRecvRrcConnectionReconfiguration, DoRecvRrcConnectionSetup,           *)
(* RecvRrcConnectionRequest, RecvRrcConnectionSetupCompleted and           *)
(* InitialContextSetupRequest are never reached, in whatever order         *)
(* failures, timers and answers come.                                      *)
(***************************************************************************)
AnswersExpected ==
    fault \notin {"preparation_failure", "context_release", "cancel", "joining_timeout",
                  "leaving_timeout", "setup_timeout", "UE_reconfiguration", "UE_setup",
                  "connection_request", "setup_completed", "attach"}

(***************************************************************************)
(* The X2-U tunnel of an earlier handover is never in the way of a later   *)
(* one: the assertion "overwriting a pre-existing entry in                 *)
(* m_x2uTeidInfoMap" of SetupDataRadioBearer holds after any sequence of   *)
(* failed and completed handovers, with the default order of the timers.   *)
(***************************************************************************)
TunnelFree == leavingLast => fault # "tunnel"

(***************************************************************************)
(* A connected UE whose context the gNB has deleted does not stay that way: *)
(* the context it left still has its leaving timer, or the release is under *)
(* way (HandoverJoiningTimeout races the UE's completion message), or its  *)
(* message that completes the set-up is still to meet the missing context. *)
(***************************************************************************)
NotOrphaned ==
    (fault = "none" /\ ue.st = "CONNECTED_NORMALLY" /\ ~Exists(ue.cell, ue.rnti)) =>
        \/ \E i \in DOMAIN now : now[i].kind = "release"
        \/ \E g \in Gnb, r \in Rnti : ctx[g][r].timer = "leaving"
        \/ \E i \in DOMAIN ul : ul[i] = "setup_completed"

(***************************************************************************)
(* The contexts, their timers and the UE fit together after every event.   *)
(***************************************************************************)
ContextInv == TypeOK /\ NotOrphaned

(***************************************************************************)
(* The release one context sends ends no other connection of the UE than   *)
(* the one of that context, or the one the handover out of it led to       *)
(* (SendRrcConnectionRelease reaches the UE wherever it is).               *)
(***************************************************************************)
OwnReleaseStep ==
    (UeRecvRelease /\ ~ue.left) =>
        \/ UeAt(Head(now).cell, Head(now).rnti)
        \/ ue.from = <<Head(now).cell, Head(now).rnti>>
OwnRelease == [][OwnReleaseStep]_vars

(***************************************************************************)
(* Every context the UE does not use is deleted in the end, whichever of   *)
(* the two gNBs, the UE and the radio link failed, unless the UE comes to   *)
(* use it or the program aborts, with the default order of the timers.     *)
(***************************************************************************)
Stale(g, r) == Exists(g, r) /\ ~UeAt(g, r)
NoStaleContext ==
    \A g \in Gnb, r \in Rnti :
        leavingLast /\ Stale(g, r) ~> (~Stale(g, r) \/ fault # "none")

(***************************************************************************)
(* The UE manager an acknowledgement is for exists: the assertion of       *)
(* GetUeManager, on the way of a HANDOVER REQUEST ACK, of a path switch     *)
(* acknowledgement and of an INITIAL CONTEXT SETUP REQUEST.                *)
(***************************************************************************)
AckFindsUe == fault \notin {"request_ack", "path_switch_ack", "initial_context_setup"}

(***************************************************************************)
(* Data forwarded over X2-U finds its tunnel at the target (DoRecvUeData). *)
(***************************************************************************)
DataFindsTunnel == fault # "data"

(***************************************************************************)
(* The UE's requests and completion messages meet a context that waits for *)
(* them (RecvRrcConnectionReconfigurationCompleted, and the assertion of the *)
(* gNB MAC that it knows the sender).                                      *)
(***************************************************************************)
CompletedExpected == fault \notin {"completed", "uplink"}

(***************************************************************************)
(* "After accepting a handover request, if no RRC CONNECTION               *)
(* RECONFIGURATION COMPLETE is received before this time, the UE context is *)
(* destroyed": a context that waits for the UE has its timer running.      *)
(***************************************************************************)
JoiningIsTimed ==
    \A g \in Gnb, r \in Rnti :
        ctx[g][r].st = "HANDOVER_JOINING" => ctx[g][r].timer = "joining"

(***************************************************************************)
(* "The gNB connection request timer would expire before the expiration of *)
(* T300 at UE. Upon which, the gNB deletes the UE context": a UE that gives *)
(* up at T300 leaves no context behind (ConnectionTimeout).                *)
(***************************************************************************)
GoneAtT300 ==
    [][ConnectionTimeout /\ ue'.st = "IDLE" => ~Exists(ue.cell, ue.rnti)]_vars
=============================================================================

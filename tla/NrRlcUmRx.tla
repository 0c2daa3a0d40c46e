------------------------------ MODULE NrRlcUmRx ------------------------------
(***************************************************************************)
(* The receiver of RLC UM (nr-rlc-um.cc): the reordering window over       *)
(* sequence numbers that wrap, t-Reordering, and the reassembly of SDUs.   *)
(*                                                                         *)
(* A PDU carries its absolute number n, of which the code sees n % M, and  *)
(* the pieces of the SDUs it was built from.  The peer that builds PDUs is *)
(* NrRlcUmTx, reduced to the framing it guarantees.  HARQ loses PDUs and   *)
(* lets one be overtaken by at most Lag newer ones.                        *)
(***************************************************************************)
EXTENDS Integers, SequencesExt

CONSTANTS
    M,          \* SNs, 1024 in nr-rlc-sequence-number.h
    W,          \* m_windowSize, 512
    Lag,        \* newer PDUs a PDU on its way may be overtaken by
    Gap,        \* PDUs that may be missing in a row
    MaxRun,     \* PDUs the peer builds within one t-Reordering
    MaxPdus,    \* bound on the PDUs built
    MaxPieces,  \* bound on the SDUs in a PDU
    MaxSegs     \* bound on the segments of an SDU

ASSUME SnAssumption == M \in Nat \ {0} /\ W \in 1..(M - 1)
ASSUME BoundAssumption ==
    /\ Lag \in Nat /\ Gap \in Nat /\ MaxRun \in Nat /\ MaxPdus \in Nat
    /\ MaxPieces \in Nat \ {0} /\ MaxSegs \in Nat \ {0}

VARIABLES
    next,       \* number of the next PDU; m_sequenceNumber of the peer is next % M
    cur,        \* next piece the peer sends: SDU and segment
    air,        \* PDUs in HARQ
    heard,      \* one more than the largest PDU number received
    run,        \* PDUs built since t-Reordering was started
    vrUr, vrUx, vrUh,
    rxBuffer,   \* m_rxBuffer: SNs to PDUs
    timer,      \* m_reorderingTimer is pending
    expected,   \* m_expectedSeqNumber
    state,      \* m_reassemblingState
    keepS0,     \* pieces of m_keepS0, while WAITING_SI_SF
    sdusBuffer, \* what a PDU left in m_sdusBuffer
    top,        \* largest SDU delivered before the last step
    up          \* SDUs the last step gave to PDCP, each the sequence of its pieces

linkVars == <<next, cur, air, heard, run>>
window == <<vrUr, vrUx, vrUh, timer>>
reassembly == <<expected, state, keepS0, sdusBuffer>>
vars == <<linkVars, window, rxBuffer, reassembly, top, up>>

SNs == 0..(M - 1)
Piece == [sdu : Nat, seg : 1..MaxSegs, last : BOOLEAN]
Pdu == [n : Nat, pieces : Seq(Piece)]

(* Type invariant; sdusBuffer is empty between two PDUs. *)
TypeOK ==
    /\ next \in Nat /\ heard \in 0..next /\ run \in 0..MaxRun
    /\ cur \in [sdu : Nat, seg : 1..MaxSegs]
    /\ \A p \in air : p \in Pdu /\ p.n < next
    /\ vrUr \in SNs /\ vrUx \in SNs /\ vrUh \in SNs /\ timer \in BOOLEAN
    /\ DOMAIN rxBuffer \subseteq SNs
    /\ \A sn \in DOMAIN rxBuffer : rxBuffer[sn] \in Pdu /\ rxBuffer[sn].n % M = sn
    /\ expected \in SNs /\ state \in {"WAITING_S0_FULL", "WAITING_SI_SF"}
    /\ keepS0 \in Seq(Piece) /\ (state = "WAITING_SI_SF" <=> keepS0 # <<>>)
    /\ sdusBuffer = <<>>
    /\ top \in Nat /\ up \in Seq(Seq(Piece))

Init ==
    /\ next = 0 /\ cur = [sdu |-> 1, seg |-> 1] /\ air = {} /\ heard = 0 /\ run = 0
    /\ vrUr = 0 /\ vrUx = 0 /\ vrUh = 0 /\ timer = FALSE
    /\ rxBuffer = <<>>
    /\ expected = 0 /\ state = "WAITING_S0_FULL" /\ keepS0 = <<>> /\ sdusBuffer = <<>>
    /\ top = 0 /\ up = <<>>

-----------------------------------------------------------------------------
(* The peer and the link. *)

(* k SDUs, all but the last to their end, the last one too if fin. *)
Pieces(k, fin) ==
    [i \in 1..k |-> [sdu |-> cur.sdu + i - 1, seg |-> IF i = 1 THEN cur.seg ELSE 1,
                     last |-> i < k \/ fin]]

(* Overtaking, missing runs and building are bounded by time in the code. *)
MayBuild ==
    /\ next < MaxPdus
    /\ \A p \in air : next - p.n <= Lag
    /\ next - heard < Gap
    /\ timer => run < MaxRun

BuildPdu(k, fin) ==
    LET pieces == Pieces(k, fin)
        end == pieces[k]
    IN  /\ MayBuild
        /\ ~fin => end.seg < MaxSegs
        /\ air' = air \cup {[n |-> next, pieces |-> pieces]}
        /\ next' = next + 1
        /\ cur' = IF fin THEN [sdu |-> end.sdu + 1, seg |-> 1]
                  ELSE [sdu |-> end.sdu, seg |-> end.seg + 1]
        /\ run' = IF timer THEN run + 1 ELSE 0
        /\ UNCHANGED <<heard, window, rxBuffer, reassembly, top, up>>

Lose(p) ==
    /\ air' = air \ {p}
    /\ UNCHANGED <<next, cur, heard, run, window, rxBuffer, reassembly, top, up>>

-----------------------------------------------------------------------------
(* SequenceNumber10. *)
Plus(sn, d) == IF sn + d < M THEN sn + d ELSE sn + d - M
Minus(sn, d) == IF sn >= d THEN sn - d ELSE sn - d + M
(* What operator> compares: the distance from the modulus base. *)
Rel(sn, base) == Minus(sn, base)

Base(uh) == Minus(uh, W)
IsInsideReorderingWindow(sn, uh) == Rel(sn, Base(uh)) < W

(***************************************************************************)
(* ReassembleAndDeliver.  items are the SDUs the PDU begins, ends or       *)
(* carries: its first piece completes what is kept when nothing is missing *)
(* between, and is dropped when its SDU has lost its start.  The last item *)
(* is kept unless its SDU ends in the PDU.                                 *)
(***************************************************************************)
Single(pieces) == [i \in 1..Len(pieces) |-> <<pieces[i]>>]
Begins(pdu) == pdu.pieces[1].seg = 1
Ends(pdu) == Last(pdu.pieces).last

JoinsAlways(r, pdu) == r.state = "WAITING_SI_SF"              \* mutated form
Joins(r, pdu) == pdu.n % M = r.expected /\ r.state = "WAITING_SI_SF"
Items(r, pdu) ==
    LET sdus == r.sdus \o pdu.pieces
    IN  IF Joins(r, pdu) THEN <<Append(r.keep, Head(sdus))>> \o Single(Tail(sdus))
        ELSE IF Begins(pdu) THEN Single(sdus) ELSE Single(Tail(sdus))

ReassembleAndDeliver(r, pdu) ==
    LET items == Items(r, pdu)
        done == Ends(pdu) \/ items = <<>>
        after == Plus(pdu.n % M, 1)
    IN  IF Joins(r, pdu) /\ Begins(pdu)  \* "INTERNAL ERROR: Transition not possible"
        THEN [r EXCEPT !.expected = after, !.sdus = @ \o pdu.pieces]
        ELSE [expected |-> after,
              state |-> IF done THEN "WAITING_S0_FULL" ELSE "WAITING_SI_SF",
              keep |-> IF done THEN <<>> ELSE Last(items),
              sdus |-> <<>>,
              up |-> r.up \o (IF done THEN items ELSE Front(items))]

Reassembler == [expected |-> expected, state |-> state, keep |-> keepS0,
                sdus |-> sdusBuffer, up |-> <<>>]

(* r after the PDUs of buf at the SNs sns, visited in the order of their  *)
(* SNs from the SN first on.                                               *)
Reassembled(r, buf, sns, first) ==
    LET after[i \in 0..M] ==
            IF i = 0 THEN r
            ELSE IF Plus(first, i - 1) \in sns
            THEN ReassembleAndDeliver(after[i - 1], buf[Plus(first, i - 1)])
            ELSE after[i - 1]
    IN  after[M]
Without(buf, sns) == [sn \in DOMAIN buf \ sns |-> buf[sn]]

(* ReassembleOutsideWindow walks m_rxBuffer in the order of its keys and   *)
(* stops at the first one inside the window.                               *)
OutsideWindow(buf, uh) ==
    {sn \in DOMAIN buf :
        \A o \in DOMAIN buf : o <= sn => ~IsInsideReorderingWindow(o, uh)}

(* ReassembleSnInterval; both ends are compared relative to base. *)
SnInterval(buf, low, high, base) ==
    {sn \in DOMAIN buf : Rel(low, base) <= Rel(sn, base) /\ Rel(sn, base) < Rel(high, base)}

(* What has been reassembled goes to PDCP, the rest is kept. *)
Deliver(r) ==
    /\ expected' = r.expected /\ state' = r.state
    /\ keepS0' = r.keep /\ sdusBuffer' = r.sdus
    /\ up' = r.up
    /\ top' = IF up = <<>> THEN top ELSE Last(up)[1].sdu

-----------------------------------------------------------------------------
(* Mutated form: a PDU behind VR(UR) is not recognised as late. *)
DiscardsDuplicates(sn) ==
    /\ sn \in DOMAIN rxBuffer
    /\ Rel(vrUr, Base(vrUh)) < Rel(sn, Base(vrUh)) /\ Rel(sn, Base(vrUh)) < W
(* 5.1.2.2.2: behind VR(UR), or there already. *)
Discards(sn) ==
    \/ sn \in DOMAIN rxBuffer
       /\ Rel(vrUr, Base(vrUh)) < Rel(sn, Base(vrUh)) /\ Rel(sn, Base(vrUh)) < W
    \/ Rel(sn, Base(vrUh)) < Rel(vrUr, Base(vrUh))

(* The first SN from sn on that is not in the buffer.  newVrUr is an       *)
(* uint16_t counted past the last SN, which is in no buffer: the run ends  *)
(* at the wrap.                                                            *)
FirstMissing(buf, sn) ==
    (CHOOSE k \in sn..M : k \notin DOMAIN buf /\ \A j \in sn..(k - 1) : j \in DOMAIN buf) % M

(* t-Reordering after a PDU or its expiry, and VR(UX) with it. *)
StillRuns(ur, uh) ==
    /\ timer
    /\ Rel(ur, Base(uh)) < Rel(vrUx, Base(uh))
    /\ IsInsideReorderingWindow(vrUx, uh) \/ vrUx = uh
(* Mutated form: whether the timer is pending is looked up before its stop. *)
TimerSeenEarly(running, ur, uh) ==
    LET starts == ~timer /\ Rel(ur, Base(uh)) < Rel(uh, Base(uh))
    IN  /\ timer' = (running \/ starts)
        /\ vrUx' = IF starts THEN uh ELSE vrUx
        /\ run' = IF running THEN run ELSE 0
ReorderingTimer(running, ur, uh) ==
    LET starts == ~running /\ Rel(ur, Base(uh)) < Rel(uh, Base(uh))
    IN  /\ timer' = (running \/ starts)
        /\ vrUx' = IF starts THEN uh ELSE vrUx
        /\ run' = IF running THEN run ELSE 0

DoReceivePdu(p) ==
    LET sn == p.n % M
        placed == [s \in DOMAIN rxBuffer \cup {sn} |-> IF s = sn THEN p ELSE rxBuffer[s]]
        ahead == ~IsInsideReorderingWindow(sn, vrUh)
        uh == IF ahead THEN Plus(sn, 1) ELSE vrUh
        old == IF ahead THEN OutsideWindow(placed, uh) ELSE {}
        buf == Without(placed, old)
        slides == ahead /\ ~IsInsideReorderingWindow(vrUr, uh)
        ur == IF slides THEN Base(uh) ELSE vrUr
        newUr == IF ur \in DOMAIN buf THEN FirstMissing(buf, ur) ELSE ur
        base == IF slides THEN Base(uh) ELSE Base(vrUh)
        ready == IF ur \in DOMAIN buf THEN SnInterval(buf, ur, newUr, base) ELSE {}
    IN  /\ ~Discards(sn)
        /\ vrUh' = uh /\ vrUr' = newUr
        /\ rxBuffer' = Without(buf, ready)
        /\ Deliver(Reassembled(Reassembled(Reassembler, placed, old, 0), buf, ready, base))
        /\ ReorderingTimer(StillRuns(newUr, uh), newUr, uh)

Receive(p) ==
    /\ air' = air \ {p}
    /\ heard' = IF p.n < heard THEN heard ELSE p.n + 1
    /\ UNCHANGED <<next, cur>>
    /\ \/ DoReceivePdu(p)
       \/ /\ Discards(p.n % M)
          /\ Deliver(Reassembler)
          /\ UNCHANGED <<run, window, rxBuffer>>

(* The first SN from VR(UX) on that is not in the buffer, past the wrap. *)
FirstMissingFromUx ==
    Plus(vrUx, CHOOSE d \in 0..(M - 1) :
                  /\ Plus(vrUx, d) \notin DOMAIN rxBuffer
                  /\ \A e \in 0..(d - 1) : Plus(vrUx, e) \in DOMAIN rxBuffer)

ExpireReorderingTimer ==
    LET newUr == FirstMissingFromUx
        ready == SnInterval(rxBuffer, vrUr, newUr, Base(vrUh))
    IN  /\ timer
        /\ vrUr' = newUr
        /\ rxBuffer' = Without(rxBuffer, ready)
        /\ Deliver(Reassembled(Reassembler, rxBuffer, ready, Base(vrUh)))
        /\ ReorderingTimer(FALSE, newUr, vrUh)
        /\ UNCHANGED <<next, cur, air, heard, vrUh>>

Next ==
    \/ \E k \in 1..MaxPieces, fin \in BOOLEAN : BuildPdu(k, fin)
    \/ \E p \in air : Lose(p)
    \/ \E p \in air : Receive(p)
    \/ ExpireReorderingTimer

Spec == Init /\ [][Next]_vars

(* The timer is an event in the simulator's queue.  This is weak fairness  *)
(* of ExpireReorderingTimer, which is enabled exactly while timer.         *)
TimerFires == <>[]timer => []<><<ExpireReorderingTimer>>_vars
FairSpec == Spec /\ TimerFires

-----------------------------------------------------------------------------
(* An SDU PDCP gets is one the peer sent, whole: all of its segments and   *)
(* none of another SDU, whatever PDUs were lost between.                   *)
IsWhole(s) ==
    /\ \A i \in 1..Len(s) : s[i].sdu = s[1].sdu /\ s[i].seg = i
    /\ \A i \in 1..Len(s) : s[i].last <=> i = Len(s)
DeliversWhole == \A i \in 1..Len(up) : IsWhole(up[i])

(* SDUs reach PDCP in the order they were sent, none of them twice. *)
InOrder ==
    \A i \in 1..Len(up) :
        up[i][1].sdu > (IF i = 1 THEN top ELSE up[i - 1][1].sdu)

(* While a PDU waits in the buffer, t-Reordering runs and will free it. *)
NothingStranded == DOMAIN rxBuffer # {} => timer

(* What waits lies in the window and beyond VR(UR); VR(UX) lies between    *)
(* VR(UR) and VR(UH) while the timer runs.                                 *)
WindowHolds ==
    /\ \A sn \in DOMAIN rxBuffer :
          Rel(vrUr, Base(vrUh)) <= Rel(sn, Base(vrUh)) /\ Rel(sn, Base(vrUh)) < W
    /\ timer => /\ Rel(vrUr, Base(vrUh)) < Rel(vrUx, Base(vrUh))
                /\ Rel(vrUx, Base(vrUh)) <= W

(* The receiver's structure after every event: its types, the window, and *)
(* a timer for everything that waits.                                      *)
WindowInv == TypeOK /\ NothingStranded /\ WindowHolds

(* A PDU that waits is delivered, however many follow. *)
Released == \A n \in 0..(MaxPdus - 1) :
    (\E sn \in DOMAIN rxBuffer : rxBuffer[sn].n = n)
        ~> (\A sn \in DOMAIN rxBuffer : rxBuffer[sn].n # n)

(* nr-rlc-um.cc: VR(UR) is updated to the first SN that was not received.  *)
UrIsMissing == vrUr \notin DOMAIN rxBuffer
=============================================================================

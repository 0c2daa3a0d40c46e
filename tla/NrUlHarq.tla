------------------------------- MODULE NrUlHarq -------------------------------
(***************************************************************************)
(* Uplink HARQ at the gNB: the processes of NrMacHarqVector, the feedback  *)
(* NrGnbMac collects between two UL slots, and one UL scheduling pass      *)
(* (NrMacSchedulerNs3::DoSchedUlTriggerReq with NrMacSchedulerHarqRr).     *)
(*                                                                         *)
(* A transmission is in the air until PHY has decoded it, which takes at   *)
(* most MaxDelay UL slots; where the UE put nothing on the air no feedback *)
(* comes back at all (Lose).  The symbols a slot leaves after control, SRS *)
(* and Msg3 follow a periodic pattern.  How new data shares what remains   *)
(* is left free; NrMacSchedulerUl says who is eligible.                    *)
(***************************************************************************)
EXTENDS Integers, SequencesExt

CONSTANTS
    UEs,        \* RNTIs
    Ids,        \* HARQ process ids of a UE
    NumHarq,    \* GetNumHarqProcess(), the expiry limit of m_timer
    MaxRv,      \* maxHarqReTx: 3 with retransmissions enabled, else 0
    MaxDelay,   \* UL slots until a transmission's feedback is there
    Pattern     \* data symbols of the UL slots, repeated

ASSUME IdAssumption    == Ids \subseteq Nat /\ NumHarq \in Nat /\ MaxRv \in Nat
ASSUME DelayAssumption == MaxDelay \in 1 .. NumHarq
ASSUME PatternAssumption == Pattern \in Seq(Nat) /\ Pattern # <<>>

Procs == UEs \X Ids
Syms  == UNION {1 .. Pattern[i] : i \in DOMAIN Pattern}

VARIABLES
    procs,   \* NrMacHarqVector of every UE
    tb,      \* which TB a process carries, told apart from the one before
    air,     \* transmissions not decoded yet, with the UL slots they took
    fbIn,    \* NrGnbMac::m_ulHarqInfoReceived
    buf,     \* m_ulHarqToRetransmit
    at       \* position of the next UL slot in Pattern

vars == <<procs, tb, air, fbIn, buf, at>>

Inactive == [status |-> "INACTIVE", timer |-> 0, rv |-> 0, sym |-> 0]
Feedbacks == [proc : Procs, tb : {0, 1}, ok : BOOLEAN]

(***************************************************************************)
(* One type invariant for the module.                                      *)
(***************************************************************************)
TypeOK ==
    /\ procs \in [Procs -> {Inactive} \cup
                    [status : {"WAITING_FEEDBACK", "RECEIVED_FEEDBACK"},
                     timer : 0 .. NumHarq, rv : 0 .. MaxRv, sym : Syms]]
    /\ tb \in [Procs -> {0, 1}]
    /\ air \subseteq [proc : Procs, tb : {0, 1}, age : 0 .. MaxDelay - 1]
    /\ fbIn \in Seq(Feedbacks)
    /\ buf \in Seq(Feedbacks)
    /\ at \in DOMAIN Pattern

Init ==
    /\ procs = [p \in Procs |-> Inactive]
    /\ tb = [p \in Procs |-> 0]
    /\ air = {} /\ fbIn = <<>> /\ buf = <<>>
    /\ at = 1

-----------------------------------------------------------------------------
(* PHY decodes a transmission and reports it to the gNB MAC. *)
Feedback(t, ok) ==
    /\ air' = air \ {t}
    /\ fbIn' = Append(fbIn, [proc |-> t.proc, tb |-> t.tb, ok |-> ok])
    /\ UNCHANGED <<procs, tb, buf, at>>

(* The UE had nothing to send in the allocation: no feedback. *)
Lose(t) ==
    /\ air' = air \ {t}
    /\ UNCHANGED <<procs, tb, fbIn, buf, at>>

-----------------------------------------------------------------------------
(* Mutated forms: expiry a slot early; only WAITING_FEEDBACK counts. *)
ExpiresEarly(h) ==
    IF h.status = "INACTIVE" THEN h
    ELSE IF h.timer < NumHarq - 1 THEN [h EXCEPT !.timer = @ + 1] ELSE Inactive
ExpiresWaiting(h) ==
    IF h.status # "WAITING_FEEDBACK" THEN h
    ELSE IF h.timer < NumHarq THEN [h EXCEPT !.timer = @ + 1] ELSE Inactive

ResetExpiredHARQ(h) ==
    IF h.status = "INACTIVE" THEN h
    ELSE IF h.timer < NumHarq THEN [h EXCEPT !.timer = @ + 1] ELSE Inactive

MergeNewFirst(old, in) == in \o old                           \* mutated form
MergeHARQ(old, in) == old \o in

(* Feedback for an expired process is removed.  ProcessHARQFeedbacks: an   *)
(* ACK, or a NACK of the last redundancy version, erases the process;      *)
(* another NACK marks it.                                                  *)
Active(h, f) == h[f.proc].status # "INACTIVE"
OverOnlyByAck(h, f) == f.ok                                   \* mutated form
Over(h, f) == f.ok \/ h[f.proc].rv = MaxRv
Nack(h, f) == Active(h, f) /\ ~Over(h, f)
ProcessHARQFeedbacks(h, fs) ==
    [p \in Procs |->
        LET mine == {i \in DOMAIN fs : fs[i].proc = p /\ Active(h, fs[i])} IN
        IF \E i \in mine : Over(h, fs[i]) THEN Inactive
        ELSE IF mine # {} THEN [h[p] EXCEPT !.status = "RECEIVED_FEEDBACK"]
        ELSE h[p]]

(* NS_FATAL_ERROR: another feedback of a process just erased. *)
Fatal(h, fs) ==
    \E i, j \in DOMAIN fs :
        i < j /\ fs[i].proc = fs[j].proc /\ Active(h, fs[i]) /\ Over(h, fs[i])

(* ScheduleUlHarq: a turn for each NACK, with what the pass has done so    *)
(* far.  The loop ends with the last symbol; until then a NACK is either   *)
(* retransmitted, with the next version, or buffered with its timer reset. *)
KeepsTimer(h) == [h EXCEPT !.status = "WAITING_FEEDBACK"]      \* mutated form
Waiting(h) == [h EXCEPT !.status = "WAITING_FEEDBACK", !.timer = 0]
Retransmitted(h) == [Waiting(h) EXCEPT !.rv = @ + 1]

HarqTurn(pass, f) ==
    LET h == pass.procs[f.proc] IN
    IF pass.sym = 0 THEN pass
    ELSE IF pass.sym >= h.sym
    THEN [procs |-> [pass.procs EXCEPT ![f.proc] = Retransmitted(h)],
          sym |-> pass.sym - h.sym, sent |-> pass.sent \cup {f.proc}, buf |-> pass.buf]
    ELSE [procs |-> [pass.procs EXCEPT ![f.proc] = Waiting(h)],
          sym |-> pass.sym, sent |-> pass.sent, buf |-> Append(pass.buf, f)]

(* timed are the processes before the feedback, sym the symbols there are. *)
Turn(pass, timed, f) == IF Nack(timed, f) THEN HarqTurn(pass, f) ELSE pass
Before(timed, fs, sym) ==
    [procs |-> ProcessHARQFeedbacks(timed, fs), sym |-> sym, sent |-> {}, buf |-> <<>>]
ScheduleUlHarq(timed, fs, sym) ==
    LET after[i \in 0..Len(fs)] ==
            IF i = 0 THEN Before(timed, fs, sym) ELSE Turn(after[i - 1], timed, fs[i])
    IN  after

(* DoScheduleUlData puts the TB of a chosen UE into a free process (Insert *)
(* takes the first one of a hash map: any).  A UE with a retransmission in *)
(* the slot is not chosen.                                                 *)
MayCarryData(pass, p) ==
    /\ pass.sym > 0 /\ pass.procs[p].status = "INACTIVE"
    /\ \A i \in Ids : <<p[1], i>> \notin pass.sent
NewTb(n) == [status |-> "WAITING_FEEDBACK", timer |-> 0, rv |-> 0, sym |-> n]

(* New TBs of n symbols each: at most one of a UE. *)
Chosen(pass) ==
    {n \in [{p \in Procs : MayCarryData(pass, p)} -> 0 .. pass.sym] :
        \A p, q \in DOMAIN n : n[p] > 0 /\ n[q] > 0 /\ p[1] = q[1] => p = q}

(* One UL slot: DoSchedUlTriggerReq.  What it schedules goes on the air. *)
UlTrigger ==
    LET timed  == [p \in Procs |-> ResetExpiredHARQ(procs[p])]
        merged == MergeHARQ(buf, fbIn)
        pass   == ScheduleUlHarq(timed, merged, Pattern[at])[Len(merged)]
    IN
    /\ \A t \in air : t.age < MaxDelay - 1
    /\ ~Fatal(timed, merged)
    /\ \E n \in Chosen(pass) :
          LET fresh == {p \in DOMAIN n : n[p] > 0} IN
          /\ procs' = [p \in Procs |-> IF p \in fresh THEN NewTb(n[p]) ELSE pass.procs[p]]
          /\ tb' = [p \in Procs |-> IF p \in fresh THEN 1 - tb[p] ELSE tb[p]]
          /\ air' = {[t EXCEPT !.age = @ + 1] : t \in air}
                    \cup {[proc |-> p, tb |-> tb'[p], age |-> 0] : p \in pass.sent \cup fresh}
    /\ buf' = pass.buf
    /\ fbIn' = <<>>
    /\ at' = (at % Len(Pattern)) + 1

Next ==
    \/ UlTrigger
    \/ \E t \in air, ok \in BOOLEAN : Feedback(t, ok)
    \/ \E t \in air : Lose(t)

(* The simulator goes on: slots come for ever, and so does feedback, since  *)
(* no slot passes a transmission that is due.                              *)
Fairness == WF_vars(Next)

Spec == Init /\ [][Next]_vars /\ Fairness

-----------------------------------------------------------------------------
(* What is still to be said about a process: a transmission in the air, a  *)
(* feedback received or one buffered for retransmission.                   *)
Pending(p) ==
    {<<"air", t>> : t \in {t \in air : t.proc = p}}
    \cup {<<"fb", i>> : i \in {i \in DOMAIN fbIn : fbIn[i].proc = p}}
    \cup {<<"buf", i>> : i \in {i \in DOMAIN buf : buf[i].proc = p}}

(* No feedback is ever applied to another TB than its own, and none meets  *)
(* an erased process a second time (the NS_FATAL_ERROR): although expired  *)
(* processes are reused, each process has at most one thing pending, it is *)
(* active, and what is pending is about the TB it carries.                 *)
FeedbackMatches ==
    /\ \A p \in Procs : Cardinality(Pending(p)) <= (IF procs[p].status = "INACTIVE" THEN 0 ELSE 1)
    /\ \A t \in air : t.tb = tb[t.proc]
    /\ \A i \in DOMAIN fbIn : fbIn[i].tb = tb[fbIn[i].proc]
    /\ \A i \in DOMAIN buf : buf[i].tb = tb[buf[i].proc] /\ ~buf[i].ok

(* The types of the variables, and the TBs of the feedback. *)
FeedbackInv == TypeOK /\ FeedbackMatches

(* A buffered NACK is not overtaken: in a slot that does not retransmit    *)
(* it, no NACK that arrived later and needs at least as many symbols is.   *)
NotOvertaken ==
    [][\A i \in DOMAIN buf, j \in DOMAIN fbIn :
          LET p == buf[i].proc
              q == fbIn[j].proc
          IN  procs[q].sym >= procs[p].sym /\ procs'[q].rv > procs[q].rv
              => procs'[p].rv > procs[p].rv \/ procs'[p].status = "INACTIVE" \/ tb'[p] # tb[p]]_vars

(* A NACK ends no TB: with redundancy versions left, a TB whose NACK came  *)
(* in time or is buffered stays in its process through the slot; in        *)
(* particular it does not expire under a feedback.                         *)
NackKeepsTb ==
    [][\A f \in {fbIn[i] : i \in DOMAIN fbIn} \cup {buf[i] : i \in DOMAIN buf} :
          ~f.ok /\ procs[f.proc].rv < MaxRv
          => procs'[f.proc].status # "INACTIVE" /\ tb'[f.proc] = f.tb]_vars

(* A TB is decided: whatever is lost, dropped or buffered, each TB leaves  *)
(* its process in the end, and the process is free for another.            *)
TbLeaves ==
    \A p \in Procs, b \in {0, 1} :
        procs[p].status # "INACTIVE" /\ tb[p] = b
        ~> procs[p].status = "INACTIVE" \/ tb[p] # b

(* The comment on ScheduleUlHarq: if there are no symbols for it, the      *)
(* feedback is buffered for the next slot.  No NACK of a slot is left      *)
(* neither retransmitted nor buffered.                                     *)
NackBuffered ==
    \A p \in Procs : procs[p].status = "RECEIVED_FEEDBACK" => Pending(p) # {}
=============================================================================

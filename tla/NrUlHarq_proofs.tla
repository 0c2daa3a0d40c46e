--------------------------- MODULE NrUlHarq_proofs ---------------------------
(***************************************************************************)
(* UL HARQ at the gNB, for any number of UEs and processes, any expiry and *)
(* delay within it, and any pattern of slots: feedback always meets the TB *)
(* it is about, a NACK ends no TB, and buffered NACKs are not overtaken.   *)
(***************************************************************************)
EXTENDS NrUlHarq, SequenceTheorems, FiniteSetTheorems, WellFoundedInduction, TLAPS

Live == [status : {"WAITING_FEEDBACK", "RECEIVED_FEEDBACK"},
         timer : 0 .. NumHarq, rv : 0 .. MaxRv, sym : Syms]
Proc == {Inactive} \cup Live

(* The feedback of a slot: no two of one process, each of a live one.      *)
Distinct(fs) == \A i, j \in 1..Len(fs) : fs[i].proc = fs[j].proc => i = j
Feeds(h, fs) ==
    /\ fs \in Seq(Feedbacks) /\ Distinct(fs)
    /\ h \in [Procs -> Proc]
    /\ \A i \in 1..Len(fs) : h[fs[i].proc] \in Live

-----------------------------------------------------------------------------
(* Processes. *)
LEMMA SymsAre == \A n \in Syms : n \in Nat /\ n > 0
<1>1. \A i \in DOMAIN Pattern : Pattern[i] \in Nat
  BY PatternAssumption, ElementOfSeq, LenProperties
<1> QED
  BY <1>1 DEF Syms

LEMMA LiveIs ==
    ASSUME NEW h \in Live
    PROVE  /\ h.status # "INACTIVE" /\ h # Inactive
           /\ h.timer \in 0..NumHarq /\ h.rv \in 0..MaxRv /\ h.sym \in Nat
           /\ h.rv \in Nat /\ h.timer \in Nat
  BY SymsAre, IdAssumption DEF Live, Inactive

LEMMA Marked ==
    ASSUME NEW h \in Live
    PROVE  LET m == [h EXCEPT !.status = "RECEIVED_FEEDBACK"] IN
           m \in Live /\ m.timer = h.timer /\ m.rv = h.rv /\ m.sym = h.sym
  BY DEF Live

LEMMA WaitingIs ==
    ASSUME NEW h \in Live
    PROVE  /\ Waiting(h) \in Live
           /\ Waiting(h).timer = 0 /\ Waiting(h).rv = h.rv /\ Waiting(h).sym = h.sym
<1> DEFINE w == [h EXCEPT !.status = "WAITING_FEEDBACK"]
<1>1. w \in Live /\ w.rv = h.rv /\ w.sym = h.sym
  BY DEF Live
<1>2. Waiting(h) = [w EXCEPT !.timer = 0]
  BY DEF Waiting
<1>3. 0 \in 0..NumHarq
  BY IdAssumption
<1> HIDE DEF w
<1> QED
  BY <1>1, <1>2, <1>3 DEF Live

LEMMA RetransmittedIs ==
    ASSUME NEW h \in Live, h.rv # MaxRv
    PROVE  /\ Retransmitted(h) \in Live
           /\ Retransmitted(h).timer = 0 /\ Retransmitted(h).rv = h.rv + 1
           /\ Retransmitted(h).sym = h.sym
<1> DEFINE w == Waiting(h)
<1>1. w \in Live /\ w.timer = 0 /\ w.rv = h.rv /\ w.sym = h.sym
  BY WaitingIs
<1>2. h.rv + 1 \in 0..MaxRv
  BY IdAssumption DEF Live
<1>3. Retransmitted(h) = [w EXCEPT !.rv = h.rv + 1]
  BY <1>1 DEF Retransmitted
<1> HIDE DEF w
<1> QED
  BY <1>1, <1>2, <1>3 DEF Live

LEMMA FeedbacksAre ==
    ASSUME NEW fs \in Seq(Feedbacks)
    PROVE  /\ DOMAIN fs = 1..Len(fs) /\ Len(fs) \in Nat
           /\ \A i \in 1..Len(fs) : fs[i] \in Feedbacks /\ fs[i].proc \in Procs
<1>1. DOMAIN fs = 1..Len(fs) /\ Len(fs) \in Nat
  BY LenProperties
<1>2. \A i \in 1..Len(fs) : fs[i] \in Feedbacks
  BY ElementOfSeq
<1>3. \A f \in Feedbacks : f.proc \in Procs
  BY DEF Feedbacks
<1> QED
  BY <1>1, <1>2, <1>3

(* What ProcessHARQFeedbacks makes of a process, with and without feedback.*)
LEMMA ProcessedIs ==
    ASSUME NEW h, NEW fs, Feeds(h, fs)
    PROVE  LET marked == ProcessHARQFeedbacks(h, fs) IN
           /\ marked \in [Procs -> Proc]
           /\ \A i \in 1..Len(fs) :
                 LET p == fs[i].proc IN
                 IF Nack(h, fs[i])
                 THEN /\ marked[p] \in Live /\ marked[p].rv = h[p].rv
                      /\ marked[p].sym = h[p].sym /\ marked[p].rv # MaxRv
                 ELSE marked[p] = Inactive
           /\ \A p \in Procs : (\A i \in 1..Len(fs) : fs[i].proc # p) => marked[p] = h[p]
<1> DEFINE marked == ProcessHARQFeedbacks(h, fs)
           mine(p) == {i \in DOMAIN fs : fs[i].proc = p /\ Active(h, fs[i])}
<1>1. DOMAIN fs = 1..Len(fs) /\ \A i \in 1..Len(fs) : fs[i] \in Feedbacks /\ fs[i].proc \in Procs
  BY FeedbacksAre DEF Feeds
<1>2. \A p \in Procs :
         marked[p] = IF \E i \in mine(p) : Over(h, fs[i]) THEN Inactive
                     ELSE IF mine(p) # {} THEN [h[p] EXCEPT !.status = "RECEIVED_FEEDBACK"]
                     ELSE h[p]
  BY DEF ProcessHARQFeedbacks
<1>3. ASSUME NEW i \in 1..Len(fs)
      PROVE  mine(fs[i].proc) = {i} /\ Active(h, fs[i]) /\ h[fs[i].proc] \in Live
  <2>1. h[fs[i].proc] \in Live
    BY DEF Feeds
  <2>2. Active(h, fs[i])
    BY <2>1, LiveIs DEF Active
  <2>3. \A j \in DOMAIN fs : fs[j].proc = fs[i].proc => j = i
    BY <1>1 DEF Feeds, Distinct
  <2> QED
    BY <1>1, <2>1, <2>2, <2>3
<1>4. ASSUME NEW i \in 1..Len(fs), NEW p, p = fs[i].proc
      PROVE  IF Nack(h, fs[i])
             THEN /\ marked[p] \in Live /\ marked[p].rv = h[p].rv
                  /\ marked[p].sym = h[p].sym /\ marked[p].rv # MaxRv
             ELSE marked[p] = Inactive
  <2>1. p \in Procs /\ mine(p) = {i} /\ Active(h, fs[i]) /\ h[p] \in Live
    BY <1>1, <1>3, <1>4
  <2>2. CASE Over(h, fs[i])
    <3>1. ~Nack(h, fs[i])
      BY <2>2 DEF Nack
    <3> HIDE DEF marked, mine
    <3> QED
      BY <1>2, <2>1, <2>2, <3>1
  <2>3. CASE ~Over(h, fs[i])
    <3>1. Nack(h, fs[i])
      BY <2>1, <2>3 DEF Nack
    <3>2. marked[p] = [h[p] EXCEPT !.status = "RECEIVED_FEEDBACK"]
      <4> HIDE DEF marked, mine
      <4> QED
        BY <1>2, <2>1, <2>3
    <3>3. h[p].rv # MaxRv
      BY <1>4, <2>3 DEF Over
    <3> HIDE DEF marked, mine
    <3> QED
      BY <2>1, <3>1, <3>2, <3>3, Marked
  <2> QED
    BY <2>2, <2>3
<1>5. ASSUME NEW p \in Procs, \A i \in 1..Len(fs) : fs[i].proc # p
      PROVE  marked[p] = h[p]
  <2>1. mine(p) = {}
    BY <1>1, <1>5
  <2> HIDE DEF marked, mine
  <2> QED
    BY <1>2, <2>1
<1>6. marked \in [Procs -> Proc]
  <2>1. \A p \in Procs : marked[p] \in Proc
    <3> TAKE p \in Procs
    <3>1. h[p] \in Proc
      BY DEF Feeds
    <3>2. CASE \E i \in 1..Len(fs) : fs[i].proc = p
      <4>1. PICK i \in 1..Len(fs) : fs[i].proc = p
        BY <3>2
      <4>2. marked[p] \in Live \/ marked[p] = Inactive
        <5> HIDE DEF marked
        <5> QED
          BY <1>4, <4>1
      <4> HIDE DEF marked
      <4> QED
        BY <4>2 DEF Proc
    <3>3. CASE \A i \in 1..Len(fs) : fs[i].proc # p
      BY <1>5, <3>1, <3>3
    <3> QED
      BY <3>2, <3>3
  <2> QED
    BY <2>1 DEF ProcessHARQFeedbacks
<1> HIDE DEF marked
<1>7. \A i \in 1..Len(fs) :
         LET p == fs[i].proc IN
         IF Nack(h, fs[i])
         THEN /\ marked[p] \in Live /\ marked[p].rv = h[p].rv
              /\ marked[p].sym = h[p].sym /\ marked[p].rv # MaxRv
         ELSE marked[p] = Inactive
  BY <1>4
<1> QED
  BY <1>5, <1>6, <1>7 DEF marked

-----------------------------------------------------------------------------
(***************************************************************************)
(* The pass after the first k feedbacks, with cap symbols at the start.    *)
(* Later feedback is untouched; what is sent or buffered is a live process *)
(* with its timer reset; and a NACK passed over needs more symbols than    *)
(* are left, and than any retransmitted after it.                          *)
(***************************************************************************)
PassTyped(pass, cap) ==
    /\ pass.procs \in [Procs -> Proc]
    /\ pass.sym \in 0..cap
    /\ pass.sent \subseteq Procs
    /\ pass.buf \in Seq(Feedbacks) /\ Distinct(pass.buf)

PassFrom(pass, h, fs, k) ==
    /\ \A p \in pass.sent : \E j \in 1..k : fs[j].proc = p
    /\ \A i \in 1..Len(pass.buf) :
          /\ \E j \in 1..k : pass.buf[i] = fs[j] /\ Nack(h, fs[j])
          /\ pass.buf[i].proc \notin pass.sent
          /\ pass.procs[pass.buf[i].proc].timer = 0
    /\ \A p \in pass.sent : pass.procs[p].timer = 0 /\ pass.procs[p] \in Live

PassKeeps(pass, marked, fs, k) ==
    /\ \A p \in Procs : (\A j \in 1..k : fs[j].proc # p) => pass.procs[p] = marked[p]
    /\ \A p \in Procs : marked[p] \in Live => pass.procs[p] \in Live
    /\ \A p \in Procs : p \notin pass.sent => pass.procs[p].rv = marked[p].rv
    /\ \A p \in Procs : marked[p] \notin Live => pass.procs[p] = marked[p]
    /\ \A p \in pass.sent : pass.procs[p].rv > marked[p].rv

PassedOver(pass, h, fs, i) == Nack(h, fs[i]) /\ fs[i].proc \notin pass.sent
PassSorted(pass, h, marked, fs, k) ==
    \A i \in 1..k : PassedOver(pass, h, fs, i) =>
        /\ pass.sym = 0 \/ pass.sym < marked[fs[i].proc].sym
        /\ \A j \in 1..k : i < j /\ fs[j].proc \in pass.sent =>
               marked[fs[j].proc].sym < marked[fs[i].proc].sym

PassOK(pass, h, fs, cap, k) ==
    LET marked == ProcessHARQFeedbacks(h, fs) IN
    /\ PassTyped(pass, cap)
    /\ PassFrom(pass, h, fs, k)
    /\ PassKeeps(pass, marked, fs, k)
    /\ PassSorted(pass, h, marked, fs, k)

LEMMA PassBegins ==
    ASSUME NEW h, NEW fs, Feeds(h, fs), NEW cap \in Nat
    PROVE  PassOK(Before(h, fs, cap), h, fs, cap, 0)
<1> DEFINE marked == ProcessHARQFeedbacks(h, fs)
           pass == Before(h, fs, cap)
<1>1. /\ pass.procs = marked /\ pass.sym = cap /\ pass.sent = {} /\ pass.buf = <<>>
  BY DEF Before
<1>2. marked \in [Procs -> Proc]
  BY ProcessedIs
<1> HIDE DEF marked, pass
<1>3. PassTyped(pass, cap)
  <2>1. <<>> \in Seq(Feedbacks) /\ Len(<<>>) = 0
    OBVIOUS
  <2> QED
    BY <1>1, <1>2, <2>1 DEF PassTyped, Distinct
<1>4. PassFrom(pass, h, fs, 0)
  BY <1>1 DEF PassFrom
<1>5. PassKeeps(pass, marked, fs, 0)
  BY <1>1 DEF PassKeeps
<1>6. PassSorted(pass, h, marked, fs, 0)
  BY DEF PassSorted
<1> QED
  BY <1>3, <1>4, <1>5, <1>6 DEF PassOK, marked, pass

(* A turn without a retransmission or a buffered NACK. *)
LEMMA TurnPasses ==
    ASSUME NEW h, NEW fs, Feeds(h, fs), NEW cap \in Nat, NEW k \in Nat, k + 1 \in 1..Len(fs),
           NEW pass, PassOK(pass, h, fs, cap, k),
           Nack(h, fs[k + 1]) => pass.sym = 0
    PROVE  PassOK(pass, h, fs, cap, k + 1)
<1> DEFINE marked == ProcessHARQFeedbacks(h, fs)
<1>1. /\ PassTyped(pass, cap) /\ PassFrom(pass, h, fs, k)
      /\ PassKeeps(pass, marked, fs, k) /\ PassSorted(pass, h, marked, fs, k)
  BY DEF PassOK
<1>2. \A j \in 1..k : j \in 1..(k + 1)
  OBVIOUS
<1>3. fs[k + 1].proc \notin pass.sent
  <2>1. \A j \in 1..k : j \in 1..Len(fs) /\ j # k + 1
    BY FeedbacksAre DEF Feeds
  <2>2. \A j \in 1..k : fs[j].proc # fs[k + 1].proc
    BY <2>1 DEF Feeds, Distinct
  <2> QED
    BY <1>1, <2>2 DEF PassFrom
<1> HIDE DEF marked
<1>4. PassFrom(pass, h, fs, k + 1)
  BY <1>1, <1>2 DEF PassFrom
<1>5. PassKeeps(pass, marked, fs, k + 1)
  BY <1>1, <1>2 DEF PassKeeps
<1>6. PassSorted(pass, h, marked, fs, k + 1)
  <2> SUFFICES ASSUME NEW i \in 1..(k + 1), PassedOver(pass, h, fs, i)
               PROVE  /\ pass.sym = 0 \/ pass.sym < marked[fs[i].proc].sym
                      /\ \A j \in 1..(k + 1) : i < j /\ fs[j].proc \in pass.sent =>
                             marked[fs[j].proc].sym < marked[fs[i].proc].sym
    BY DEF PassSorted
  <2>1. \A j \in 1..(k + 1) : j \in 1..k \/ j = k + 1
    OBVIOUS
  <2>2. CASE i = k + 1
    BY <1>3, <2>1, <2>2 DEF PassedOver
  <2>3. CASE i \in 1..k
    BY <1>1, <1>3, <2>1, <2>3 DEF PassSorted
  <2> QED
    BY <2>1, <2>2, <2>3
<1> QED
  BY <1>1, <1>4, <1>5, <1>6 DEF PassOK, marked

(* A turn that retransmits, or buffers, the NACK of process p. *)
LEMMA TurnSends ==
    ASSUME NEW h, NEW fs, Feeds(h, fs), NEW cap \in Nat, NEW k \in Nat, k + 1 \in 1..Len(fs),
           NEW pass, PassOK(pass, h, fs, cap, k),
           Nack(h, fs[k + 1]), pass.sym # 0,
           NEW next, next = HarqTurn(pass, fs[k + 1])
    PROVE  PassOK(next, h, fs, cap, k + 1)
<1> DEFINE marked == ProcessHARQFeedbacks(h, fs)
           f == fs[k + 1]
           p == f.proc
           m == marked[p]
<1>1. /\ PassTyped(pass, cap) /\ PassFrom(pass, h, fs, k)
      /\ PassKeeps(pass, marked, fs, k) /\ PassSorted(pass, h, marked, fs, k)
  BY DEF PassOK
<1>2. /\ f \in Feedbacks /\ p \in Procs /\ m \in Live /\ m.rv # MaxRv
      /\ \A j \in 1..k : fs[j].proc # p
      /\ \A j \in 1..(k + 1) : j \in 1..k \/ j = k + 1
      /\ \A j \in 1..k : j \in 1..(k + 1)
  <2>1. f \in Feedbacks /\ p \in Procs
    BY FeedbacksAre DEF Feeds
  <2>2. m \in Live /\ m.rv # MaxRv
    BY ProcessedIs
  <2>3. \A j \in 1..k : j \in 1..Len(fs) /\ j # k + 1
    BY FeedbacksAre DEF Feeds
  <2>4. \A j \in 1..k : fs[j].proc # p
    BY <2>3 DEF Feeds, Distinct
  <2> QED
    BY <2>1, <2>2, <2>4
<1> HIDE DEF marked, f
<1>3. pass.procs[p] = m /\ p \notin pass.sent
  BY <1>1, <1>2 DEF PassKeeps, PassFrom
<1>a. \A i \in 1..Len(pass.buf) : pass.buf[i].proc # p /\ pass.buf[i].proc \in Procs
  <2>1. \A i \in 1..Len(pass.buf) : \E j \in 1..k : pass.buf[i] = fs[j]
    BY <1>1 DEF PassFrom
  <2>2. \A i \in 1..Len(pass.buf) : pass.buf[i].proc \in Procs
    BY <1>1, FeedbacksAre DEF PassTyped
  <2> QED
    BY <1>2, <2>1, <2>2
<1>4. CASE pass.sym >= m.sym
  <2> DEFINE r == Retransmitted(m)
  <2>1. r \in Live /\ r.timer = 0 /\ r.rv = m.rv + 1 /\ r.sym = m.sym /\ m.rv \in Nat
        /\ m.sym \in Nat /\ m.sym > 0
    <3>1. m.sym > 0
      BY <1>2, SymsAre DEF Live
    <3> QED
      BY <1>2, <3>1, RetransmittedIs, LiveIs
  <2>2. /\ next.procs = [pass.procs EXCEPT ![p] = r]
        /\ next.sym = pass.sym - m.sym /\ next.sent = pass.sent \cup {p} /\ next.buf = pass.buf
    BY <1>3, <1>4 DEF HarqTurn, f
  <2> HIDE DEF r, m
  <2>3. /\ next.procs[p] = r
        /\ \A q \in Procs : q # p => next.procs[q] = pass.procs[q]
    BY <1>1, <1>2, <2>2 DEF PassTyped
  <2>4. PassTyped(next, cap)
    <3>1. next.procs \in [Procs -> Proc]
      BY <1>1, <1>2, <2>1, <2>2 DEF PassTyped, Proc
    <3>2. next.sym \in 0..cap
      BY <1>1, <1>4, <2>1, <2>2 DEF PassTyped
    <3> QED
      BY <1>1, <1>2, <2>2, <3>1, <3>2 DEF PassTyped
  <2>5. PassFrom(next, h, fs, k + 1)
    <3>1. \A q \in next.sent : \E j \in 1..(k + 1) : fs[j].proc = q
      <4>1. k + 1 \in 1..(k + 1) /\ fs[k + 1].proc = p
        BY DEF f
      <4> QED
        BY <1>1, <1>2, <2>2, <4>1 DEF PassFrom
    <3>2. \A i \in 1..Len(next.buf) :
             /\ \E j \in 1..(k + 1) : next.buf[i] = fs[j] /\ Nack(h, fs[j])
             /\ next.buf[i].proc \notin next.sent
             /\ next.procs[next.buf[i].proc].timer = 0
      BY <1>1, <1>2, <1>a, <2>2, <2>3 DEF PassFrom
    <3>3. \A q \in next.sent : next.procs[q].timer = 0 /\ next.procs[q] \in Live
      BY <1>1, <2>1, <2>2, <2>3 DEF PassFrom, PassTyped
    <3> QED
      BY <3>1, <3>2, <3>3 DEF PassFrom
  <2>6. PassKeeps(next, marked, fs, k + 1)
    <3>1. marked[p] = m /\ m \in Live
      BY <1>2 DEF m
    <3>2. \A q \in Procs : (\A j \in 1..(k + 1) : fs[j].proc # q) => next.procs[q] = marked[q]
      BY <1>1, <1>2, <2>3 DEF PassKeeps, f
    <3>3. \A q \in Procs : marked[q] \in Live => next.procs[q] \in Live
      BY <1>1, <2>1, <2>3 DEF PassKeeps
    <3>4. \A q \in Procs : q \notin next.sent => next.procs[q].rv = marked[q].rv
      BY <1>1, <2>2, <2>3 DEF PassKeeps
    <3>5. \A q \in Procs : marked[q] \notin Live => next.procs[q] = marked[q]
      BY <1>1, <2>3, <3>1 DEF PassKeeps
    <3>6. \A q \in next.sent : next.procs[q].rv > marked[q].rv
      BY <1>1, <2>1, <2>2, <2>3, <3>1 DEF PassKeeps, PassTyped
    <3> QED
      BY <3>2, <3>3, <3>4, <3>5, <3>6 DEF PassKeeps
  <2>7. PassSorted(next, h, marked, fs, k + 1)
    <3> SUFFICES ASSUME NEW i \in 1..(k + 1), PassedOver(next, h, fs, i)
                 PROVE  /\ next.sym = 0 \/ next.sym < marked[fs[i].proc].sym
                        /\ \A j \in 1..(k + 1) : i < j /\ fs[j].proc \in next.sent =>
                               marked[fs[j].proc].sym < marked[fs[i].proc].sym
      BY DEF PassSorted
    <3>1. i \in 1..k /\ PassedOver(pass, h, fs, i)
      BY <1>2, <2>2 DEF PassedOver, f
    <3>2. pass.sym < marked[fs[i].proc].sym
      BY <1>1, <3>1 DEF PassSorted
    <3>3. marked[fs[i].proc].sym \in Nat
      <4>1. i \in 1..Len(fs) /\ Nack(h, fs[i])
        BY <3>1, FeedbacksAre DEF Feeds, PassedOver
      <4> QED
        BY <4>1, ProcessedIs, LiveIs DEF marked
    <3>4. next.sym < marked[fs[i].proc].sym
      BY <1>1, <2>1, <2>2, <3>2, <3>3 DEF PassTyped
    <3>5. ASSUME NEW j \in 1..(k + 1), i < j, fs[j].proc \in next.sent
          PROVE  marked[fs[j].proc].sym < marked[fs[i].proc].sym
      <4>1. CASE j = k + 1
        <5>1. marked[fs[j].proc].sym = m.sym
          BY <4>1 DEF m, f
        <5> QED
          BY <1>1, <1>4, <2>1, <3>2, <3>3, <5>1 DEF PassTyped
      <4>2. CASE j \in 1..k
        <5>1. fs[j].proc \in pass.sent
          BY <1>2, <2>2, <3>5, <4>2
        <5> QED
          BY <1>1, <3>1, <3>5, <4>2, <5>1 DEF PassSorted
      <4> QED
        BY <1>2, <4>1, <4>2
    <3> QED
      BY <3>4, <3>5
  <2> QED
    BY <2>4, <2>5, <2>6, <2>7 DEF PassOK, marked
<1>5. CASE ~(pass.sym >= m.sym)
  <2> DEFINE w == Waiting(m)
             l == Len(pass.buf)
  <2>1. w \in Live /\ w.timer = 0 /\ w.rv = m.rv /\ m.sym \in Nat
    BY <1>2, WaitingIs, LiveIs
  <2>2. /\ next.procs = [pass.procs EXCEPT ![p] = w]
        /\ next.sym = pass.sym /\ next.sent = pass.sent /\ next.buf = Append(pass.buf, f)
    BY <1>3, <1>5 DEF HarqTurn, f
  <2> HIDE DEF w, m
  <2>3. /\ next.procs[p] = w
        /\ \A q \in Procs : q # p => next.procs[q] = pass.procs[q]
    BY <1>1, <1>2, <2>2 DEF PassTyped
  <2>4. /\ next.buf \in Seq(Feedbacks) /\ Len(next.buf) = l + 1 /\ l \in Nat
        /\ \A i \in 1..l : next.buf[i] = pass.buf[i]
        /\ next.buf[l + 1] = f
    BY <1>1, <1>2, <2>2, AppendProperties, LenProperties DEF PassTyped
  <2> HIDE DEF l
  <2>5. \A i \in 1..(l + 1) : i \in 1..l \/ i = l + 1
    BY <2>4
  <2>6. Distinct(next.buf)
    <3> SUFFICES ASSUME NEW i \in 1..(l + 1), NEW j \in 1..(l + 1),
                        next.buf[i].proc = next.buf[j].proc
                 PROVE  i = j
      BY <2>4 DEF Distinct
    <3>1. CASE i \in 1..l /\ j \in 1..l
      BY <1>1, <2>4, <3>1 DEF PassTyped, Distinct, l
    <3>2. CASE i = l + 1 /\ j \in 1..l
      BY <1>a, <2>4, <3>2 DEF l
    <3>3. CASE i \in 1..l /\ j = l + 1
      BY <1>a, <2>4, <3>3 DEF l
    <3> QED
      BY <2>5, <3>1, <3>2, <3>3
  <2>7. PassTyped(next, cap)
    <3>1. next.procs \in [Procs -> Proc]
      BY <1>1, <1>2, <2>1, <2>2 DEF PassTyped, Proc
    <3> QED
      BY <1>1, <2>2, <2>4, <2>6, <3>1 DEF PassTyped
  <2>8. PassFrom(next, h, fs, k + 1)
    <3>1. \A q \in next.sent : \E j \in 1..(k + 1) : fs[j].proc = q
      BY <1>1, <1>2, <2>2 DEF PassFrom
    <3>2. ASSUME NEW i \in 1..(l + 1)
          PROVE  /\ \E j \in 1..(k + 1) : next.buf[i] = fs[j] /\ Nack(h, fs[j])
                 /\ next.buf[i].proc \notin next.sent
                 /\ next.procs[next.buf[i].proc].timer = 0
      <4>1. CASE i = l + 1
        <5>1. k + 1 \in 1..(k + 1) /\ next.buf[i] = fs[k + 1] /\ Nack(h, fs[k + 1])
          BY <2>4, <4>1 DEF f
        <5> QED
          BY <1>3, <2>1, <2>2, <2>3, <2>4, <4>1, <5>1
      <4>2. CASE i \in 1..l
        <5>1. i \in 1..Len(pass.buf) /\ next.buf[i] = pass.buf[i]
          BY <2>4, <4>2 DEF l
        <5> QED
          BY <1>1, <1>2, <1>a, <2>2, <2>3, <5>1 DEF PassFrom
      <4> QED
        BY <2>5, <4>1, <4>2
    <3>3. \A q \in next.sent : next.procs[q].timer = 0 /\ next.procs[q] \in Live
      BY <1>1, <1>3, <2>2, <2>3 DEF PassFrom, PassTyped
    <3> QED
      BY <2>4, <3>1, <3>2, <3>3 DEF PassFrom
  <2>9. PassKeeps(next, marked, fs, k + 1)
    <3>1. marked[p] = m /\ m \in Live
      BY <1>2 DEF m
    <3>2. \A q \in Procs : (\A j \in 1..(k + 1) : fs[j].proc # q) => next.procs[q] = marked[q]
      BY <1>1, <1>2, <2>3 DEF PassKeeps, f
    <3>3. \A q \in Procs : marked[q] \in Live => next.procs[q] \in Live
      BY <1>1, <2>1, <2>3 DEF PassKeeps
    <3>4. \A q \in Procs : q \notin next.sent => next.procs[q].rv = marked[q].rv
      BY <1>1, <2>1, <2>2, <2>3, <3>1 DEF PassKeeps
    <3>5. \A q \in Procs : marked[q] \notin Live => next.procs[q] = marked[q]
      BY <1>1, <2>3, <3>1 DEF PassKeeps
    <3>6. \A q \in next.sent : next.procs[q].rv > marked[q].rv
      BY <1>1, <1>3, <2>2, <2>3 DEF PassKeeps, PassTyped
    <3> QED
      BY <3>2, <3>3, <3>4, <3>5, <3>6 DEF PassKeeps
  <2>10. PassSorted(next, h, marked, fs, k + 1)
    <3> SUFFICES ASSUME NEW i \in 1..(k + 1), PassedOver(next, h, fs, i)
                 PROVE  /\ next.sym = 0 \/ next.sym < marked[fs[i].proc].sym
                        /\ \A j \in 1..(k + 1) : i < j /\ fs[j].proc \in next.sent =>
                               marked[fs[j].proc].sym < marked[fs[i].proc].sym
      BY DEF PassSorted
    <3>1. \A j \in 1..(k + 1) : fs[j].proc \in next.sent => j \in 1..k
      BY <1>2, <1>3, <2>2 DEF f
    <3>2. CASE i = k + 1
      <4>1. marked[fs[i].proc].sym = m.sym
        BY <3>2 DEF m, f
      <4> QED
        BY <1>1, <1>5, <2>1, <2>2, <3>1, <3>2, <4>1 DEF PassTyped
    <3>3. CASE i \in 1..k
      <4>1. PassedOver(pass, h, fs, i)
        BY <2>2 DEF PassedOver
      <4> QED
        BY <1>1, <2>2, <3>1, <3>3, <4>1 DEF PassSorted
    <3> QED
      BY <1>2, <3>2, <3>3
  <2> QED
    BY <2>7, <2>8, <2>9, <2>10 DEF PassOK, marked
<1> QED
  BY <1>4, <1>5

LEMMA TurnKeeps ==
    ASSUME NEW h, NEW fs, Feeds(h, fs), NEW cap \in Nat, NEW k \in Nat, k + 1 \in 1..Len(fs),
           NEW pass, PassOK(pass, h, fs, cap, k)
    PROVE  PassOK(Turn(pass, h, fs[k + 1]), h, fs, cap, k + 1)
<1>1. CASE Nack(h, fs[k + 1]) /\ pass.sym # 0
  BY <1>1, TurnSends DEF Turn
<1>2. CASE Nack(h, fs[k + 1]) /\ pass.sym = 0
  <2>1. Turn(pass, h, fs[k + 1]) = pass
    BY <1>2 DEF Turn, HarqTurn
  <2> QED
    BY <1>2, <2>1, TurnPasses
<1>3. CASE ~Nack(h, fs[k + 1])
  <2>1. Turn(pass, h, fs[k + 1]) = pass
    BY <1>3 DEF Turn
  <2> QED
    BY <1>3, <2>1, TurnPasses
<1> QED
  BY <1>1, <1>2, <1>3

LEMMA CountsUp ==
    ASSUME NEW S, 0 \in S, \A n \in Nat : n \in S => n + 1 \in S
    PROVE  Nat \subseteq S
<1> DEFINE Others == Nat \ S
<1>1. SUFFICES ASSUME Others # {} PROVE FALSE
  OBVIOUS
<1>2. PICK k \in Others : \A i \in Others : <<i, k>> \notin OpToRel(<, Nat)
  BY <1>1, WFMin, NatLessThanWellFounded, Zenon
<1>3. \A i \in Others : ~(i < k)
  BY <1>2, Zenon DEF OpToRel
<1>4. k \in Nat /\ k \notin S
  BY <1>2, Zenon
<1>5. k # 0
  BY <1>4
<1>6. k - 1 \in Nat /\ (k - 1) + 1 = k /\ k - 1 < k
  BY <1>4, <1>5
<1>7. k - 1 \in S
  BY <1>3, <1>6
<1> QED
  BY <1>4, <1>6, <1>7

(* The states of the pass before and after the turns of n feedbacks. *)
PassTurns(g, h, fs, cap, n) ==
    g = [i \in 0..n |-> IF i = 0 THEN Before(h, fs, cap) ELSE Turn(g[i - 1], h, fs[i])]

LEMMA PassTurnsExist ==
    ASSUME NEW h, NEW fs, NEW cap
    PROVE  \A n \in Nat : \E g : PassTurns(g, h, fs, cap, n)
<1> DEFINE S == {n \in Nat : \E g : PassTurns(g, h, fs, cap, n)}
<1>1. 0 \in S
  <2> DEFINE g == [i \in 0..0 |-> Before(h, fs, cap)]
  <2>1. g = [i \in 0..0 |-> IF i = 0 THEN Before(h, fs, cap) ELSE Turn(g[i - 1], h, fs[i])]
    OBVIOUS
  <2> QED
    BY <2>1, Zenon DEF PassTurns
<1>2. ASSUME NEW n \in Nat, n \in S
      PROVE  n + 1 \in S
  <2>1. PICK g : PassTurns(g, h, fs, cap, n)
    BY <1>2
  <2> DEFINE next == [i \in 0..(n + 1) |->
                     IF i = n + 1 THEN Turn(g[n], h, fs[n + 1]) ELSE g[i]]
             e == [i \in 0..(n + 1) |-> IF i = 0 THEN Before(h, fs, cap) ELSE Turn(next[i - 1], h, fs[i])]
  <2>2. \A i \in 0..n : g[i] = IF i = 0 THEN Before(h, fs, cap) ELSE Turn(g[i - 1], h, fs[i])
    BY <2>1 DEF PassTurns
  <2>3. \A i \in 0..n : next[i] = g[i]
    OBVIOUS
  <2>4. ASSUME NEW i \in 0..(n + 1)
        PROVE  next[i] = e[i]
    <3>1. CASE i = n + 1
      <4>1. i # 0 /\ i - 1 = n /\ n \in 0..n
        BY <3>1
      <4>2. next[i - 1] = g[n]
        BY <2>3, <4>1
      <4> QED
        BY <3>1, <4>1, <4>2
    <3>2. CASE i # n + 1
      <4>1. i \in 0..n /\ (i # 0 => i - 1 \in 0..n)
        BY <3>2
      <4>2. i # 0 => next[i - 1] = g[i - 1]
        BY <2>3, <4>1
      <4> HIDE DEF next
      <4> QED
        BY <2>2, <2>3, <4>1, <4>2
    <3> QED
      BY <3>1, <3>2
  <2>5. next = e
    BY <2>4
  <2>6. PassTurns(next, h, fs, cap, n + 1)
    BY <2>5, Zenon DEF PassTurns
  <2> QED
    BY <2>6
<1> HIDE DEF S
<1>3. Nat \subseteq S
  BY <1>1, <1>2, CountsUp
<1> QED
  BY <1>3 DEF S

LEMMA PassHolds ==
    ASSUME NEW h, NEW fs, Feeds(h, fs), NEW cap \in Nat
    PROVE  PassOK(ScheduleUlHarq(h, fs, cap)[Len(fs)], h, fs, cap, Len(fs))
<1> DEFINE N == Len(fs)
<1>1. N \in Nat
  BY FeedbacksAre DEF Feeds
<1>2. PICK g : PassTurns(g, h, fs, cap, N) /\ ScheduleUlHarq(h, fs, cap)[N] = g[N]
  <2>1. \E g : PassTurns(g, h, fs, cap, N)
    BY <1>1, PassTurnsExist, Zenon
  <2> QED
    BY <2>1, Zenon DEF ScheduleUlHarq, PassTurns
<1>3. \A i \in 0..N : g[i] = IF i = 0 THEN Before(h, fs, cap) ELSE Turn(g[i - 1], h, fs[i])
  BY <1>2 DEF PassTurns
<1> HIDE DEF N
<1> DEFINE S == {n \in Nat : n <= N => PassOK(g[n], h, fs, cap, n)}
<1>4. 0 \in S
  <2>1. g[0] = Before(h, fs, cap)
    BY <1>1, <1>3
  <2> QED
    BY <2>1, PassBegins
<1>5. ASSUME NEW n \in Nat, n \in S
      PROVE  n + 1 \in S
  <2> SUFFICES ASSUME n + 1 <= N PROVE PassOK(g[n + 1], h, fs, cap, n + 1)
    OBVIOUS
  <2>1. PassOK(g[n], h, fs, cap, n)
    BY <1>1, <1>5
  <2>2. g[n + 1] = Turn(g[n], h, fs[n + 1])
    <3>1. n + 1 \in 0..N /\ n + 1 # 0 /\ (n + 1) - 1 = n
      BY <1>1
    <3> QED
      BY <1>3, <3>1
  <2>3. n + 1 \in 1..Len(fs)
    BY <1>1 DEF N
  <2> QED
    BY <2>1, <2>2, <2>3, TurnKeeps
<1>6. N \in S
  BY <1>1, <1>4, <1>5, CountsUp
<1> QED
  BY <1>1, <1>2, <1>6 DEF N

-----------------------------------------------------------------------------
(***************************************************************************)
(* The inductive invariant.  What is in the air or reported is about a     *)
(* live process, still carrying its TB; no two of these are about the same *)
(* process; and none is old enough for its process to expire under it:     *)
(* this is where MaxDelay <= NumHarq is needed.                            *)
(***************************************************************************)
Reported == MergeHARQ(buf, fbIn)
Timed == [p \in Procs |-> ResetExpiredHARQ(procs[p])]

Fits(p, b) == procs[p] \in Live /\ tb[p] = b /\ procs[p].timer <= MaxDelay - 1

AirFits == \A t \in air : Fits(t.proc, t.tb) /\ procs[t.proc].timer = t.age
ReportFits == \A i \in 1..Len(Reported) : Fits(Reported[i].proc, Reported[i].tb)
OnlyNacksWait == \A i \in 1..Len(buf) : ~buf[i].ok
OneEach ==
    /\ \A t, u \in air : t.proc = u.proc => t = u
    /\ Distinct(Reported)
    /\ \A t \in air, i \in 1..Len(Reported) : Reported[i].proc # t.proc

HarqHolds == TypeOK /\ AirFits /\ ReportFits /\ OnlyNacksWait /\ OneEach

LEMMA ReportedIs ==
    ASSUME TypeOK
    PROVE  /\ Reported \in Seq(Feedbacks) /\ Len(Reported) = Len(buf) + Len(fbIn)
           /\ Len(buf) \in Nat /\ Len(fbIn) \in Nat
           /\ \A i \in 1..Len(buf) : i \in 1..Len(Reported) /\ Reported[i] = buf[i]
           /\ \A i \in 1..Len(fbIn) : /\ Len(buf) + i \in 1..Len(Reported)
                                      /\ Reported[Len(buf) + i] = fbIn[i]
<1>1. buf \in Seq(Feedbacks) /\ fbIn \in Seq(Feedbacks)
  BY DEF TypeOK
<1>2. Len(buf) \in Nat /\ Len(fbIn) \in Nat
  BY <1>1, LenProperties
<1>3. Reported = buf \o fbIn
  BY DEF Reported, MergeHARQ
<1> QED
  BY <1>1, <1>2, <1>3, ConcatProperties

LEMMA AirIs ==
    ASSUME TypeOK, NEW t \in air
    PROVE  t.proc \in Procs /\ t.age \in 0..(MaxDelay - 1) /\ t.tb \in {0, 1}
           /\ t = [proc |-> t.proc, tb |-> t.tb, age |-> t.age]
  BY DEF TypeOK

THEOREM InitHolds == Init => HarqHolds
<1> SUFFICES ASSUME Init PROVE HarqHolds
  OBVIOUS
<1>1. procs = [p \in Procs |-> Inactive] /\ tb = [p \in Procs |-> 0]
      /\ air = {} /\ fbIn = <<>> /\ buf = <<>> /\ at = 1
  BY DEF Init
<1>2. <<>> \in Seq(Feedbacks) /\ Len(<<>>) = 0 /\ <<>> \o <<>> = <<>>
  OBVIOUS
<1>3. 1 \in DOMAIN Pattern
  <2>1. Len(Pattern) \in Nat /\ DOMAIN Pattern = 1..Len(Pattern)
    BY PatternAssumption, LenProperties
  <2>2. Len(Pattern) # 0
    BY PatternAssumption, EmptySeq
  <2> QED
    BY <2>1, <2>2
<1>4. TypeOK
  BY <1>1, <1>2, <1>3 DEF TypeOK
<1>5. Reported = <<>>
  BY <1>1, <1>2 DEF Reported, MergeHARQ
<1> QED
  BY <1>1, <1>2, <1>4, <1>5 DEF HarqHolds, AirFits, ReportFits, OnlyNacksWait, OneEach, Distinct

-----------------------------------------------------------------------------
(* PHY's steps. *)
LEMMA LoseHolds ==
    ASSUME HarqHolds, NEW t \in air, Lose(t)
    PROVE  HarqHolds'
<1>1. air' \subseteq air /\ procs' = procs /\ tb' = tb /\ fbIn' = fbIn /\ buf' = buf /\ at' = at
  BY DEF Lose
<1>2. Reported' = Reported
  BY <1>1 DEF Reported
<1>3. TypeOK'
  BY <1>1 DEF HarqHolds, TypeOK
<1> QED
  BY <1>1, <1>2, <1>3 DEF HarqHolds, AirFits, ReportFits, OnlyNacksWait, OneEach, Fits

LEMMA FeedbackHolds ==
    ASSUME HarqHolds, NEW t \in air, NEW ok \in BOOLEAN, Feedback(t, ok)
    PROVE  HarqHolds'
<1> DEFINE f == [proc |-> t.proc, tb |-> t.tb, ok |-> ok]
           l == Len(Reported)
<1>1. air' = air \ {t} /\ procs' = procs /\ tb' = tb /\ fbIn' = Append(fbIn, f)
      /\ buf' = buf /\ at' = at
  BY DEF Feedback
<1>2. /\ TypeOK /\ AirFits /\ ReportFits /\ OnlyNacksWait /\ OneEach
  BY DEF HarqHolds
<1>3. f \in Feedbacks /\ f.proc = t.proc /\ f.tb = t.tb
  BY <1>2, AirIs DEF Feedbacks
<1> HIDE DEF f
<1>4. fbIn' \in Seq(Feedbacks) /\ fbIn \in Seq(Feedbacks) /\ buf \in Seq(Feedbacks)
      /\ Len(fbIn') = Len(fbIn) + 1 /\ Len(fbIn) \in Nat /\ Len(buf) \in Nat
      /\ (\A i \in 1..Len(fbIn) : fbIn'[i] = fbIn[i]) /\ fbIn'[Len(fbIn) + 1] = f
  BY <1>1, <1>2, <1>3, AppendProperties, LenProperties DEF TypeOK
<1>5. TypeOK'
  BY <1>1, <1>2, <1>4 DEF TypeOK
<1>6. /\ l \in Nat /\ Len(Reported') = l + 1
      /\ (\A i \in 1..l : Reported'[i] = Reported[i]) /\ Reported'[l + 1] = f
  <2>1. Reported' = buf \o fbIn' /\ Reported = buf \o fbIn
    BY <1>1 DEF Reported, MergeHARQ
  <2>2. /\ Len(Reported') = Len(buf) + Len(fbIn) + 1 /\ l = Len(buf) + Len(fbIn)
        /\ \A i \in 1..Len(Reported') :
              Reported'[i] = IF i <= Len(buf) THEN buf[i] ELSE fbIn'[i - Len(buf)]
        /\ \A i \in 1..l :
              Reported[i] = IF i <= Len(buf) THEN buf[i] ELSE fbIn[i - Len(buf)]
    BY <1>4, <2>1, ConcatProperties
  <2>3. ASSUME NEW i \in 1..l PROVE Reported'[i] = Reported[i]
    <3>1. ~(i <= Len(buf)) => i - Len(buf) \in 1..Len(fbIn)
      BY <1>4, <2>2
    <3>2. i \in 1..Len(Reported')
      BY <1>4, <2>2
    <3> QED
      BY <1>4, <2>2, <3>1, <3>2
  <2>4. Reported'[l + 1] = f
    <3>1. l + 1 \in 1..Len(Reported') /\ ~(l + 1 <= Len(buf)) /\ (l + 1) - Len(buf) = Len(fbIn) + 1
      BY <1>4, <2>2
    <3> QED
      BY <1>4, <2>2, <3>1
  <2> QED
    BY <1>4, <2>2, <2>3, <2>4
<1>7. \A i \in 1..(l + 1) : i \in 1..l \/ i = l + 1
  BY <1>6
<1> HIDE DEF l
<1>8. \A i \in 1..l : i \in 1..Len(Reported)
  BY DEF l
<1>9. AirFits'
  BY <1>1, <1>2 DEF AirFits, Fits
<1>10. ReportFits'
  <2>1. \A i \in 1..(l + 1) : Fits(Reported'[i].proc, Reported'[i].tb)
    BY <1>2, <1>3, <1>6, <1>7, <1>8 DEF ReportFits, AirFits
  <2> QED
    BY <1>1, <1>6, <2>1 DEF ReportFits, Fits
<1>11. OneEach'
  <2>1. \A s, u \in air' : s.proc = u.proc => s = u
    BY <1>1, <1>2 DEF OneEach
  <2>2. \A i, j \in 1..(l + 1) : Reported'[i].proc = Reported'[j].proc => i = j
    <3> TAKE i, j \in 1..(l + 1)
    <3>1. i \in 1..l /\ j \in 1..l => (Reported[i].proc = Reported[j].proc => i = j)
      BY <1>2, <1>8 DEF OneEach, Distinct
    <3>2. \A x \in 1..l : Reported[x].proc # f.proc
      BY <1>2, <1>3, <1>8 DEF OneEach
    <3> QED
      BY <1>6, <1>7, <3>1, <3>2
  <2>3. \A u \in air', i \in 1..(l + 1) : Reported'[i].proc # u.proc
    BY <1>1, <1>2, <1>3, <1>6, <1>7, <1>8 DEF OneEach
  <2> QED
    BY <1>6, <2>1, <2>2, <2>3 DEF OneEach, Distinct
<1>12. OnlyNacksWait'
  BY <1>1, <1>2 DEF OnlyNacksWait
<1> QED
  BY <1>5, <1>9, <1>10, <1>11, <1>12 DEF HarqHolds

-----------------------------------------------------------------------------
(* A slot. *)

(* A process a slot older: nothing pending is old enough to expire. *)
LEMMA TimedIs ==
    ASSUME HarqHolds
    PROVE  /\ Feeds(Timed, Reported)
           /\ \A p \in Procs : \A b \in {0, 1} : Fits(p, b) =>
                 /\ Timed[p] \in Live /\ Timed[p].timer = procs[p].timer + 1
                 /\ Timed[p].rv = procs[p].rv /\ Timed[p].sym = procs[p].sym
<1>1. /\ TypeOK /\ ReportFits /\ OneEach
  BY DEF HarqHolds
<1>2. procs \in [Procs -> Proc]
  BY <1>1 DEF TypeOK, Proc, Live
<1>3. ASSUME NEW h \in Live
      PROVE  /\ ResetExpiredHARQ(h) \in Proc
             /\ h.timer < NumHarq =>
                   LET r == ResetExpiredHARQ(h) IN
                   r \in Live /\ r.timer = h.timer + 1 /\ r.rv = h.rv /\ r.sym = h.sym
  <2>1. CASE h.timer < NumHarq
    <3>1. ResetExpiredHARQ(h) = [h EXCEPT !.timer = h.timer + 1]
      BY <2>1, LiveIs DEF ResetExpiredHARQ, Live
    <3>2. h.timer + 1 \in 0..NumHarq
      BY <2>1, LiveIs, IdAssumption
    <3> QED
      BY <3>1, <3>2 DEF Live, Proc
  <2>2. CASE ~(h.timer < NumHarq)
    BY <2>2, LiveIs DEF ResetExpiredHARQ, Proc
  <2> QED
    BY <2>1, <2>2
<1>4. Timed \in [Procs -> Proc]
  <2>1. \A p \in Procs : ResetExpiredHARQ(procs[p]) \in Proc
    <3> TAKE p \in Procs
    <3>1. CASE procs[p] = Inactive
      BY <3>1 DEF ResetExpiredHARQ, Inactive, Proc
    <3>2. CASE procs[p] \in Live
      BY <1>3, <3>2
    <3> QED
      BY <1>2, <3>1, <3>2 DEF Proc
  <2> QED
    BY <2>1 DEF Timed
<1>5. ASSUME NEW p \in Procs, NEW b \in {0, 1}, Fits(p, b)
      PROVE  /\ Timed[p] \in Live /\ Timed[p].timer = procs[p].timer + 1
             /\ Timed[p].rv = procs[p].rv /\ Timed[p].sym = procs[p].sym
  <2>1. procs[p] \in Live /\ procs[p].timer < NumHarq
    BY <1>5, LiveIs, DelayAssumption, IdAssumption DEF Fits
  <2>2. Timed[p] = ResetExpiredHARQ(procs[p])
    BY DEF Timed
  <2> QED
    BY <1>3, <2>1, <2>2
<1>6. Feeds(Timed, Reported)
  <2>1. \A i \in 1..Len(Reported) : Reported[i].proc \in Procs /\ Reported[i].tb \in {0, 1}
    <3>1. \A f \in Feedbacks : f.proc \in Procs /\ f.tb \in {0, 1}
      BY DEF Feedbacks
    <3>2. \A i \in 1..Len(Reported) : Reported[i] \in Feedbacks
      BY <1>1, ReportedIs, ElementOfSeq
    <3> QED
      BY <3>1, <3>2
  <2>2. \A i \in 1..Len(Reported) : Timed[Reported[i].proc] \in Live
    BY <1>1, <1>5, <2>1 DEF ReportFits
  <2> QED
    BY <1>1, <1>4, <2>2, ReportedIs DEF Feeds, OneEach
<1> QED
  BY <1>5, <1>6

(* What a slot does, in the terms of its pass and of its new TBs n. *)
SlotPass == ScheduleUlHarq(Timed, Reported, Pattern[at])[Len(Reported)]
Fresh(n) == {p \in DOMAIN n : n[p] > 0}
Slot(pass, n) ==
    /\ \A t \in air : t.age < MaxDelay - 1
    /\ n \in Chosen(pass)
    /\ procs' = [p \in Procs |-> IF p \in Fresh(n) THEN NewTb(n[p]) ELSE pass.procs[p]]
    /\ tb' = [p \in Procs |-> IF p \in Fresh(n) THEN 1 - tb[p] ELSE tb[p]]
    /\ air' = {[t EXCEPT !.age = @ + 1] : t \in air}
              \cup {[proc |-> p, tb |-> tb'[p], age |-> 0] : p \in pass.sent \cup Fresh(n)}
    /\ buf' = pass.buf /\ fbIn' = <<>> /\ at' = (at % Len(Pattern)) + 1

LEMMA UlTriggerIs ==
    ASSUME UlTrigger
    PROVE  ~Fatal(Timed, Reported) /\ \E n : Slot(SlotPass, n)
  BY Zenon DEF UlTrigger, Slot, SlotPass, Timed, Reported, Fresh

(* The parts of a slot the invariant and the action properties need. *)
LEMMA SlotIs ==
    ASSUME HarqHolds, NEW pass, pass = SlotPass, NEW n, Slot(pass, n)
    PROVE  LET marked == ProcessHARQFeedbacks(Timed, Reported) IN
           /\ PassOK(pass, Timed, Reported, Pattern[at], Len(Reported))
           /\ marked \in [Procs -> Proc]
           /\ \A p \in Fresh(n) : /\ p \in Procs /\ procs'[p] = NewTb(n[p])
                                  /\ NewTb(n[p]) \in Live /\ tb'[p] = 1 - tb[p]
                                  /\ marked[p] = Inactive
                                  /\ p \notin pass.sent
           /\ \A p \in Procs \ Fresh(n) : procs'[p] = pass.procs[p] /\ tb'[p] = tb[p]
           /\ \A t \in air : /\ t.proc \notin Fresh(n) /\ t.proc \notin pass.sent
                             /\ pass.procs[t.proc] = Timed[t.proc]
           /\ \A i \in 1..Len(Reported) :
                 LET p == Reported[i].proc IN
                 IF Nack(Timed, Reported[i])
                 THEN /\ pass.procs[p] \in Live /\ marked[p] \in Live
                      /\ marked[p].rv = procs[p].rv /\ marked[p].sym = procs[p].sym
                      /\ p \notin Fresh(n)
                 ELSE marked[p] = Inactive /\ pass.procs[p] = Inactive
<1> DEFINE marked == ProcessHARQFeedbacks(Timed, Reported)
           cap == Pattern[at]
           N == Len(Reported)
<1>1. TypeOK /\ AirFits /\ ReportFits /\ OneEach
  BY DEF HarqHolds
<1>2. Feeds(Timed, Reported)
  BY TimedIs
<1>3. cap \in Nat /\ \A x \in 1..cap : x \in Syms
  <2>1. at \in DOMAIN Pattern
    BY <1>1 DEF TypeOK
  <2>2. cap \in Nat
    BY <2>1, PatternAssumption, LenProperties, ElementOfSeq
  <2> QED
    BY <2>1, <2>2 DEF Syms
<1>4. PassOK(pass, Timed, Reported, cap, N)
  BY <1>2, <1>3, PassHolds DEF SlotPass
<1>5. /\ PassTyped(pass, cap) /\ PassFrom(pass, Timed, Reported, N)
      /\ PassKeeps(pass, marked, Reported, N)
  BY <1>4 DEF PassOK
<1>6. marked \in [Procs -> Proc]
  BY <1>2, ProcessedIs
<1>7. \A i \in 1..N :
         IF Nack(Timed, Reported[i])
         THEN /\ marked[Reported[i].proc] \in Live
              /\ marked[Reported[i].proc].rv = Timed[Reported[i].proc].rv
              /\ marked[Reported[i].proc].sym = Timed[Reported[i].proc].sym
         ELSE marked[Reported[i].proc] = Inactive
  BY <1>2, ProcessedIs
<1>8. \A p \in Procs : (\A i \in 1..N : Reported[i].proc # p) => marked[p] = Timed[p]
  BY <1>2, ProcessedIs
<1>9. \A i \in 1..N : Reported[i].proc \in Procs /\ Reported[i].tb \in {0, 1}
  <2>1. \A f \in Feedbacks : f.proc \in Procs /\ f.tb \in {0, 1}
    BY DEF Feedbacks
  <2>2. \A i \in 1..N : Reported[i] \in Feedbacks
    BY <1>1, ReportedIs, ElementOfSeq
  <2> QED
    BY <2>1, <2>2
<1> HIDE DEF marked, cap
<1>10. Inactive \notin Live
  BY DEF Inactive, Live
<1>11. ASSUME NEW p \in Fresh(n)
       PROVE  /\ p \in Procs /\ n[p] \in 1..cap /\ pass.procs[p] = Inactive
              /\ marked[p] = Inactive /\ p \notin pass.sent
  <2>1. n \in Chosen(pass)
    BY DEF Slot
  <2>2. p \in Procs /\ MayCarryData(pass, p) /\ n[p] \in 0..pass.sym /\ n[p] > 0
    BY <2>1 DEF Chosen, Fresh
  <2>3. n[p] \in 1..cap
    BY <1>3, <1>5, <2>2 DEF PassTyped
  <2>4. pass.procs[p] = Inactive
    <3>1. pass.procs[p] \in Proc /\ pass.procs[p].status = "INACTIVE"
      BY <1>5, <2>2 DEF PassTyped, MayCarryData
    <3> QED
      BY <3>1, LiveIs DEF Proc
  <2>5. marked[p] = Inactive
    BY <1>5, <1>6, <1>10, <2>2, <2>4 DEF PassKeeps, Proc
  <2>6. p \notin pass.sent
    BY <1>5, <1>10, <2>4 DEF PassFrom
  <2> QED
    BY <2>2, <2>3, <2>4, <2>5, <2>6
<1>12. \A x \in 1..cap : NewTb(x) \in Live
  BY <1>3, IdAssumption DEF NewTb, Live
<1>13. /\ \A p \in Fresh(n) : procs'[p] = NewTb(n[p]) /\ tb'[p] = 1 - tb[p]
       /\ \A p \in Procs \ Fresh(n) : procs'[p] = pass.procs[p] /\ tb'[p] = tb[p]
  BY <1>11 DEF Slot
<1>14. ASSUME NEW t \in air
       PROVE  /\ t.proc \notin Fresh(n) /\ t.proc \notin pass.sent
              /\ pass.procs[t.proc] = Timed[t.proc]
  <2>1. t.proc \in Procs /\ t.tb \in {0, 1}
    BY <1>1, AirIs
  <2>2. \A i \in 1..N : Reported[i].proc # t.proc
    BY <1>1 DEF OneEach
  <2>3. marked[t.proc] = Timed[t.proc] /\ pass.procs[t.proc] = marked[t.proc]
    BY <1>5, <1>8, <2>1, <2>2 DEF PassKeeps
  <2>4. Timed[t.proc] \in Live
    BY <1>1, <2>1, TimedIs DEF AirFits
  <2>5. t.proc \notin pass.sent
    BY <1>5, <2>2 DEF PassFrom
  <2> QED
    BY <1>10, <1>11, <2>3, <2>4, <2>5
<1>15. ASSUME NEW i \in 1..N, NEW p, p = Reported[i].proc
       PROVE  IF Nack(Timed, Reported[i])
              THEN /\ pass.procs[p] \in Live /\ marked[p] \in Live
                   /\ marked[p].rv = procs[p].rv /\ marked[p].sym = procs[p].sym
                   /\ p \notin Fresh(n)
              ELSE marked[p] = Inactive /\ pass.procs[p] = Inactive
  <2>1. CASE Nack(Timed, Reported[i])
    <3>1. marked[p] \in Live /\ marked[p].rv = Timed[p].rv /\ marked[p].sym = Timed[p].sym
      BY <1>7, <1>15, <2>1
    <3>2. Timed[p].rv = procs[p].rv /\ Timed[p].sym = procs[p].sym
      BY <1>1, <1>9, <1>15, TimedIs DEF ReportFits
    <3>3. pass.procs[p] \in Live
      BY <1>5, <1>9, <1>15, <3>1 DEF PassKeeps
    <3> QED
      BY <1>10, <1>11, <2>1, <3>1, <3>2, <3>3
  <2>2. CASE ~Nack(Timed, Reported[i])
    <3>1. marked[p] = Inactive
      BY <1>7, <1>15, <2>2
    <3> QED
      BY <1>5, <1>9, <1>10, <1>15, <2>2, <3>1 DEF PassKeeps
  <2> QED
    BY <2>1, <2>2
<1>16. \A p \in Fresh(n) : NewTb(n[p]) \in Live
  BY <1>11, <1>12
<1>17. \A i \in 1..N :
          LET p == Reported[i].proc IN
          IF Nack(Timed, Reported[i])
          THEN /\ pass.procs[p] \in Live /\ marked[p] \in Live
               /\ marked[p].rv = procs[p].rv /\ marked[p].sym = procs[p].sym
               /\ p \notin Fresh(n)
          ELSE marked[p] = Inactive /\ pass.procs[p] = Inactive
  BY <1>15
<1> QED
  BY <1>4, <1>6, <1>11, <1>13, <1>14, <1>16, <1>17 DEF marked, cap

(* The rest of a slot's new state: what it leaves in the air and reported. *)
LEMMA SlotLeaves ==
    ASSUME HarqHolds, NEW pass, pass = SlotPass, NEW n, Slot(pass, n)
    PROVE  /\ \A t \in air' :
                 \/ \E u \in air : t.proc = u.proc /\ t.tb = u.tb /\ t.age = u.age + 1
                                   /\ t = [proc |-> u.proc, tb |-> u.tb, age |-> u.age + 1]
                 \/ /\ t.proc \in pass.sent \cup Fresh(n)
                    /\ t = [proc |-> t.proc, tb |-> tb'[t.proc], age |-> 0]
           /\ Reported' = pass.buf
           /\ \A i \in 1..Len(pass.buf) :
                 /\ \E j \in 1..Len(Reported) :
                       pass.buf[i] = Reported[j] /\ Nack(Timed, Reported[j])
                 /\ pass.procs[pass.buf[i].proc].timer = 0
                 /\ pass.buf[i].proc \notin pass.sent
<1>1. TypeOK
  BY DEF HarqHolds
<1>2. PassOK(pass, Timed, Reported, Pattern[at], Len(Reported))
  BY SlotIs
<1>3. PassTyped(pass, Pattern[at]) /\ PassFrom(pass, Timed, Reported, Len(Reported))
  BY <1>2 DEF PassOK
<1>4. Reported' = pass.buf
  <2>1. pass.buf \in Seq(Feedbacks)
    BY <1>3 DEF PassTyped
  <2>2. Reported' = pass.buf \o <<>>
    BY DEF Slot, Reported, MergeHARQ
  <2> QED
    BY <2>1, <2>2
<1>5. ASSUME NEW t \in air'
      PROVE  \/ \E u \in air : t.proc = u.proc /\ t.tb = u.tb /\ t.age = u.age + 1
                               /\ t = [proc |-> u.proc, tb |-> u.tb, age |-> u.age + 1]
             \/ /\ t.proc \in pass.sent \cup Fresh(n)
                /\ t = [proc |-> t.proc, tb |-> tb'[t.proc], age |-> 0]
  <2>1. \/ t \in {[u EXCEPT !.age = @ + 1] : u \in air}
        \/ t \in {[proc |-> p, tb |-> tb'[p], age |-> 0] : p \in pass.sent \cup Fresh(n)}
    BY DEF Slot
  <2>2. CASE t \in {[u EXCEPT !.age = @ + 1] : u \in air}
    <3>1. PICK u \in air : t = [u EXCEPT !.age = @ + 1]
      BY <2>2
    <3>2. u = [proc |-> u.proc, tb |-> u.tb, age |-> u.age]
      BY <1>1, AirIs
    <3> DEFINE a == u.proc
               b == u.tb
               c == u.age
    <3>3. u = [proc |-> a, tb |-> b, age |-> c]
      BY <3>2
    <3>4. t = [proc |-> a, tb |-> b, age |-> c + 1]
      <4> HIDE DEF a, b, c
      <4> QED
        BY <3>1, <3>3
    <3> QED
      BY <3>4
  <2>3. CASE t \in {[proc |-> p, tb |-> tb'[p], age |-> 0] : p \in pass.sent \cup Fresh(n)}
    BY <2>3
  <2> QED
    BY <2>1, <2>2, <2>3
<1> QED
  BY <1>3, <1>4, <1>5 DEF PassFrom

LEMMA SlotHolds ==
    ASSUME HarqHolds, NEW pass, pass = SlotPass, NEW n, Slot(pass, n)
    PROVE  HarqHolds'
<1> DEFINE N == Len(Reported)
           Later(p, b) == /\ procs'[p] \in Live /\ tb'[p] = b
                          /\ procs'[p].timer <= MaxDelay - 1
           Here(t, u) == t.proc = u.proc /\ t.tb = u.tb /\ t.age = u.age + 1
                         /\ t = [proc |-> u.proc, tb |-> u.tb, age |-> u.age + 1]
           Sent(t) == /\ t.proc \in pass.sent \cup Fresh(n)
                      /\ t = [proc |-> t.proc, tb |-> tb'[t.proc], age |-> 0]
<1>1. TypeOK /\ AirFits /\ ReportFits /\ OnlyNacksWait /\ OneEach
  BY DEF HarqHolds
<1>2. /\ PassTyped(pass, Pattern[at]) /\ PassFrom(pass, Timed, Reported, N)
  BY SlotIs DEF PassOK
<1>3. /\ \A p \in Fresh(n) : /\ p \in Procs /\ procs'[p] = NewTb(n[p])
                             /\ NewTb(n[p]) \in Live /\ tb'[p] = 1 - tb[p]
                             /\ p \notin pass.sent
      /\ \A p \in Procs \ Fresh(n) : procs'[p] = pass.procs[p] /\ tb'[p] = tb[p]
  BY SlotIs
<1>4. \A t \in air : /\ t.proc \notin Fresh(n) /\ t.proc \notin pass.sent
                     /\ pass.procs[t.proc] = Timed[t.proc] /\ t.age < MaxDelay - 1
  BY SlotIs DEF Slot
<1>5. \A i \in 1..N : Nack(Timed, Reported[i]) =>
         /\ pass.procs[Reported[i].proc] \in Live /\ Reported[i].proc \notin Fresh(n)
         /\ ~Reported[i].ok
  BY SlotIs DEF Nack, Over
<1>6. \A t \in air' : (\E u \in air : Here(t, u)) \/ Sent(t)
  BY SlotLeaves
<1>7. Reported' = pass.buf /\ buf' = pass.buf /\ fbIn' = <<>> /\ at' = (at % Len(Pattern)) + 1
  BY SlotLeaves DEF Slot
<1>8. \A i \in 1..Len(pass.buf) :
         /\ \E j \in 1..N : pass.buf[i] = Reported[j] /\ Nack(Timed, Reported[j])
         /\ pass.procs[pass.buf[i].proc].timer = 0
         /\ pass.buf[i].proc \notin pass.sent
  BY SlotLeaves
<1>9. \A t \in air : t.proc \in Procs /\ t.age \in 0..(MaxDelay - 1) /\ t.tb \in {0, 1}
  BY <1>1, AirIs
<1>10. \A i \in 1..N : Reported[i].proc \in Procs
  BY <1>1, ReportedIs, FeedbacksAre
<1>11. MaxDelay \in Nat /\ MaxDelay >= 1 /\ NumHarq \in Nat
  BY IdAssumption, DelayAssumption
<1>12. \A p \in pass.sent : /\ p \in Procs /\ p \notin Fresh(n)
                            /\ pass.procs[p] \in Live /\ pass.procs[p].timer = 0
  BY <1>2, <1>3 DEF PassTyped, PassFrom
<1>13. \A p \in Fresh(n) : NewTb(n[p]).timer = 0
  BY DEF NewTb
<1>14. tb' \in [Procs -> {0, 1}] /\ \A p \in Procs : tb'[p] \in {0, 1}
  <2>1. \A p \in Procs : tb[p] \in {0, 1} /\ 1 - tb[p] \in {0, 1}
    BY <1>1 DEF TypeOK
  <2>2. tb' = [p \in Procs |-> IF p \in Fresh(n) THEN 1 - tb[p] ELSE tb[p]]
    BY DEF Slot
  <2> QED
    BY <2>1, <2>2
<1>15. procs' \in [Procs -> Proc]
  <2>1. \A p \in Procs : procs'[p] \in Proc
    BY <1>2, <1>3 DEF PassTyped, Proc
  <2>2. procs' = [p \in Procs |-> IF p \in Fresh(n) THEN NewTb(n[p]) ELSE pass.procs[p]]
    BY DEF Slot
  <2> QED
    BY <2>1, <2>2
<1> HIDE DEF Here, Sent, N
<1>16. ASSUME NEW t \in air', NEW u \in air, Here(t, u)
       PROVE  /\ t \in [proc : Procs, tb : {0, 1}, age : 0 .. MaxDelay - 1]
              /\ Fits(t.proc, t.tb)' /\ procs'[t.proc].timer = t.age
              /\ t.proc = u.proc /\ t.proc \notin pass.sent \cup Fresh(n)
  <2>1. t.proc = u.proc /\ t.tb = u.tb /\ t.age = u.age + 1
        /\ t = [proc |-> u.proc, tb |-> u.tb, age |-> u.age + 1]
    BY <1>16 DEF Here
  <2>2. u.age + 1 \in 0..(MaxDelay - 1)
    BY <1>4, <1>9, <1>11
  <2>3. Fits(u.proc, u.tb) /\ procs[u.proc].timer = u.age
    BY <1>1 DEF AirFits
  <2>4. /\ Timed[u.proc] \in Live /\ Timed[u.proc].timer = procs[u.proc].timer + 1
    BY <1>9, <2>3, TimedIs
  <2>5. procs'[t.proc] = Timed[u.proc] /\ tb'[t.proc] = tb[u.proc]
    BY <1>3, <1>4, <1>9, <2>1
  <2>6. t \in [proc : Procs, tb : {0, 1}, age : 0 .. MaxDelay - 1]
    BY <1>9, <2>1, <2>2
  <2>7. Fits(t.proc, t.tb)'
    <3>1. procs'[t.proc].timer = u.age + 1 /\ u.age + 1 <= MaxDelay - 1
      BY <1>9, <1>11, <2>2, <2>3, <2>4, <2>5
    <3> QED
      BY <2>1, <2>3, <2>4, <2>5, <3>1 DEF Fits
  <2> QED
    BY <1>4, <2>1, <2>3, <2>4, <2>5, <2>6, <2>7
<1>17. ASSUME NEW t \in air', Sent(t)
       PROVE  /\ t \in [proc : Procs, tb : {0, 1}, age : 0 .. MaxDelay - 1]
              /\ Fits(t.proc, t.tb)' /\ procs'[t.proc].timer = t.age
              /\ t.proc \in pass.sent \cup Fresh(n)
              /\ t = [proc |-> t.proc, tb |-> tb'[t.proc], age |-> 0]
  <2>1. t.proc \in pass.sent \cup Fresh(n)
        /\ t = [proc |-> t.proc, tb |-> tb'[t.proc], age |-> 0]
    BY <1>17 DEF Sent
  <2> DEFINE p == t.proc
  <2>2. p \in Procs /\ procs'[p] \in Live /\ procs'[p].timer = 0
    BY <1>3, <1>12, <1>13, <2>1
  <2>3. t.tb = tb'[p] /\ t.age = 0 /\ 0 \in 0..(MaxDelay - 1) /\ tb'[p] \in {0, 1}
    BY <1>11, <1>14, <2>1, <2>2
  <2>4. t \in [proc : Procs, tb : {0, 1}, age : 0 .. MaxDelay - 1]
    <3> HIDE DEF p
    <3>1. t = [proc |-> p, tb |-> tb'[p], age |-> 0]
      BY <2>1 DEF p
    <3> QED
      BY <2>2, <2>3, <3>1
  <2>5. Fits(t.proc, t.tb)'
    BY <1>11, <2>2, <2>3 DEF Fits
  <2> QED
    BY <2>1, <2>2, <2>3, <2>4, <2>5
<1>18. TypeOK'
  <2>1. procs' \in [Procs -> {Inactive} \cup
                    [status : {"WAITING_FEEDBACK", "RECEIVED_FEEDBACK"},
                     timer : 0 .. NumHarq, rv : 0 .. MaxRv, sym : Syms]]
    BY <1>15 DEF Proc, Live
  <2>2. air' \subseteq [proc : Procs, tb : {0, 1}, age : 0 .. MaxDelay - 1]
    BY <1>6, <1>16, <1>17
  <2>3. fbIn' \in Seq(Feedbacks) /\ buf' \in Seq(Feedbacks)
    <3>1. <<>> \in Seq(Feedbacks)
      OBVIOUS
    <3> QED
      BY <1>2, <1>7, <3>1 DEF PassTyped
  <2>4. at' \in DOMAIN Pattern
    <3>1. Len(Pattern) \in Nat /\ DOMAIN Pattern = 1..Len(Pattern) /\ Len(Pattern) # 0
      BY PatternAssumption, LenProperties, EmptySeq
    <3> DEFINE l == Len(Pattern)
    <3>2. at \in 1..l /\ l \in Nat /\ l > 0
      BY <1>1, <3>1 DEF TypeOK
    <3> HIDE DEF l
    <3>3. at % l \in 0..(l - 1)
      BY <3>2
    <3>4. (at % l) + 1 \in 1..l
      BY <3>2, <3>3
    <3> QED
      BY <1>7, <3>1, <3>4 DEF l
  <2> QED
    BY <1>14, <2>1, <2>2, <2>3, <2>4 DEF TypeOK
<1>19. AirFits'
  BY <1>6, <1>16, <1>17 DEF AirFits
<1>20. ASSUME NEW i \in 1..Len(pass.buf)
       PROVE  \E j \in 1..N :
                 /\ pass.buf[i] = Reported[j] /\ Later(Reported[j].proc, Reported[j].tb)
                 /\ ~Reported[j].ok /\ Reported[j].proc \notin pass.sent \cup Fresh(n)
  <2>1. PICK j \in 1..N : pass.buf[i] = Reported[j] /\ Nack(Timed, Reported[j])
    BY <1>8
  <2> DEFINE p == Reported[j].proc
  <2>2. /\ pass.procs[p] \in Live /\ p \notin Fresh(n) /\ p \notin pass.sent /\ p \in Procs
        /\ pass.procs[p].timer = 0 /\ ~Reported[j].ok
    BY <1>5, <1>8, <1>10, <2>1
  <2>3. procs'[p] = pass.procs[p] /\ tb'[p] = tb[p]
    BY <1>3, <2>2
  <2>4. tb[p] = Reported[j].tb
    BY <1>1 DEF ReportFits, Fits, N
  <2>5. Later(Reported[j].proc, Reported[j].tb)
    BY <1>11, <2>2, <2>3, <2>4
  <2> QED
    BY <2>1, <2>2, <2>5
<1>21. ReportFits' /\ OnlyNacksWait'
  <2>1. \A i \in 1..Len(Reported') : Later(Reported'[i].proc, Reported'[i].tb)
    BY <1>7, <1>20
  <2> QED
    BY <1>7, <1>20, <2>1 DEF ReportFits, OnlyNacksWait, Fits
<1>22. OneEach'
  <2>1. \A t, u \in air' : t.proc = u.proc => t = u
    <3> SUFFICES ASSUME NEW t \in air', NEW u \in air', t.proc = u.proc PROVE t = u
      OBVIOUS
    <3>1. CASE Sent(t) /\ Sent(u)
      BY <1>17, <3>1
    <3>2. CASE \E x, y \in air : Here(t, x) /\ Here(u, y)
      <4>1. PICK x \in air, y \in air : Here(t, x) /\ Here(u, y)
        BY <3>2
      <4>2. x.proc = y.proc
        BY <1>16, <4>1
      <4>3. x = y
        BY <1>1, <4>2 DEF OneEach
      <4> QED
        BY <4>1, <4>3 DEF Here
    <3>3. CASE Sent(t) /\ \E y \in air : Here(u, y)
      BY <1>16, <1>17, <3>3
    <3>4. CASE Sent(u) /\ \E x \in air : Here(t, x)
      BY <1>16, <1>17, <3>4
    <3> QED
      BY <1>6, <3>1, <3>2, <3>3, <3>4
  <2>2. Distinct(Reported')
    BY <1>2, <1>7 DEF PassTyped
  <2>3. \A t \in air', i \in 1..Len(pass.buf) : pass.buf[i].proc # t.proc
    <3> SUFFICES ASSUME NEW t \in air', NEW i \in 1..Len(pass.buf) PROVE pass.buf[i].proc # t.proc
      OBVIOUS
    <3>1. PICK j \in 1..N : /\ pass.buf[i] = Reported[j]
                            /\ Reported[j].proc \notin pass.sent \cup Fresh(n)
      BY <1>20
    <3>2. CASE Sent(t)
      BY <1>17, <3>1, <3>2
    <3>3. CASE \E u \in air : Here(t, u)
      <4>1. PICK u \in air : Here(t, u)
        BY <3>3
      <4>2. t.proc = u.proc
        BY <1>16, <4>1
      <4>3. Reported[j].proc # u.proc
        BY <1>1 DEF OneEach, N
      <4> QED
        BY <3>1, <4>2, <4>3
    <3> QED
      BY <1>6, <3>2, <3>3
  <2> QED
    BY <1>7, <2>1, <2>2, <2>3 DEF OneEach
<1> QED
  BY <1>18, <1>19, <1>21, <1>22 DEF HarqHolds

LEMMA NextHolds == HarqHolds /\ [Next]_vars => HarqHolds'
<1> SUFFICES ASSUME HarqHolds, [Next]_vars PROVE HarqHolds'
  OBVIOUS
<1>1. CASE UlTrigger
  BY <1>1, UlTriggerIs, SlotHolds
<1>2. ASSUME NEW t \in air, NEW ok \in BOOLEAN, Feedback(t, ok) PROVE HarqHolds'
  BY <1>2, FeedbackHolds
<1>3. ASSUME NEW t \in air, Lose(t) PROVE HarqHolds'
  BY <1>3, LoseHolds
<1>4. CASE UNCHANGED vars
  <2>1. procs' = procs /\ tb' = tb /\ air' = air /\ fbIn' = fbIn /\ buf' = buf /\ at' = at
    BY <1>4 DEF vars
  <2>2. Reported' = Reported
    BY <2>1 DEF Reported
  <2> QED
    BY <2>1, <2>2 DEF HarqHolds, TypeOK, AirFits, ReportFits, OnlyNacksWait, OneEach, Fits
<1> QED
  BY <1>1, <1>2, <1>3, <1>4 DEF Next

(* The invariant holds in every state of every behaviour. *)
THEOREM Invariance == Spec => []HarqHolds
  BY InitHolds, NextHolds, PTL DEF Spec

(* The processes, buffers and transmissions keep their types. *)
THEOREM TypeCorrect == Spec => []TypeOK
<1>1. HarqHolds => TypeOK
  BY DEF HarqHolds
<1> QED
  BY <1>1, Invariance, PTL

-----------------------------------------------------------------------------
(* Feedback meets the TB it is about. *)
LEMMA PendingIsOne ==
    ASSUME HarqHolds, NEW p \in Procs
    PROVE  /\ Pending(p) # {} => procs[p].status # "INACTIVE"
           /\ \A x, y \in Pending(p) : x = y
<1>1. TypeOK /\ AirFits /\ ReportFits /\ OneEach
  BY DEF HarqHolds
<1>2. /\ DOMAIN fbIn = 1..Len(fbIn) /\ DOMAIN buf = 1..Len(buf)
      /\ Len(buf) \in Nat /\ Len(fbIn) \in Nat
  BY <1>1, LenProperties DEF TypeOK
<1>3. ASSUME NEW x \in Pending(p)
      PROVE  \/ \E t \in air : x = <<"air", t>> /\ t.proc = p
             \/ \E i \in 1..Len(fbIn) : /\ x = <<"fb", i>> /\ Len(buf) + i \in 1..Len(Reported)
                                        /\ Reported[Len(buf) + i].proc = p
             \/ \E i \in 1..Len(buf) : /\ x = <<"buf", i>> /\ i \in 1..Len(Reported)
                                       /\ Reported[i].proc = p
  <2>1. CASE \E t \in air : x = <<"air", t>> /\ t.proc = p
    BY <2>1
  <2>2. CASE \E i \in DOMAIN fbIn : x = <<"fb", i>> /\ fbIn[i].proc = p
    BY <1>1, <1>2, <2>2, ReportedIs
  <2>3. CASE \E i \in DOMAIN buf : x = <<"buf", i>> /\ buf[i].proc = p
    BY <1>1, <1>2, <2>3, ReportedIs
  <2> QED
    BY <2>1, <2>2, <2>3, Zenon DEF Pending
<1>4. \A q, b : Fits(q, b) => procs[q].status # "INACTIVE"
  BY LiveIs DEF Fits
<1>5. ASSUME NEW x \in Pending(p)
      PROVE  procs[p].status # "INACTIVE"
  BY <1>1, <1>3, <1>4 DEF AirFits, ReportFits
<1>6. ASSUME NEW x \in Pending(p), NEW y \in Pending(p)
      PROVE  x = y
  <2>1. \A t, u \in air : t.proc = p /\ u.proc = p => t = u
    BY <1>1 DEF OneEach
  <2>2. \A i, j \in 1..Len(Reported) : Reported[i].proc = p /\ Reported[j].proc = p => i = j
    BY <1>1 DEF OneEach, Distinct
  <2>3. \A t \in air, i \in 1..Len(Reported) : ~(t.proc = p /\ Reported[i].proc = p)
    BY <1>1 DEF OneEach
  <2>4. CASE \E t \in air : x = <<"air", t>> /\ t.proc = p
    <3>1. \E u \in air : y = <<"air", u>> /\ u.proc = p
      BY <1>3, <2>3, <2>4
    <3> QED
      BY <2>1, <2>4, <3>1
  <2>5. CASE \E i \in 1..Len(fbIn) : /\ x = <<"fb", i>> /\ Len(buf) + i \in 1..Len(Reported)
                                     /\ Reported[Len(buf) + i].proc = p
    <3>1. PICK i \in 1..Len(fbIn) : /\ x = <<"fb", i>> /\ Len(buf) + i \in 1..Len(Reported)
                                    /\ Reported[Len(buf) + i].proc = p
      BY <2>5
    <3>2. ~\E t \in air : t.proc = p
      BY <2>3, <3>1
    <3>3. \A j \in 1..Len(Reported) : Reported[j].proc = p => j = Len(buf) + i
      BY <2>2, <3>1
    <3>4. \A j \in 1..Len(buf) : j # Len(buf) + i
      BY <1>2, <3>1
    <3>5. PICK j \in 1..Len(fbIn) : /\ y = <<"fb", j>> /\ Len(buf) + j \in 1..Len(Reported)
                                    /\ Reported[Len(buf) + j].proc = p
      BY <1>3, <3>2, <3>3, <3>4
    <3>6. j = i
      BY <1>2, <3>3, <3>5
    <3> QED
      BY <3>1, <3>5, <3>6
  <2>6. CASE \E i \in 1..Len(buf) : /\ x = <<"buf", i>> /\ i \in 1..Len(Reported)
                                    /\ Reported[i].proc = p
    <3>1. PICK i \in 1..Len(buf) : /\ x = <<"buf", i>> /\ i \in 1..Len(Reported)
                                   /\ Reported[i].proc = p
      BY <2>6
    <3>2. ~\E t \in air : t.proc = p
      BY <2>3, <3>1
    <3>3. \A j \in 1..Len(Reported) : Reported[j].proc = p => j = i
      BY <2>2, <3>1
    <3>4. \A j \in 1..Len(fbIn) : Len(buf) + j # i
      BY <1>2, <3>1
    <3>5. PICK j \in 1..Len(buf) : y = <<"buf", j>> /\ j \in 1..Len(Reported)
                                   /\ Reported[j].proc = p
      BY <1>3, <3>2, <3>3, <3>4
    <3> QED
      BY <3>1, <3>3, <3>5
  <2> QED
    BY <1>3, <2>4, <2>5, <2>6
<1> QED
  BY <1>5, <1>6

LEMMA HoldsMatches == HarqHolds => FeedbackMatches
<1> SUFFICES ASSUME HarqHolds PROVE FeedbackMatches
  OBVIOUS
<1>1. TypeOK /\ AirFits /\ ReportFits /\ OnlyNacksWait
  BY DEF HarqHolds
<1>2. ASSUME NEW p \in Procs
      PROVE  Cardinality(Pending(p)) <= (IF procs[p].status = "INACTIVE" THEN 0 ELSE 1)
  <2>1. CASE Pending(p) = {}
    BY <2>1, FS_EmptySet
  <2>2. CASE Pending(p) # {}
    <3>1. PICK x : x \in Pending(p)
      BY <2>2
    <3>2. Pending(p) = {x}
      BY <3>1, PendingIsOne
    <3>3. Cardinality({x}) = 1
      BY FS_Singleton
    <3>4. procs[p].status # "INACTIVE"
      BY <2>2, PendingIsOne
    <3> QED
      BY <3>2, <3>3, <3>4
  <2> QED
    BY <2>1, <2>2
<1>3. /\ DOMAIN fbIn = 1..Len(fbIn) /\ DOMAIN buf = 1..Len(buf)
  BY <1>1, LenProperties DEF TypeOK
<1>4. \A t \in air : t.tb = tb[t.proc]
  BY <1>1 DEF AirFits, Fits
<1>5. \A i \in DOMAIN fbIn : fbIn[i].tb = tb[fbIn[i].proc]
  BY <1>1, <1>3, ReportedIs DEF ReportFits, Fits
<1>6. \A i \in DOMAIN buf : buf[i].tb = tb[buf[i].proc] /\ ~buf[i].ok
  BY <1>1, <1>3, ReportedIs DEF ReportFits, Fits, OnlyNacksWait
<1> QED
  BY <1>2, <1>4, <1>5, <1>6 DEF FeedbackMatches

(* Feedback is never applied to another TB than its own, although expired  *)
(* processes are reused.                                                   *)
THEOREM FeedbackIsItsOwn == Spec => []FeedbackMatches
  BY Invariance, HoldsMatches, PTL

(* Types and feedback together, as the run checks them. *)
THEOREM FeedbackInvHolds == Spec => []FeedbackInv
<1>1. TypeOK /\ FeedbackMatches => FeedbackInv
  BY DEF FeedbackInv
<1> QED
  BY <1>1, TypeCorrect, FeedbackIsItsOwn, PTL

(* No feedback meets a process that another one has just erased: the       *)
(* NS_FATAL_ERROR of ProcessHARQFeedbacks is out of reach.                 *)
THEOREM NeverFatal == Spec => []~Fatal(Timed, Reported)
<1>1. HarqHolds => ~Fatal(Timed, Reported)
  <2> SUFFICES ASSUME HarqHolds PROVE ~Fatal(Timed, Reported)
    OBVIOUS
  <2>1. DOMAIN Reported = 1..Len(Reported) /\ Len(Reported) \in Nat
    BY ReportedIs, LenProperties DEF HarqHolds
  <2>2. \A i, j \in DOMAIN Reported : Reported[i].proc = Reported[j].proc => ~(i < j)
    BY <2>1 DEF HarqHolds, OneEach, Distinct
  <2> QED
    BY <2>2 DEF Fatal
<1> QED
  BY <1>1, Invariance, PTL

-----------------------------------------------------------------------------
(* What a slot does to the TBs with feedback. *)
LEMMA SlotKeepsTb ==
    ASSUME HarqHolds, UlTrigger
    PROVE  \A f \in {fbIn[i] : i \in DOMAIN fbIn} \cup {buf[i] : i \in DOMAIN buf} :
              ~f.ok /\ procs[f.proc].rv < MaxRv
              => procs'[f.proc].status # "INACTIVE" /\ tb'[f.proc] = f.tb
<1> SUFFICES ASSUME NEW f \in {fbIn[i] : i \in DOMAIN fbIn} \cup {buf[i] : i \in DOMAIN buf},
                    ~f.ok, procs[f.proc].rv < MaxRv
             PROVE  procs'[f.proc].status # "INACTIVE" /\ tb'[f.proc] = f.tb
  OBVIOUS
<1>1. TypeOK /\ ReportFits
  BY DEF HarqHolds
<1>2. DOMAIN fbIn = 1..Len(fbIn) /\ DOMAIN buf = 1..Len(buf)
  BY <1>1, LenProperties DEF TypeOK
<1>3. PICK i \in 1..Len(Reported) : f = Reported[i]
  BY <1>1, <1>2, ReportedIs
<1>4. PICK n : Slot(SlotPass, n)
  BY UlTriggerIs
<1>5. f.proc \in Procs /\ f.tb \in {0, 1} /\ f \in Feedbacks
  <2>1. f \in Feedbacks
    BY <1>1, <1>3, ReportedIs, ElementOfSeq
  <2> QED
    BY <2>1 DEF Feedbacks
<1>6. Fits(f.proc, f.tb)
  BY <1>1, <1>3 DEF ReportFits
<1>7. Timed[f.proc] \in Live /\ Timed[f.proc].rv = procs[f.proc].rv
  BY <1>5, <1>6, TimedIs
<1>8. Nack(Timed, Reported[i])
  <2>1. procs[f.proc].rv \in Nat /\ MaxRv \in Nat
    BY <1>6, LiveIs, IdAssumption DEF Fits
  <2>2. Timed[f.proc].rv # MaxRv
    BY <1>7, <2>1
  <2> QED
    BY <1>3, <1>7, <2>2, LiveIs DEF Nack, Active, Over
<1>9. SlotPass.procs[f.proc] \in Live /\ f.proc \notin Fresh(n)
  BY <1>3, <1>4, <1>8, SlotIs
<1>10. procs'[f.proc] = SlotPass.procs[f.proc] /\ tb'[f.proc] = tb[f.proc]
  BY <1>4, <1>5, <1>9, SlotIs
<1> QED
  BY <1>6, <1>9, <1>10, LiveIs DEF Fits

(* A NACK ends no TB. *)
THEOREM NackNeverEnds == Spec => NackKeepsTb
<1> DEFINE K == \A f \in {fbIn[i] : i \in DOMAIN fbIn} \cup {buf[i] : i \in DOMAIN buf} :
                   ~f.ok /\ procs[f.proc].rv < MaxRv
                   => procs'[f.proc].status # "INACTIVE" /\ tb'[f.proc] = f.tb
<1>1. HarqHolds /\ [Next]_vars => [K]_vars
  <2> SUFFICES ASSUME HarqHolds, Next PROVE K
    OBVIOUS
  <2>1. CASE UlTrigger
    BY <2>1, SlotKeepsTb
  <2>2. CASE procs' = procs /\ tb' = tb
    <3>1. TypeOK /\ ReportFits
      BY DEF HarqHolds
    <3>2. DOMAIN fbIn = 1..Len(fbIn) /\ DOMAIN buf = 1..Len(buf)
      BY <3>1, LenProperties DEF TypeOK
    <3>3. \A f \in {fbIn[i] : i \in DOMAIN fbIn} \cup {buf[i] : i \in DOMAIN buf} :
             Fits(f.proc, f.tb)
      BY <3>1, <3>2, ReportedIs DEF ReportFits
    <3> QED
      BY <2>2, <3>3, LiveIs DEF Fits
  <2> QED
    BY <2>1, <2>2 DEF Next, Feedback, Lose
<1> QED
  BY <1>1, Invariance, PTL DEF Spec, NackKeepsTb

LEMMA SlotOrders ==
    ASSUME HarqHolds, UlTrigger, NEW i \in DOMAIN buf, NEW j \in DOMAIN fbIn,
           NEW p, p = buf[i].proc, NEW q, q = fbIn[j].proc,
           procs[q].sym >= procs[p].sym, procs'[q].rv > procs[q].rv
    PROVE  procs'[p].rv > procs[p].rv \/ procs'[p].status = "INACTIVE" \/ tb'[p] # tb[p]
<1>1. TypeOK /\ ReportFits
  BY DEF HarqHolds
<1>2. i \in 1..Len(buf) /\ j \in 1..Len(fbIn) /\ Len(buf) \in Nat /\ Len(fbIn) \in Nat
  BY <1>1, LenProperties DEF TypeOK
<1> DEFINE l == Len(buf) + j
           marked == ProcessHARQFeedbacks(Timed, Reported)
<1>3. /\ i \in 1..Len(Reported) /\ l \in 1..Len(Reported) /\ i < l
      /\ Reported[i].proc = p /\ Reported[l].proc = q
  <2>1. i \in 1..Len(Reported) /\ Reported[i] = buf[i]
    BY <1>1, <1>2, ReportedIs
  <2>2. l \in 1..Len(Reported) /\ Reported[l] = fbIn[j]
    BY <1>1, <1>2, ReportedIs
  <2> QED
    BY <1>2, <2>1, <2>2
<1> HIDE DEF l, marked
<1>4. PICK n : Slot(SlotPass, n)
  BY UlTriggerIs
<1> DEFINE pass == SlotPass
<1>5. p \in Procs /\ q \in Procs
  BY <1>1, <1>3, ReportedIs, FeedbacksAre
<1>6. /\ PassKeeps(pass, marked, Reported, Len(Reported))
      /\ PassSorted(pass, Timed, marked, Reported, Len(Reported))
  BY <1>4, SlotIs DEF PassOK, marked
<1>7. /\ \A x \in Fresh(n) : x \in Procs /\ procs'[x] = NewTb(n[x]) /\ tb'[x] = 1 - tb[x]
      /\ \A x \in Procs \ Fresh(n) : procs'[x] = pass.procs[x] /\ tb'[x] = tb[x]
  BY <1>4, SlotIs
<1>8. \A k \in 1..Len(Reported) :
         LET x == Reported[k].proc IN
         IF Nack(Timed, Reported[k])
         THEN /\ pass.procs[x] \in Live /\ marked[x] \in Live
              /\ marked[x].rv = procs[x].rv /\ marked[x].sym = procs[x].sym
              /\ x \notin Fresh(n)
         ELSE marked[x] = Inactive /\ pass.procs[x] = Inactive
  BY <1>4, SlotIs DEF marked
<1>9. \A k \in 1..Len(Reported) :
         LET x == Reported[k].proc IN
         procs[x].rv \in Nat /\ procs[x].sym \in Nat /\ tb[x] \in {0, 1}
  <2>1. \A k \in 1..Len(Reported) : procs[Reported[k].proc] \in Live
    BY <1>1 DEF ReportFits, Fits
  <2>2. \A k \in 1..Len(Reported) : tb[Reported[k].proc] \in {0, 1}
    BY <1>1, ReportedIs, FeedbacksAre DEF TypeOK
  <2> QED
    BY <2>1, <2>2, LiveIs
<1> HIDE DEF pass
<1>10. q \notin Fresh(n)
  <2>1. \A x \in Fresh(n) : procs'[x].rv = 0
    <3>1. \A x \in Fresh(n) : procs'[x] = NewTb(n[x])
      BY <1>7
    <3>2. \A x : NewTb(n[x]).rv = 0
      BY DEF NewTb
    <3> QED
      BY <3>1, <3>2
  <2> QED
    BY <1>3, <1>9, <2>1
<1>11. procs'[q] = pass.procs[q]
  BY <1>5, <1>7, <1>10
<1>12. Nack(Timed, Reported[l])
  <2>1. CASE ~Nack(Timed, Reported[l])
    <3>1. pass.procs[q] = Inactive
      BY <1>3, <1>8, <2>1
    <3> QED
      BY <1>3, <1>9, <1>11, <3>1 DEF Inactive
  <2> QED
    BY <2>1
<1>13. marked[q].rv = procs[q].rv /\ marked[q].sym = procs[q].sym
  BY <1>3, <1>8, <1>12
<1>14. q \in pass.sent
  <2>1. q \notin pass.sent => pass.procs[q].rv = procs[q].rv
    BY <1>5, <1>6, <1>13 DEF PassKeeps
  <2> QED
    BY <1>3, <1>9, <1>11, <2>1
<1>15. CASE ~Nack(Timed, Reported[i])
  <2>1. pass.procs[p] = Inactive
    BY <1>3, <1>8, <1>15
  <2>2. CASE p \in Fresh(n)
    BY <1>3, <1>7, <1>9, <2>2
  <2>3. CASE p \notin Fresh(n)
    BY <1>5, <1>7, <2>1, <2>3 DEF Inactive
  <2> QED
    BY <2>2, <2>3
<1>16. CASE Nack(Timed, Reported[i])
  <2>1. /\ marked[p].rv = procs[p].rv /\ marked[p].sym = procs[p].sym
        /\ procs'[p] = pass.procs[p]
    BY <1>3, <1>5, <1>7, <1>8, <1>16
  <2>2. CASE p \in pass.sent
    BY <1>6, <2>1, <2>2 DEF PassKeeps
  <2>3. CASE p \notin pass.sent
    <3>1. PassedOver(pass, Timed, Reported, i)
      BY <1>3, <1>16, <2>3 DEF PassedOver
    <3>2. marked[Reported[l].proc].sym < marked[Reported[i].proc].sym
      BY <1>3, <1>6, <1>14, <3>1 DEF PassSorted
    <3> QED
      BY <1>3, <1>9, <1>13, <2>1, <3>2
  <2> QED
    BY <2>2, <2>3
<1> QED
  BY <1>15, <1>16

(* A buffered NACK is not overtaken. *)
THEOREM NeverOvertaken == Spec => NotOvertaken
<1> DEFINE K == \A i \in DOMAIN buf, j \in DOMAIN fbIn :
                   LET p == buf[i].proc
                       q == fbIn[j].proc
                   IN  procs[q].sym >= procs[p].sym /\ procs'[q].rv > procs[q].rv
                       => procs'[p].rv > procs[p].rv \/ procs'[p].status = "INACTIVE"
                          \/ tb'[p] # tb[p]
<1>1. HarqHolds /\ [Next]_vars => [K]_vars
  <2> SUFFICES ASSUME HarqHolds, Next PROVE K
    OBVIOUS
  <2>1. CASE UlTrigger
    BY <2>1, SlotOrders
  <2>2. CASE procs' = procs
    <3>1. TypeOK /\ ReportFits
      BY DEF HarqHolds
    <3>2. \A j \in DOMAIN fbIn : procs[fbIn[j].proc].rv \in Nat
      <4>1. DOMAIN fbIn = 1..Len(fbIn)
        BY <3>1, LenProperties DEF TypeOK
      <4>2. \A j \in DOMAIN fbIn : procs[fbIn[j].proc] \in Live
        BY <3>1, <4>1, ReportedIs DEF ReportFits, Fits
      <4> QED
        BY <4>2, LiveIs
    <3> QED
      BY <2>2, <3>2
  <2> QED
    BY <2>1, <2>2 DEF Next, Feedback, Lose
<1> QED
  BY <1>1, Invariance, PTL DEF Spec, NotOvertaken
=============================================================================

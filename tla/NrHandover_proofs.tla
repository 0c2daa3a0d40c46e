------------------------- MODULE NrHandover_proofs -------------------------
(***************************************************************************)
(* What holds of the handover for every set of gNBs, every bound on the    *)
(* identities and on the faults: the inductive invariant IInv and the      *)
(* properties of NrHandover it implies.                                    *)
(*                                                                         *)
(* IInv says, for every message on its way between two gNBs, which context *)
(* it will meet (Requests ... Cancels), for every context that waits, who  *)
(* ends its wait (Joinings, Switchings, Leavings with Pending), that one   *)
(* handover is under way at a time (OneSource), and for every state of the *)
(* UE, the context and the RRC messages that go with it (UeIdle ...        *)
(* UeConnected). It holds until the program aborts, and Excused lists the  *)
(* aborts that are not excluded. One lemma per step shows that it stays;   *)
(* in each, <1>a says what the step does to the variables, <1>c what       *)
(* becomes of the contexts, <1>s or <1>m of the messages, <1>u of the UE,  *)
(* <1>n of the requests made in the step.                                  *)
(***************************************************************************)
EXTENDS NrHandover, TLAPS

In(m, q) == \E i \in DOMAIN q : q[i] = m

\* A message is on its way from s to t.
Sent(k, s, t, old, new) == In(Msg(k, old, new), x2[s][t])

Id == 0 .. MaxRnti
St(g, r) == ctx[g][r].st
Peer(g, r) == ctx[g][r].peer
Timer(g, r) == ctx[g][r].timer
Pend(g, r) == ctx[g][r].pend
Linked(g, r, peer, id) == ctx[g][r].peer = peer /\ ctx[g][r].peerId = id
Switched(g) == s1 = <<[kind |-> "switched", gnb |-> g]>>

Idle == ue.st = "IDLE"
Released(g, r) == now = <<[kind |-> "release", cell |-> g, rnti |-> r]>>
Leaves(g, r) == now = <<[kind |-> "remove", cell |-> g, rnti |-> r]>>

\* Where the UE is, or was until a step ago.
Home(g, r) == UeAt(g, r) \/ Leaves(g, r)
On(g, r) == UeAt(g, r) /\ ~ue.left

\* The contexts of a UE that is there.
Attached == {"ATTACH_REQUEST", "CONNECTED_NORMALLY", "CONNECTION_RECONFIGURATION",
             "HANDOVER_PREPARATION", "HANDOVER_PATH_SWITCH"}
SettingUp == {"INITIAL_RANDOM_ACCESS", "CONNECTION_SETUP", "CONNECTION_REJECTED"}

\* The RRC messages to the UE.
Reconf == [kind |-> "reconf"]
Setup == [kind |-> "setup"]
Reject == [kind |-> "reject"]
Command(c, n) == [kind |-> "handover", cell |-> c, rnti |-> n]

Message == [kind : {"request", "ack", "failure", "context_release", "cancel", "data"},
            old : Id, new : Id]
Messages ==
    /\ x2 \in [Gnb -> [Gnb -> Seq(Message)]]
    /\ \/ dl \in {<<>>, <<Reconf>>, <<Setup>>, <<Reject>>}
       \/ \E c \in Gnb, n \in Rnti : dl = <<Command(c, n)>>
    /\ ul \in {<<>>, <<"request">>, <<"setup_completed">>, <<"completed">>}
    /\ s1 = <<>> \/ \E k \in {"switched", "attached"}, g \in Gnb : s1 = <<[kind |-> k, gnb |-> g]>>
    /\ now = <<>> \/ \E g \in Gnb, r \in Id : Released(g, r) \/ Leaves(g, r)

\* Links are first in first out: a reply is not repeated, and a failure comes
\* after the acknowledgement.
Before(m, n) ==
    m.old = n.old =>
        /\ m.kind \in {"request", "ack", "failure"} => m.kind # n.kind
        /\ ~(m.kind = "failure" /\ n.kind = "ack")
Ordered(q) == \A i, j \in DOMAIN q : i < j => Before(q[i], q[j])
Queues == \A s, t \in Gnb : Ordered(x2[s][t])

ContextFits(g, r) ==
    /\ St(g, r) # "NONE" => r <= last[g]
    /\ St(g, r) \in Attached => Home(g, r)
    /\ Pend(g, r) <=> St(g, r) \in {"HANDOVER_JOINING", "HANDOVER_PATH_SWITCH"}
    /\ St(g, r) = "HANDOVER_LEAVING" => Timer(g, r) = "leaving"
    /\ teid[g] = r => St(g, r) \notin SettingUp \cup {"NONE", "ATTACH_REQUEST"}
Contexts ==
    /\ \A g \in Gnb : teid[g] <= last[g] /\ imsiRnti[g] <= last[g]
    /\ \A g \in Gnb, r \in Rnti : ContextFits(g, r)

NoTarget(s, r) ==
    \A t \in Gnb, n \in Rnti :
        St(t, n) \in {"HANDOVER_JOINING", "HANDOVER_PATH_SWITCH"} => ~Linked(t, n, s, r)

RequestMeets(s, t, r, n) ==
    /\ s # t /\ r \in Rnti /\ r <= last[s] /\ n = 0
    /\ St(s, r) \in {"NONE", "HANDOVER_PREPARATION"}
    /\ St(s, r) # "NONE" => Peer(s, r) = t
    /\ Idle \/ (On(s, r) /\ St(s, r) = "HANDOVER_PREPARATION")
    /\ s1 = <<>>
    /\ \A a, b \in Gnb, q, m \in Id :
          /\ ~Sent("ack", a, b, q, m)
          /\ Sent("request", a, b, q, m) => a = s /\ b = t /\ q = r
          /\ ~Sent("failure", a, s, r, m)
    /\ NoTarget(s, r)
    /\ leavingLast => teid[t] = 0
Requests == \A s, t \in Gnb, r, n \in Id :
    Sent("request", s, t, r, n) => RequestMeets(s, t, r, n)

AckMeets(t, s, r, n) ==
    /\ s # t /\ r \in Rnti /\ r <= last[s] /\ n \in Rnti /\ n <= last[t]
    /\ St(s, r) \in {"NONE", "HANDOVER_PREPARATION"}
    /\ St(s, r) # "NONE" => Peer(s, r) = t
    /\ Idle \/ (On(s, r) /\ St(s, r) = "HANDOVER_PREPARATION")
    /\ \/ St(t, n) = "HANDOVER_JOINING" /\ Linked(t, n, s, r)
       \/ St(t, n) = "NONE" /\ Sent("failure", t, s, r, 0)
    /\ \A a, b \in Gnb, q, m \in Id :
          Sent("ack", a, b, q, m) => a = t /\ b = s /\ q = r /\ m = n
Acks == \A t, s \in Gnb, r, n \in Id : Sent("ack", t, s, r, n) => AckMeets(t, s, r, n)

FailureMeets(t, s, r, n) ==
    /\ s # t /\ r \in Rnti /\ r <= last[s] /\ n = 0
    /\ St(s, r) \in {"NONE", "HANDOVER_PREPARATION", "HANDOVER_LEAVING"}
    /\ St(s, r) # "NONE" => Peer(s, r) = t
    /\ St(s, r) = "HANDOVER_LEAVING" =>
          /\ \A m \in Rnti : Linked(s, r, t, m) => St(t, m) = "NONE"
          /\ \A a \in Gnb, m \in Id : ~Sent("context_release", a, s, r, m)
    /\ NoTarget(s, r)
Failures == \A t, s \in Gnb, r, n \in Id :
    Sent("failure", t, s, r, n) => FailureMeets(t, s, r, n)

ReleaseMeets(t, s, r, n) ==
    /\ s # t /\ r \in Rnti /\ r <= last[s] /\ n \in Rnti /\ n <= last[t]
    /\ St(s, r) \in {"NONE", "HANDOVER_LEAVING"}
    /\ St(s, r) # "NONE" => Linked(s, r, t, n)
    /\ Idle \/ On(t, n)
    /\ \/ St(t, n) \in {"CONNECTED_NORMALLY", "CONNECTION_RECONFIGURATION"}
       \/ Idle /\ St(t, n) = "NONE"
Releases == \A t, s \in Gnb, r, n \in Id :
    Sent("context_release", t, s, r, n) => ReleaseMeets(t, s, r, n)

CancelMeets(s, t, r, n) ==
    /\ s # t /\ n \in Rnti /\ n <= last[t]
    /\ ~leavingLast
    /\ Idle \/ Released(s, r)
    /\ St(t, n) \in {"NONE", "HANDOVER_JOINING"} \/ Home(t, n)
Cancels == \A s, t \in Gnb, r, n \in Id :
    Sent("cancel", s, t, r, n) => CancelMeets(s, t, r, n)

JoiningFrom(t, n, s, r) ==
    /\ Linked(t, n, s, r) /\ s # t /\ r <= last[s]
    /\ St(s, r) \in {"NONE", "HANDOVER_PREPARATION", "HANDOVER_LEAVING"}
    /\ St(s, r) = "HANDOVER_PREPARATION" => Sent("ack", t, s, r, n)
    /\ St(s, r) = "HANDOVER_LEAVING" => Linked(s, r, t, n)
    /\ Timer(t, n) # "joining" => St(s, r) = "NONE" /\ ~leavingLast
Joinings == \A t \in Gnb, n \in Rnti : St(t, n) = "HANDOVER_JOINING" =>
    \E s \in Gnb, r \in Rnti : JoiningFrom(t, n, s, r)

SwitchingFrom(t, n, s, r) ==
    /\ Linked(t, n, s, r) /\ s # t /\ r <= last[s]
    /\ St(s, r) \in {"NONE", "HANDOVER_LEAVING"}
    /\ St(s, r) = "HANDOVER_LEAVING" => Linked(s, r, t, n)
Switchings == \A t \in Gnb, n \in Rnti : St(t, n) = "HANDOVER_PATH_SWITCH" =>
    /\ Switched(t) /\ imsiRnti[t] = n
    /\ \E s \in Gnb, r \in Rnti : SwitchingFrom(t, n, s, r)

\* The answer of the core meets the context that asked for it, or none.
Answers == \A k \in {"switched", "attached"}, g \in Gnb : s1 = <<[kind |-> k, gnb |-> g]>> =>
    /\ imsiRnti[g] \in Rnti
    /\ \/ St(g, imsiRnti[g]) = IF k = "switched" THEN "HANDOVER_PATH_SWITCH" ELSE "ATTACH_REQUEST"
       \/ St(g, imsiRnti[g]) = "NONE" /\ Idle

\* Something ends a handover whose source waits.
Pending(s, r, p, n) ==
    \/ St(p, n) = "HANDOVER_JOINING" /\ Linked(p, n, s, r) /\ (Home(s, r) \/ Home(p, n))
    \/ St(p, n) = "HANDOVER_PATH_SWITCH" /\ Linked(p, n, s, r)
    \/ St(p, n) = "NONE" /\ Switched(p) /\ imsiRnti[p] = n
    \/ Sent("failure", p, s, r, 0)
    \/ Sent("context_release", p, s, r, n)

LeavingTo(s, r, p, n) ==
    /\ Linked(s, r, p, n) /\ p # s /\ n <= last[p]
    /\ St(p, n) \in {"NONE", "HANDOVER_JOINING"} \/ Home(p, n)
    /\ Pending(s, r, p, n)
    /\ \/ Idle
       \/ On(s, r)
       \/ ue.from = <<s, r>> /\ ue.cell = p /\ ~ue.left /\ (ue.rnti = n \/ St(p, n) = "NONE")
Leavings == \A s \in Gnb, r \in Rnti : St(s, r) = "HANDOVER_LEAVING" =>
    \E p \in Gnb, n \in Rnti : LeavingTo(s, r, p, n)

\* One handover at a time.
Source(g, r) == St(g, r) \in {"HANDOVER_PREPARATION", "HANDOVER_LEAVING"}
Target(g, r) == St(g, r) \in {"HANDOVER_JOINING", "HANDOVER_PATH_SWITCH"}
OneTarget ==
    \A g, h \in Gnb, r, q \in Rnti, x \in Gnb, y \in Id :
        Target(g, r) /\ Target(h, q) /\ Linked(g, r, x, y) /\ Linked(h, q, x, y) => g = h /\ r = q
OneSource ==
    /\ \A g, h \in Gnb, r, q \in Rnti : Source(g, r) /\ Source(h, q) => g = h /\ r = q
    /\ OneTarget

\* The UE was sent away by a source that waits for the outcome, or releases it.
Away ==
    \E s \in Gnb, r \in Rnti :
        /\ ue.from = <<s, r>>
        /\ \/ St(s, r) = "HANDOVER_LEAVING" /\ Peer(s, r) = ue.cell
           \/ Released(s, r)

UeIdle ==
    /\ ue.left <=> ue.st \in {"IDLE", "IDLE_RANDOM_ACCESS", "IDLE_CONNECTING"}
    /\ Idle => dl = <<>> /\ ul = <<>>
    /\ ~Idle => ue.cell \in Gnb /\ ue.rnti <= last[ue.cell]
         /\ \A g \in Gnb, r \in Id : ~Leaves(g, r)
    /\ \A g \in Gnb, r \in Id : Released(g, r) =>
        /\ r \in Rnti /\ r <= last[g] /\ St(g, r) = "NONE"
        /\ Idle \/ On(g, r) \/ (ue.from = <<g, r>> /\ ~ue.left)
    /\ ue.st = "IDLE_RANDOM_ACCESS" => ue.rnti = 0 /\ dl = <<>> /\ ul = <<>>

UeConnecting == ue.st = "IDLE_CONNECTING" =>
    LET st == St(ue.cell, ue.rnti)
    IN  /\ ue.rnti \in Rnti /\ st \in SettingUp \cup {"NONE"}
        /\ \/ dl = <<>>
           \/ dl \in {<<Setup>>, <<Reject>>} /\ ul = <<>>
        /\ \/ ul = <<>>
           \/ ul = <<"request">> /\ st \in {"NONE", "INITIAL_RANDOM_ACCESS"}
        /\ dl = <<Setup>> => st \in {"NONE", "CONNECTION_SETUP"}

UeMoving == ue.st = "CONNECTED_HANDOVER" =>
    /\ ue.rnti \in Rnti /\ dl = <<>> /\ ul = <<>> /\ Away
    /\ \/ St(ue.cell, ue.rnti) = "NONE"
       \/ St(ue.cell, ue.rnti) = "HANDOVER_JOINING"
            /\ Linked(ue.cell, ue.rnti, ue.from[1], ue.from[2])

UeConnected == ue.st = "CONNECTED_NORMALLY" =>
    LET st == St(ue.cell, ue.rnti)
    IN  /\ ue.rnti \in Rnti
        /\ \/ /\ st \in {"ATTACH_REQUEST", "CONNECTED_NORMALLY", "HANDOVER_PREPARATION",
                         "HANDOVER_PATH_SWITCH"}
              /\ dl = <<>> /\ ul = <<>>
           \/ /\ st = "CONNECTION_RECONFIGURATION"
              /\ \/ dl = <<Reconf>> /\ ul = <<>>
                 \/ dl = <<>> /\ ul = <<"completed">>
           \/ /\ st = "HANDOVER_LEAVING" /\ ul = <<>>
              /\ \E p \in Gnb, n \in Rnti :
                    Linked(ue.cell, ue.rnti, p, n) /\ dl = <<Command(p, n)>>
           \/ /\ st = "NONE" /\ Released(ue.cell, ue.rnti)
           \/ /\ st \in {"NONE", "CONNECTION_SETUP"}
              /\ dl = <<>> /\ ul = <<"setup_completed">>
           \/ /\ \/ st \in {"NONE", "INITIAL_RANDOM_ACCESS"}
                 \/ /\ st = "HANDOVER_JOINING"
                    /\ Linked(ue.cell, ue.rnti, ue.from[1], ue.from[2])
              /\ dl = <<>> /\ ul = <<"completed">> /\ Away

Good ==
    /\ Messages /\ Queues /\ Contexts /\ Leavings /\ OneSource
    /\ Requests /\ Acks /\ Failures /\ Releases /\ Cancels
    /\ Joinings /\ Switchings /\ Answers
    /\ UeIdle /\ UeConnecting /\ UeMoving /\ UeConnected

\* What the program may still abort in, when it does.
Excused ==
    \/ fault \in {"request_ack", "path_switch_ack", "initial_context_setup", "data",
                  "completed", "uplink"}
    \/ fault = "tunnel" /\ ~leavingLast

IInv == TypeOK /\ ((fault = "none" /\ Good) \/ Excused)

Here == TypeOK /\ Good /\ fault = "none" /\ leavingLast' = leavingLast

\* One context is replaced.
Put(g, r, c) == ctx' = [ctx EXCEPT ![g][r] = c]
\* A link loses its head, gets a message, or answers one.
Takes(a, b) == x2' = Take(a, b)
Adds(a, b, m) == x2' = [x2 EXCEPT ![a][b] = Append(@, m)]
Replies(a, b, m) == x2' = Answer(a, b, m)

\* What is on its way when the head of a link has been taken.
Taken(k, a, b, o, n) ==
    /\ x2' \in [Gnb -> [Gnb -> Seq(Message)]]
    /\ Queues'
    /\ \A kind, from, to, old, new : from \in Gnb /\ to \in Gnb =>
          /\ Sent(kind, from, to, old, new)' => Sent(kind, from, to, old, new)
          /\ Sent(kind, from, to, old, new) =>
                \/ Sent(kind, from, to, old, new)'
                \/ kind = k /\ from = a /\ to = b /\ old = o /\ new = n
    /\ k \in {"request", "ack", "failure"} => \A q \in Id : ~Sent(k, a, b, o, q)'
    /\ k = "failure" => \A q \in Id : ~Sent("ack", a, b, o, q)'

\* Nothing on link a, b is in the way of a message.
Fits(k, a, b, o) ==
    /\ k \in {"request", "ack", "failure"} => \A new \in Id : ~Sent(k, a, b, o, new)
    /\ k = "ack" => \A new \in Id : ~Sent("failure", a, b, o, new)


\* What becomes of the other contexts when one is replaced, ...
OthersStay(g, r) ==
    \A h \in Gnb, q \in Rnti : h # g \/ q # r =>
        /\ St(h, q)' = St(h, q) /\ Peer(h, q)' = Peer(h, q)
        /\ Timer(h, q)' = Timer(h, q) /\ Pend(h, q)' = Pend(h, q)
        /\ \A x, y : Linked(h, q, x, y)' <=> Linked(h, q, x, y)
Replaced(g, r, c) ==
    /\ ctx' \in [Gnb -> [Rnti -> ContextType]]
    /\ \A h \in Gnb, q \in Rnti : Guarded(ctx'[h][q])
    /\ St(g, r)' = c.st /\ Peer(g, r)' = c.peer /\ Timer(g, r)' = c.timer
    /\ Pend(g, r)' = c.pend
    /\ \A x, y : Linked(g, r, x, y)' <=> c.peer = x /\ c.peerId = y
    /\ OthersStay(g, r)
\* ... when one keeps its peer ...
Changed(g, r, c) ==
    /\ ctx' \in [Gnb -> [Rnti -> ContextType]]
    /\ \A h \in Gnb, q \in Rnti : Guarded(ctx'[h][q])
    /\ St(g, r)' = c.st /\ Timer(g, r)' = c.timer /\ Pend(g, r)' = c.pend
    /\ \A h \in Gnb, q \in Rnti :
          /\ h # g \/ q # r => /\ St(h, q)' = St(h, q) /\ Timer(h, q)' = Timer(h, q)
                               /\ Pend(h, q)' = Pend(h, q)
          /\ Peer(h, q)' = Peer(h, q)
          /\ \A x, y : Linked(h, q, x, y)' <=> Linked(h, q, x, y)
\* ... and when one is removed.
Removed(g, r) ==
    /\ ctx' \in [Gnb -> [Rnti -> ContextType]] /\ teid' \in [Gnb -> 0 .. MaxRnti]
    /\ last' = last /\ imsiRnti' = imsiRnti
    /\ \A h \in Gnb, q \in Rnti : Guarded(ctx'[h][q])
    /\ \A h \in Gnb : h # g \/ teid[h] # r => teid'[h] = teid[h]
    /\ teid[g] = r => teid'[g] = 0
    /\ St(g, r)' = "NONE" /\ Timer(g, r)' = "none" /\ ~Pend(g, r)'
    /\ OthersStay(g, r)

\* A context becomes neither source nor target and is linked to no other.
NothingNew(h, q) ==
    /\ Source(h, q)' => Source(h, q)
    /\ Target(h, q)' => Target(h, q)
    /\ Target(h, q)' => \A x, y : Linked(h, q, x, y)' => Linked(h, q, x, y)

\* What is in a sequence after Append, ...
LEMMA InAppended ==
    ASSUME NEW S, NEW q \in Seq(S), NEW m \in S, NEW v
    PROVE  In(v, Append(q, m)) <=> In(v, q) \/ v = m
<1>1. /\ Append(q, m) \in Seq(S) /\ Len(Append(q, m)) = Len(q) + 1
      /\ \A i \in 1 .. Len(q) : Append(q, m)[i] = q[i]
      /\ Append(q, m)[Len(q) + 1] = m
  OBVIOUS
<1>2. DOMAIN Append(q, m) = 1 .. Len(q) + 1 /\ DOMAIN q = 1 .. Len(q)
  BY <1>1
<1> QED BY ONLY <1>1, <1>2, q \in Seq(S) DEF In

\* ... and what was in it before Tail.
LEMMA InTail ==
    ASSUME NEW S, NEW q \in Seq(S), q # <<>>, NEW v
    PROVE  In(v, q) <=> v = Head(q) \/ In(v, Tail(q))
<1>1. /\ Tail(q) \in Seq(S) /\ Len(Tail(q)) = Len(q) - 1 /\ Len(q) \in Nat \ {0}
      /\ \A i \in 1 .. Len(q) - 1 : Tail(q)[i] = q[i + 1]
      /\ Head(q) = q[1]
  OBVIOUS
<1>2. DOMAIN Tail(q) = 1 .. Len(q) - 1 /\ DOMAIN q = 1 .. Len(q)
  BY <1>1
<1>3. ASSUME In(v, Tail(q)) PROVE In(v, q)
  <2>1. PICK i \in 1 .. Len(q) - 1 : Tail(q)[i] = v
    BY <1>2, <1>3 DEF In
  <2>2. i + 1 \in 1 .. Len(q) /\ q[i + 1] = v
    BY <1>1, <2>1
  <2> QED BY <2>2, <1>2 DEF In
<1>4. ASSUME In(v, q), v # Head(q) PROVE In(v, Tail(q))
  <2>1. PICK i \in 1 .. Len(q) : q[i] = v
    BY <1>2, <1>4 DEF In
  <2>2. i # 1 /\ i - 1 \in 1 .. Len(q) - 1 /\ i = (i - 1) + 1
    BY <1>1, <1>4, <2>1
  <2>3. Tail(q)[i - 1] = v
    BY <1>1, <2>1, <2>2
  <2> QED BY <2>2, <2>3, <1>2 DEF In
<1>5. v = Head(q) => In(v, q)
  BY <1>1, <1>2 DEF In
<1> QED BY <1>3, <1>4, <1>5

\* A message is added to a link.
LEMMA SentAppended ==
    ASSUME NEW a \in Gnb, NEW b \in Gnb, NEW m \in Message, Messages,
           Adds(a, b, m)
    PROVE  /\ x2' \in [Gnb -> [Gnb -> Seq(Message)]]
           /\ \A k, s, t, o, n : s \in Gnb /\ t \in Gnb =>
                 (Sent(k, s, t, o, n)' <=>
                      Sent(k, s, t, o, n) \/ (s = a /\ t = b /\ Msg(k, o, n) = m))
<1>1. x2[a][b] \in Seq(Message) /\ x2 \in [Gnb -> [Gnb -> Seq(Message)]]
  BY DEF Messages
<1>2. \A s, t \in Gnb : x2'[s][t] = IF s = a /\ t = b THEN Append(x2[a][b], m) ELSE x2[s][t]
  BY <1>1 DEF Adds
<1>3. Append(x2[a][b], m) \in Seq(Message)
  BY <1>1
<1>4. x2' \in [Gnb -> [Gnb -> Seq(Message)]]
  BY <1>1, <1>3 DEF Adds
<1>5. \A k, o, n : In(Msg(k, o, n), Append(x2[a][b], m)) <=> In(Msg(k, o, n), x2[a][b])
              \/ Msg(k, o, n) = m
  BY <1>1, InAppended
<1>6. \A k, s, t, o, n : s \in Gnb /\ t \in Gnb =>
                 (Sent(k, s, t, o, n)' <=> Sent(k, s, t, o, n) \/ (s = a /\ t = b
                         /\ Msg(k, o, n) = m))
  BY <1>2, <1>5 DEF Sent
<1> QED BY <1>4, <1>6

\* The message at the head of a link is taken from it.
LEMMA SentTaken ==
    ASSUME NEW a \in Gnb, NEW b \in Gnb, Messages, Queues, x2[a][b] # <<>>, x2' = Take(a, b)
    PROVE  /\ x2' \in [Gnb -> [Gnb -> Seq(Message)]]
           /\ \A k, s, t, o, n : s \in Gnb /\ t \in Gnb =>
                 /\ Sent(k, s, t, o, n)' => Sent(k, s, t, o, n)
                 /\ Sent(k, s, t, o, n) => Sent(k, s, t, o, n)' \/ (s = a /\ t = b
                      /\ Msg(k, o, n) = Head(x2[a][b]))
<1>1. x2[a][b] \in Seq(Message) /\ x2 \in [Gnb -> [Gnb -> Seq(Message)]]
  BY DEF Messages
<1>2. \A s, t \in Gnb : x2'[s][t] = IF s = a /\ t = b THEN Tail(x2[a][b]) ELSE x2[s][t]
  BY <1>1 DEF Take
<1>3. Tail(x2[a][b]) \in Seq(Message)
  BY <1>1
<1>4. x2' \in [Gnb -> [Gnb -> Seq(Message)]]
  BY <1>1, <1>3 DEF Take
<1>5. \A k, o, n : In(Msg(k, o, n), x2[a][b]) <=> Msg(k, o, n) = Head(x2[a][b])
              \/ In(Msg(k, o, n), Tail(x2[a][b]))
  BY <1>1, InTail
<1>6. \A k, s, t, o, n : s \in Gnb /\ t \in Gnb =>
                 /\ Sent(k, s, t, o, n)' => Sent(k, s, t, o, n)
                 /\ Sent(k, s, t, o, n) => Sent(k, s, t, o, n)' \/ (s = a /\ t = b
                      /\ Msg(k, o, n) = Head(x2[a][b]))
  BY <1>2, <1>5 DEF Sent
<1> QED BY <1>4, <1>6

\* A message is its fields.
LEMMA MsgFields ==
    /\ \A k, o, n : Msg(k, o, n).kind = k /\ Msg(k, o, n).old = o /\ Msg(k, o, n).new = n
    /\ \A m \in Message : m = Msg(m.kind, m.old, m.new) /\ m.old \in Id /\ m.new \in Id
    /\ \A k, o, n, l, p, q : Msg(k, o, n) = Msg(l, p, q) <=> k = l /\ o = p /\ n = q
BY DEF Msg, Message

\* A queue stays in order.
LEMMA OrderedAppended ==
    ASSUME NEW q \in Seq(Message), Ordered(q), NEW m \in Message,
           \A v \in Message : In(v, q) => Before(v, m)
    PROVE  Ordered(Append(q, m))
<1>1. /\ Append(q, m) \in Seq(Message) /\ Len(Append(q, m)) = Len(q) + 1 /\ Len(q) \in Nat
      /\ \A i \in 1 .. Len(q) : Append(q, m)[i] = q[i]
      /\ Append(q, m)[Len(q) + 1] = m
  OBVIOUS
<1>2. DOMAIN Append(q, m) = 1 .. Len(q) + 1 /\ DOMAIN q = 1 .. Len(q)
  BY <1>1
<1>3. \A i \in 1 .. Len(q) : Before(q[i], m)
  BY <1>2 DEF In
<1>4. \A i, j \in 1 .. Len(q) + 1 : i < j =>
         i \in 1 .. Len(q) /\ (j \in 1 .. Len(q) \/ j = Len(q) + 1)
  BY <1>1
<1>5. \A i, j \in 1 .. Len(q) : i < j => Before(q[i], q[j])
  BY <1>2 DEF Ordered
<1>6. \A i, j \in 1 .. Len(q) + 1 : i < j => Before(Append(q, m)[i], Append(q, m)[j])
  BY ONLY <1>1, <1>3, <1>4, <1>5
<1> QED BY <1>2, <1>6 DEF Ordered

LEMMA OrderedTail ==
    ASSUME NEW q \in Seq(Message), Ordered(q), q # <<>>
    PROVE  /\ Ordered(Tail(q))
           /\ \A v : In(v, Tail(q)) => Before(Head(q), v)
<1>1. /\ Tail(q) \in Seq(Message) /\ Len(Tail(q)) = Len(q) - 1 /\ Len(q) \in Nat \ {0}
      /\ \A i \in 1 .. Len(q) - 1 : Tail(q)[i] = q[i + 1]
      /\ Head(q) = q[1]
  OBVIOUS
<1>2. DOMAIN Tail(q) = 1 .. Len(q) - 1 /\ DOMAIN q = 1 .. Len(q)
  BY <1>1
<1>3. \A i, j \in 1 .. Len(q) : i < j => Before(q[i], q[j])
  BY <1>2 DEF Ordered
<1>4. \A i \in 1 .. Len(q) - 1 : i + 1 \in 1 .. Len(q) /\ 1 < i + 1 /\ 1 \in 1 .. Len(q)
  BY <1>1
<1>5. \A i, j \in 1 .. Len(q) - 1 : i < j => i + 1 < j + 1
  BY <1>1
<1>6. \A i, j \in 1 .. Len(q) - 1 : i < j => Before(Tail(q)[i], Tail(q)[j])
  BY ONLY <1>1, <1>3, <1>4, <1>5
<1>7. \A i \in 1 .. Len(q) - 1 : Before(Head(q), Tail(q)[i])
  BY ONLY <1>1, <1>3, <1>4
<1> QED BY <1>2, <1>6, <1>7 DEF Ordered, In

\* A message that fits is added to a link: the links stay in order.
LEMMA MessageAdded ==
    ASSUME Messages, Queues, NEW a \in Gnb, NEW b \in Gnb, NEW k, NEW o, NEW n,
           Msg(k, o, n) \in Message, Fits(k, a, b, o), Adds(a, b, Msg(k, o, n))
    PROVE  /\ x2' \in [Gnb -> [Gnb -> Seq(Message)]]
           /\ Queues'
           /\ \A kind, from, to, old, new : from \in Gnb /\ to \in Gnb =>
                 (Sent(kind, from, to, old, new)' <=>
                      \/ Sent(kind, from, to, old, new)
                      \/ kind = k /\ from = a /\ to = b /\ old = o /\ new = n)
<1>1. x2[a][b] \in Seq(Message) /\ x2 \in [Gnb -> [Gnb -> Seq(Message)]]
  BY DEF Messages
<1>2. \A s, t \in Gnb : x2'[s][t] = IF s = a
              /\ t = b THEN Append(x2[a][b], Msg(k, o, n)) ELSE x2[s][t]
  BY <1>1 DEF Adds
<1>3. \A v \in Message : In(v, x2[a][b]) => Before(v, Msg(k, o, n))
  BY MsgFields DEF Fits, Sent, Before
<1>4. Ordered(Append(x2[a][b], Msg(k, o, n)))
  BY <1>1, <1>3, OrderedAppended DEF Queues
<1>5. Queues'
  BY <1>2, <1>4 DEF Queues
<1>7. /\ x2' \in [Gnb -> [Gnb -> Seq(Message)]]
      /\ \A kind, s, t, old, new : s \in Gnb /\ t \in Gnb =>
            (Sent(kind, s, t, old, new)' <=>
                 Sent(kind, s, t, old, new) \/ (s = a /\ t = b
                         /\ Msg(kind, old, new) = Msg(k, o, n)))
  BY SentAppended
<1> QED BY <1>5, <1>7, MsgFields

\* The head of a link is taken.
LEMMA MessageTaken ==
    ASSUME Messages, Queues, NEW a \in Gnb, NEW b \in Gnb, NEW k, NEW o, NEW n,
           x2[a][b] # <<>>, Head(x2[a][b]) = Msg(k, o, n), Takes(a, b)
    PROVE  Taken(k, a, b, o, n)
<1>1. x2[a][b] \in Seq(Message) /\ x2 \in [Gnb -> [Gnb -> Seq(Message)]]
  BY DEF Messages
<1>2. \A s, t \in Gnb : x2'[s][t] = IF s = a /\ t = b THEN Tail(x2[a][b]) ELSE x2[s][t]
  BY <1>1 DEF Takes, Take
<1>3. Ordered(x2[a][b])
  BY DEF Queues
<1>4. Ordered(Tail(x2[a][b])) /\ \A v : In(v, Tail(x2[a][b])) => Before(Msg(k, o, n), v)
  BY <1>1, <1>3, OrderedTail
<1>5. Queues'
  BY <1>2, <1>4 DEF Queues
<1>6. \A kind, old, new : Sent(kind, a, b, old, new)' => Before(Msg(k, o, n), Msg(kind, old, new))
  BY <1>2, <1>4 DEF Sent
<1>7. /\ k \in {"request", "ack", "failure"} => \A q \in Id : ~Sent(k, a, b, o, q)'
      /\ k = "failure" => \A q \in Id : ~Sent("ack", a, b, o, q)'
  BY <1>6, MsgFields DEF Before
<1>8. /\ x2' \in [Gnb -> [Gnb -> Seq(Message)]]
      /\ \A kind, from, to, old, new : from \in Gnb /\ to \in Gnb =>
            /\ Sent(kind, from, to, old, new)' => Sent(kind, from, to, old, new)
            /\ Sent(kind, from, to, old, new) =>
                  \/ Sent(kind, from, to, old, new)'
                  \/ from = a /\ to = b /\ Msg(kind, old, new) = Head(x2[a][b])
  BY SentTaken DEF Takes
<1>9. \A kind, from, to, old, new : from \in Gnb /\ to \in Gnb =>
          /\ Sent(kind, from, to, old, new)' => Sent(kind, from, to, old, new)
          /\ Sent(kind, from, to, old, new) =>
                \/ Sent(kind, from, to, old, new)'
                \/ kind = k /\ from = a /\ to = b /\ old = o /\ new = n
  BY <1>8, MsgFields
<1> QED BY <1>5, <1>7, <1>8, <1>9 DEF Taken

\* The head of a link is on its way.
LEMMA HeadSent ==
    ASSUME Messages, NEW a \in Gnb, NEW b \in Gnb, x2[a][b] # <<>>
    PROVE  \E o, n \in Id : /\ Head(x2[a][b]) = Msg(Head(x2[a][b]).kind, o, n)
                            /\ Head(x2[a][b]).old = o /\ Head(x2[a][b]).new = n
                            /\ Sent(Head(x2[a][b]).kind, a, b, o, n)
<1>1. x2[a][b] \in Seq(Message) /\ Head(x2[a][b]) \in Message
  BY DEF Messages
<1>2. In(Head(x2[a][b]), x2[a][b])
  BY <1>1, InTail
<1> QED BY <1>1, <1>2, MsgFields DEF Sent

\* The head of a link is taken and answered.
LEMMA MessageAnswered ==
    ASSUME Messages, Queues, NEW a \in Gnb, NEW b \in Gnb, a # b,
           NEW k, NEW o, NEW n, x2[a][b] # <<>>, Head(x2[a][b]) = Msg(k, o, n),
           NEW l, NEW c, NEW v, Msg(l, c, v) \in Message, Fits(l, b, a, c),
           Replies(a, b, Msg(l, c, v))
    PROVE  /\ x2' \in [Gnb -> [Gnb -> Seq(Message)]]
           /\ Queues'
           /\ \A kind, from, to, old, new : from \in Gnb /\ to \in Gnb =>
                 /\ Sent(kind, from, to, old, new)' =>
                       \/ Sent(kind, from, to, old, new)
                       \/ kind = l /\ from = b /\ to = a /\ old = c /\ new = v
                 /\ Sent(kind, from, to, old, new) =>
                       \/ Sent(kind, from, to, old, new)'
                       \/ kind = k /\ from = a /\ to = b /\ old = o /\ new = n
           /\ Sent(l, b, a, c, v)'
           /\ k \in {"request", "ack", "failure"} => \A q \in Id : ~Sent(k, a, b, o, q)'
<1>1. /\ x2[a][b] \in Seq(Message) /\ x2[b][a] \in Seq(Message)
      /\ x2 \in [Gnb -> [Gnb -> Seq(Message)]]
  BY DEF Messages
<1>2. /\ x2'[a][b] = Tail(x2[a][b]) /\ x2'[b][a] = Append(x2[b][a], Msg(l, c, v))
      /\ \A s, t \in Gnb : \/ s = a /\ t = b
                           \/ s = b /\ t = a
                           \/ x2'[s][t] = x2[s][t]
  BY <1>1 DEF Replies, Answer
<1>3. Tail(x2[a][b]) \in Seq(Message) /\ Append(x2[b][a], Msg(l, c, v)) \in Seq(Message)
  BY <1>1
<1>4. x2' \in [Gnb -> [Gnb -> Seq(Message)]]
  BY <1>1, <1>3 DEF Replies, Answer
<1>5. Ordered(x2[a][b]) /\ Ordered(x2[b][a])
  BY DEF Queues
<1>6. Ordered(Tail(x2[a][b])) /\ \A m : In(m, Tail(x2[a][b])) => Before(Msg(k, o, n), m)
  BY <1>1, <1>5, OrderedTail
<1>7. \A m \in Message : In(m, x2[b][a]) => Before(m, Msg(l, c, v))
  BY MsgFields DEF Fits, Sent, Before
<1>8. Ordered(Append(x2[b][a], Msg(l, c, v)))
  BY <1>1, <1>5, <1>7, OrderedAppended
<1>9. Queues'
  BY <1>2, <1>6, <1>8 DEF Queues
<1>10. \A m : In(m, x2[a][b]) <=> m = Msg(k, o, n) \/ In(m, x2'[a][b])
  BY <1>1, <1>2, InTail
<1>11. \A m : In(m, x2'[b][a]) <=> In(m, x2[b][a]) \/ m = Msg(l, c, v)
  BY <1>1, <1>2, InAppended
<1>12. k \in {"request", "ack", "failure"} => \A q \in Id : ~Sent(k, a, b, o, q)'
  BY <1>2, <1>6, MsgFields DEF Sent, Before
<1>13. Sent(l, b, a, c, v)'
  BY <1>11 DEF Sent
<1>14. ASSUME NEW kind, NEW from \in Gnb, NEW to \in Gnb, NEW old, NEW new
       PROVE  /\ Sent(kind, from, to, old, new)' =>
                    \/ Sent(kind, from, to, old, new)
                    \/ kind = l /\ from = b /\ to = a /\ old = c /\ new = v
              /\ Sent(kind, from, to, old, new) =>
                    \/ Sent(kind, from, to, old, new)'
                    \/ kind = k /\ from = a /\ to = b /\ old = o /\ new = n
  <2>1. CASE from = a /\ to = b
    BY <1>10, <2>1, MsgFields DEF Sent
  <2>2. CASE from = b /\ to = a
    BY <1>11, <2>2, MsgFields DEF Sent
  <2>3. CASE ~(from = a /\ to = b) /\ ~(from = b /\ to = a)
    BY <1>2, <2>3 DEF Sent
  <2> QED BY <2>1, <2>2, <2>3
<1>15. \A kind, from, to, old, new : from \in Gnb /\ to \in Gnb =>
          /\ Sent(kind, from, to, old, new)' =>
                \/ Sent(kind, from, to, old, new)
                \/ kind = l /\ from = b /\ to = a /\ old = c /\ new = v
          /\ Sent(kind, from, to, old, new) =>
                \/ Sent(kind, from, to, old, new)'
                \/ kind = k /\ from = a /\ to = b /\ old = o /\ new = n
  BY ONLY <1>14
<1> QED BY ONLY <1>4, <1>9, <1>12, <1>13, <1>15

\* The contexts, or the links, stay as they are.
LEMMA ContextsSame ==
    ASSUME ctx' = ctx
    PROVE  \A g, r : /\ St(g, r)' = St(g, r) /\ Peer(g, r)' = Peer(g, r)
                     /\ Timer(g, r)' = Timer(g, r) /\ Pend(g, r)' = Pend(g, r)
                     /\ \A p, i : Linked(g, r, p, i)' <=> Linked(g, r, p, i)
BY DEF St, Linked, Peer, Timer, Pend

\* ... of the links ...
LEMMA LinksSame ==
    ASSUME x2' = x2
    PROVE  \A k, s, t, o, n : Sent(k, s, t, o, n)' <=> Sent(k, s, t, o, n)
BY DEF Sent

\* ... and of the UE does not change when they do not.
LEMMA UeSame ==
    ASSUME ue' = ue, now' = now
    PROVE  /\ Idle' <=> Idle
           /\ \A g, r : /\ UeAt(g, r)' <=> UeAt(g, r)
                        /\ On(g, r)' <=> On(g, r)
                        /\ Home(g, r)' <=> Home(g, r)
                        /\ Leaves(g, r)' <=> Leaves(g, r)
                        /\ Released(g, r)' <=> Released(g, r)
BY DEF Idle, On, Home, Leaves, Released, UeAt

\* Sequences of one element.
LEMMA Single ==
    ASSUME NEW x
    PROVE  /\ Append(<<>>, x) = <<x>> /\ Tail(<<x>>) = <<>> /\ Head(<<x>>) = x
           /\ <<x>> # <<>> /\ Len(<<x>>) = 1 /\ Len(<<>>) = 0
OBVIOUS

\* A UE that is idle.
LEMMA IdleUeType == IdleUe \in UeType
BY HandoverAssumption DEF IdleUe, UeType

\* One context changes.
LEMMA ContextUpdated ==
    ASSUME TypeOK, NEW g \in Gnb, NEW r \in Rnti, NEW c \in ContextType, Guarded(c),
           Put(g, r, c)
    PROVE  Replaced(g, r, c)
<1>1. ctx \in [Gnb -> [Rnti -> ContextType]] /\ \A h \in Gnb, q \in Rnti : Guarded(ctx[h][q])
  BY DEF TypeOK
<1>2. ctx' \in [Gnb -> [Rnti -> ContextType]]
  BY <1>1 DEF Put
<1>3. \A h \in Gnb, q \in Rnti : ctx'[h][q] = IF h = g /\ q = r THEN c ELSE ctx[h][q]
  BY <1>1 DEF Put
<1>4. \A h \in Gnb, q \in Rnti : Guarded(ctx'[h][q])
  BY <1>1, <1>3
<1> QED BY <1>2, <1>3, <1>4 DEF Replaced, OthersStay, St, Linked, Peer, Timer, Pend

\* Nothing is on its way on settled links.
LEMMA NothingSent ==
    ASSUME Settled
    PROVE  \A k, s, t, o, n : s \in Gnb /\ t \in Gnb => ~Sent(k, s, t, o, n)
BY DEF Settled, Sent, In

\* The RRC messages differ.
LEMMA Kinds ==
    /\ Reconf.kind = "reconf" /\ Setup.kind = "setup" /\ Reject.kind = "reject"
    /\ \A c, n : /\ Command(c, n).kind = "handover"
                 /\ Command(c, n).cell = c /\ Command(c, n).rnti = n
BY DEF Reconf, Setup, Reject, Command

\* What a message to the UE, or from it, meets.
LEMMA DlMeets ==
    ASSUME TypeOK, Good, now = <<>>, dl # <<>>
    PROVE  /\ ul = <<>> /\ ue.cell \in Gnb /\ ue.rnti \in Rnti
           /\ \/ /\ dl = <<Setup>> /\ ue.st = "IDLE_CONNECTING"
                 /\ St(ue.cell, ue.rnti) \in {"NONE", "CONNECTION_SETUP"}
              \/ /\ dl = <<Reject>> /\ ue.st = "IDLE_CONNECTING"
                 /\ St(ue.cell, ue.rnti) \in SettingUp \cup {"NONE"}
              \/ /\ dl = <<Reconf>> /\ ue.st = "CONNECTED_NORMALLY"
                 /\ St(ue.cell, ue.rnti) = "CONNECTION_RECONFIGURATION"
              \/ /\ ue.st = "CONNECTED_NORMALLY" /\ St(ue.cell, ue.rnti) = "HANDOVER_LEAVING"
                 /\ \E p \in Gnb, n \in Rnti :
                       Linked(ue.cell, ue.rnti, p, n) /\ dl = <<Command(p, n)>>
<1>1. UeIdle /\ UeConnecting /\ UeMoving /\ UeConnected
  BY DEF Good
<1>2. ue.st \in {"IDLE", "IDLE_RANDOM_ACCESS", "IDLE_CONNECTING", "CONNECTED_NORMALLY", "CONNECTED_HANDOVER"}
  BY DEF TypeOK, UeType
<1>3. \A g, r : ~Released(g, r)
  BY DEF Released
<1>4. CASE ue.st = "IDLE_CONNECTING"
  BY <1>1, <1>4 DEF UeIdle, UeConnecting, Idle
<1>5. CASE ue.st = "CONNECTED_NORMALLY"
  BY <1>1, <1>3, <1>5 DEF UeIdle, UeConnected, Idle
<1> QED BY <1>1, <1>2, <1>4, <1>5 DEF UeIdle, UeMoving, Idle

\* What a message from the UE meets.
LEMMA UlMeets ==
    ASSUME TypeOK, Good, now = <<>>, ul # <<>>
    PROVE  /\ dl = <<>> /\ ue.cell \in Gnb /\ ue.rnti \in Rnti
           /\ \/ /\ ul = <<"request">> /\ ue.st = "IDLE_CONNECTING"
                 /\ St(ue.cell, ue.rnti) \in {"NONE", "INITIAL_RANDOM_ACCESS"}
              \/ /\ ul = <<"setup_completed">> /\ ue.st = "CONNECTED_NORMALLY"
                 /\ St(ue.cell, ue.rnti) \in {"NONE", "CONNECTION_SETUP"}
              \/ /\ ul = <<"completed">> /\ ue.st = "CONNECTED_NORMALLY"
                 /\ \/ St(ue.cell, ue.rnti) = "CONNECTION_RECONFIGURATION"
                    \/ /\ Away
                       /\ \/ St(ue.cell, ue.rnti) \in {"NONE", "INITIAL_RANDOM_ACCESS"}
                          \/ /\ St(ue.cell, ue.rnti) = "HANDOVER_JOINING"
                             /\ Linked(ue.cell, ue.rnti, ue.from[1], ue.from[2])
<1>1. UeIdle /\ UeConnecting /\ UeMoving /\ UeConnected
  BY DEF Good
<1>2. ue.st \in {"IDLE", "IDLE_RANDOM_ACCESS", "IDLE_CONNECTING", "CONNECTED_NORMALLY", "CONNECTED_HANDOVER"}
  BY DEF TypeOK, UeType
<1>3. \A g, r : ~Released(g, r)
  BY DEF Released
<1>4. CASE ue.st = "IDLE_CONNECTING"
  BY <1>1, <1>4 DEF UeIdle, UeConnecting, Idle
<1>5. CASE ue.st = "CONNECTED_NORMALLY"
  BY <1>1, <1>3, <1>5 DEF UeIdle, UeConnected, Idle
<1> QED BY <1>1, <1>2, <1>4, <1>5 DEF UeIdle, UeMoving, Idle

\* No context.
LEMMA NoCtxType == NoCtx \in ContextType /\ Guarded(NoCtx)
BY HandoverAssumption DEF NoCtx, ContextType, Guarded

\* A context has one peer.
LEMMA LinkedOnce ==
    \A h, q, x, y : Linked(h, q, x, y) =>
        /\ Peer(h, q) = x
        /\ \A p, i : Linked(h, q, p, i) => p = x /\ i = y
BY DEF Linked, Peer

\* A context is removed.
LEMMA ContextRemoved ==
    ASSUME TypeOK, NEW g \in Gnb, NEW r \in Rnti, RemoveUe(g, r)
    PROVE  Removed(g, r)
<1>1. PICK c \in ContextType : c = NoCtx
  BY NoCtxType
<1>2. c.st = "NONE" /\ c.timer = "none" /\ c.pend = FALSE /\ Guarded(c)
  BY <1>1, NoCtxType DEF NoCtx
<1>3. Put(g, r, c)
  BY <1>1 DEF RemoveUe, Put
<1>4. teid \in [Gnb -> 0 .. MaxRnti] /\ 0 \in 0 .. MaxRnti
  BY HandoverAssumption DEF TypeOK
<1>5. teid' \in [Gnb -> 0 .. MaxRnti] /\ last' = last /\ imsiRnti' = imsiRnti
  BY <1>4 DEF RemoveUe
<1>6. /\ \A h \in Gnb : h # g \/ teid[h] # r => teid'[h] = teid[h]
      /\ teid[g] = r => teid'[g] = 0
  BY <1>4 DEF RemoveUe
<1>7. Replaced(g, r, c)
  BY <1>2, <1>3, ContextUpdated
<1> QED BY <1>2, <1>5, <1>6, <1>7 DEF Removed, Replaced

\* The program stops in a handler where it may.
LEMMA Aborts ==
    ASSUME Here, NEW f, Abort(f),
           \/ f \in {"request_ack", "path_switch_ack", "initial_context_setup", "data",
                     "completed", "uplink"}
           \/ f = "tunnel" /\ ~leavingLast
    PROVE  IInv'
BY DEF Here, Abort, IInv, Excused, TypeOK, gnbVars, ueVars

\* One context changes and keeps its peer.
LEMMA ContextChanged ==
    ASSUME TypeOK, NEW g \in Gnb, NEW r \in Rnti, NEW c \in ContextType, Guarded(c),
           c.peer = ctx[g][r].peer, c.peerId = ctx[g][r].peerId,
           Put(g, r, c)
    PROVE  Changed(g, r, c)
<1>1. Replaced(g, r, c)
  BY ContextUpdated
<1>3. /\ Peer(g, r) = c.peer
      /\ \A x, y : Linked(g, r, x, y) <=> c.peer = x /\ c.peerId = y
  BY DEF Peer, Linked
<1>4. \A h \in Gnb, q \in Rnti :
         /\ Peer(h, q)' = Peer(h, q)
         /\ \A x, y : Linked(h, q, x, y)' <=> Linked(h, q, x, y)
  BY <1>1, <1>3 DEF Replaced, OthersStay
<1> QED BY <1>1, <1>4 DEF Changed, Replaced, OthersStay

\* A context of an attached UE is the one the UE is in.
LEMMA UeThere ==
    ASSUME TypeOK, Good, now = <<>>, NEW g \in Gnb, NEW r \in Rnti, St(g, r) \in Attached
    PROVE  /\ ue.st = "CONNECTED_NORMALLY" /\ ~ue.left /\ ue.cell = g /\ ue.rnti = r
           /\ UeAt(g, r) /\ On(g, r) /\ ~Idle
           /\ \A h \in Gnb, q \in Rnti : St(h, q) \in Attached => h = g /\ q = r
<1>1. UeIdle /\ UeConnecting /\ UeMoving /\ UeConnected /\ Contexts
  BY DEF Good
<1>2. ue.st \in {"IDLE", "IDLE_RANDOM_ACCESS", "IDLE_CONNECTING", "CONNECTED_NORMALLY", "CONNECTED_HANDOVER"}
  BY DEF TypeOK, UeType
<1>3. \A h, q : ~Leaves(h, q)
  BY DEF Leaves
<1>4. \A h \in Gnb, q \in Rnti : St(h, q) \in Attached => UeAt(h, q) /\ ue.cell = h /\ ue.rnti = q
  BY <1>1, <1>3 DEF Contexts, ContextFits, Home, UeAt
<1>5. UeAt(g, r) /\ ue.cell = g /\ ue.rnti = r /\ ~Idle
  BY <1>4 DEF UeAt, Idle
<1>6. ue.st # "IDLE_CONNECTING"
  BY <1>1, <1>5 DEF UeConnecting, SettingUp, Attached
<1>7. ue.st # "CONNECTED_HANDOVER"
  BY <1>1, <1>5 DEF UeMoving, Attached
<1>8. ue.st # "IDLE_RANDOM_ACCESS" /\ ue.st # "IDLE"
  BY <1>1, <1>5 DEF UeIdle, Rnti, UeAt
<1>9. ue.st = "CONNECTED_NORMALLY" /\ ~ue.left
  BY <1>1, <1>2, <1>6, <1>7, <1>8 DEF UeIdle
<1> QED BY <1>4, <1>5, <1>9 DEF On

\* A context that is connected has sent the reconfiguration that was waiting.
LEMMA ConnectedContext ==
    ASSUME NEW d \in ContextType
    PROVE  /\ Connected(d) \in ContextType
           /\ d.pend => Connected(d).st = "CONNECTION_RECONFIGURATION"
           /\ ~d.pend => Connected(d).st = "CONNECTED_NORMALLY"
           /\ Connected(d).timer = "none" /\ Connected(d).pend = FALSE
           /\ Connected(d).peer = d.peer /\ Connected(d).peerId = d.peerId
BY DEF Connected, ContextType

\* A context that commanded the handover.
LEMMA CommandedContext ==
    ASSUME NEW d \in ContextType, NEW i \in Id
    PROVE  /\ Commanded(d, i) \in ContextType
           /\ Commanded(d, i).st = "HANDOVER_LEAVING" /\ Commanded(d, i).timer = "leaving"
           /\ Commanded(d, i).peer = d.peer /\ Commanded(d, i).peerId = i
           /\ Commanded(d, i).pend = d.pend
BY DEF Commanded, ContextType, Id


\* There is still one source and one target when none appears and none is linked anew.
LEMMA OneSourceStays ==
    ASSUME OneSource,
           \A h \in Gnb, q \in Rnti : NothingNew(h, q)
    PROVE  OneSource'
<1>1. \A g, h \in Gnb, r, q \in Rnti : Source(g, r)' /\ Source(h, q)' => g = h /\ r = q
  BY DEF OneSource, NothingNew
<1>2. OneTarget'
  <2> SUFFICES ASSUME NEW g \in Gnb, NEW h \in Gnb, NEW r \in Rnti, NEW q \in Rnti,
                      NEW x \in Gnb, NEW y \in Id, Target(g, r)', Target(h, q)',
                      Linked(g, r, x, y)', Linked(h, q, x, y)'
               PROVE  g = h /\ r = q
    BY DEF OneTarget
  <2>1. Target(g, r) /\ Target(h, q) /\ Linked(g, r, x, y) /\ Linked(h, q, x, y)
    BY DEF NothingNew
  <2> QED BY <2>1 DEF OneSource, OneTarget
<1> QED BY <1>1, <1>2 DEF OneSource

\* The UE leaves its cell: its removal is requested in the same step, and the
\* invariant stays.
LEMMA UeLeaves ==
    ASSUME Here, ~ue.left, Leave, now' = <<RemoveRequest>>, now = <<>> \/ \E g, r : Released(g, r),
           UNCHANGED <<gnbVars, x2, s1, fault>>
    PROVE  IInv'
<1>p. /\ TypeOK /\ Messages /\ Queues /\ Contexts /\ Leavings /\ OneSource
      /\ Requests /\ Acks /\ Failures /\ Releases /\ Cancels
      /\ Joinings /\ Switchings /\ Answers
      /\ UeIdle /\ UeConnecting /\ UeMoving /\ UeConnected
      /\ fault = "none" /\ MaxRnti \in Nat /\ NoCell \notin Gnb
      /\ \A q \in Rnti : q \in Nat /\ q \in Id /\ q # 0
  BY HandoverAssumption DEF Here, Good, Rnti, Id
<1>a. /\ ue' = IdleUe /\ dl' = <<>> /\ ul' = <<>> /\ ~ue.left
      /\ UNCHANGED <<ctx, last, teid, imsiRnti, x2, s1, leavingLast, fault>>
  BY DEF Here, Leave, gnbVars
<1>c. \A h, q :
         /\ St(h, q)' = St(h, q) /\ Peer(h, q)' = Peer(h, q)
         /\ Timer(h, q)' = Timer(h, q) /\ Pend(h, q)' = Pend(h, q)
         /\ \A x, y : Linked(h, q, x, y)' <=> Linked(h, q, x, y)
  BY <1>a, ContextsSame
<1>s. \A kind, from, to, old, new : Sent(kind, from, to, old, new)'
              <=> Sent(kind, from, to, old, new)
  BY <1>a, LinksSame
<1>i. /\ ~Idle /\ Idle' /\ ue.st # "IDLE" /\ ue'.st = "IDLE" /\ ue'.left
      /\ ue.cell \in Gnb /\ ue.rnti \in Id
  BY <1>p, <1>a DEF Idle, IdleUe, UeIdle, TypeOK, UeType, Id
<1>n. \A h, q :
         /\ ~Released(h, q)' /\ ~Leaves(h, q)
         /\ Leaves(h, q)' <=> h = ue.cell /\ q = ue.rnti
  BY DEF Released, Leaves, RemoveRequest
<1>h. \A h, q :
         /\ Home(h, q) <=> Home(h, q)'
         /\ Home(h, q)' <=> Leaves(h, q)'
  BY <1>i, <1>n DEF Home, UeAt, Idle
<1>TypeOK. TypeOK'
  BY <1>p, <1>a, IdleUeType, Single DEF TypeOK
<1>Messages. Messages'
  BY <1>p, <1>a, <1>i, <1>n DEF Messages
<1>Queues. Queues'
  BY <1>p, <1>a, <1>c, <1>s, <1>i, <1>n, <1>h DEF Queues
<1>Contexts. Contexts'
  BY <1>p, <1>a, <1>c, <1>s, <1>i, <1>n, <1>h DEF Contexts, ContextFits, Attached, SettingUp
<1>Leavings. Leavings'
  BY <1>p, <1>a, <1>c, <1>s, <1>i, <1>n, <1>h DEF Leavings, LeavingTo, Pending, Switched
<1>OneSource. OneSource'
  <2> SUFFICES ASSUME NEW h \in Gnb, NEW q \in Rnti
               PROVE  NothingNew(h, q)
    BY <1>p, OneSourceStays
  <2> QED BY <1>p, <1>a, <1>c, <1>s, <1>i, <1>n, <1>h DEF NothingNew, Source, Target
<1>Requests. Requests'
  BY <1>p, <1>a, <1>c, <1>s, <1>i, <1>n, <1>h DEF Requests, RequestMeets, NoTarget
<1>Acks. Acks'
  BY <1>p, <1>a, <1>c, <1>s, <1>i, <1>n, <1>h DEF Acks, AckMeets
<1>Failures. Failures'
  BY <1>p, <1>a, <1>c, <1>s, <1>i, <1>n, <1>h DEF Failures, FailureMeets, NoTarget
<1>Releases. Releases'
  BY <1>p, <1>a, <1>c, <1>s, <1>i, <1>n, <1>h DEF Releases, ReleaseMeets
<1>Cancels. Cancels'
  BY <1>p, <1>a, <1>c, <1>s, <1>i, <1>n, <1>h DEF Cancels, CancelMeets
<1>Joinings. Joinings'
  BY <1>p, <1>a, <1>c, <1>s, <1>i, <1>n, <1>h DEF Joinings, JoiningFrom
<1>Switchings. Switchings'
  BY <1>p, <1>a, <1>c, <1>s, <1>i, <1>n, <1>h DEF Switchings, SwitchingFrom, Switched
<1>Answers. Answers'
  BY <1>p, <1>a, <1>c, <1>s, <1>i, <1>n, <1>h DEF Answers
<1>UeIdle. UeIdle'
  BY <1>p, <1>a, <1>c, <1>s, <1>i, <1>n, <1>h DEF UeIdle
<1>UeConnecting. UeConnecting'
  BY <1>p, <1>a, <1>c, <1>s, <1>i, <1>n, <1>h DEF UeConnecting, SettingUp
<1>UeMoving. UeMoving'
  BY <1>p, <1>a, <1>c, <1>s, <1>i, <1>n, <1>h DEF UeMoving, Away
<1>UeConnected. UeConnected'
  BY <1>p, <1>a, <1>c, <1>s, <1>i, <1>n, <1>h DEF UeConnected, Away
<1> QED BY <1>p, <1>a, <1>TypeOK, <1>Messages, <1>Queues, <1>Contexts, <1>Leavings, <1>OneSource,
           <1>Requests, <1>Acks, <1>Failures, <1>Releases, <1>Cancels, <1>Joinings, <1>Switchings,
           <1>Answers, <1>UeIdle, <1>UeConnecting, <1>UeMoving, <1>UeConnected DEF IInv, Good

\* A connection that failed starts over, and the invariant stays.
LEMMA TriesAgainStep ==
    ASSUME Here, Running, ue.st = "IDLE_CONNECTING", TriesAgain,
           UNCHANGED <<gnbVars, x2, s1, now, failures, fault>>
    PROVE  IInv'
<1>p. /\ TypeOK /\ Messages /\ Queues /\ Contexts /\ Leavings /\ OneSource
      /\ Requests /\ Acks /\ Failures /\ Releases /\ Cancels
      /\ Joinings /\ Switchings /\ Answers
      /\ UeIdle /\ UeConnecting /\ UeMoving /\ UeConnected
      /\ fault = "none" /\ MaxRnti \in Nat /\ NoCell \notin Gnb
      /\ \A q \in Rnti : q \in Nat /\ q \in Id /\ q # 0
  BY HandoverAssumption DEF Here, Good, Rnti, Id
<1>a. /\ ue' = [ue EXCEPT !.st = "IDLE_RANDOM_ACCESS", !.rnti = 0] /\ dl' = <<>> /\ ul' = <<>>
      /\ now = <<>> /\ now' = <<>>
      /\ UNCHANGED <<ctx, last, teid, imsiRnti, x2, s1, leavingLast, fault>>
  BY DEF Here, TriesAgain, gnbVars, Running
<1>c. \A h, q :
         /\ St(h, q)' = St(h, q) /\ Peer(h, q)' = Peer(h, q)
         /\ Timer(h, q)' = Timer(h, q) /\ Pend(h, q)' = Pend(h, q)
         /\ \A x, y : Linked(h, q, x, y)' <=> Linked(h, q, x, y)
  BY <1>a, ContextsSame
<1>s. \A kind, from, to, old, new : Sent(kind, from, to, old, new)'
              <=> Sent(kind, from, to, old, new)
  BY <1>a, LinksSame
<1>i. /\ ~Idle /\ ~Idle' /\ ue.cell \in Gnb /\ ue.left /\ ue'.left /\ ue'.rnti = 0
           /\ ue'.cell = ue.cell
      /\ ue.st = "IDLE_CONNECTING" /\ ue'.st = "IDLE_RANDOM_ACCESS" /\ ue' \in UeType
  <2>1. ue \in UeType /\ 0 \in 0 .. MaxRnti
    BY <1>p DEF TypeOK
  <2>2. ue' \in UeType
    BY <1>a, <2>1 DEF UeType
  <2> QED BY <1>p, <1>a, <2>1, <2>2 DEF Idle, UeIdle, UeType
<1>u. ue.rnti \in Rnti /\ St(ue.cell, ue.rnti) \in SettingUp \cup {"NONE"}
  BY <1>p, <1>i DEF UeConnecting
<1>t. \A h \in Gnb : last[h] \in Nat
  BY <1>p DEF TypeOK
<1>n. \A h, q :
         /\ ~Released(h, q) /\ ~Released(h, q)' /\ ~Leaves(h, q) /\ ~Leaves(h, q)'
  BY <1>a DEF Released, Leaves
<1>h. \A h, q :
         /\ UeAt(h, q) <=> h = ue.cell /\ q = ue.rnti
         /\ UeAt(h, q)' <=> h = ue.cell /\ q = 0
         /\ Home(h, q) <=> UeAt(h, q)
         /\ Home(h, q)' <=> UeAt(h, q)'
         /\ ~On(h, q) /\ ~On(h, q)'
  BY <1>i, <1>n DEF Home, UeAt, On
<1>TypeOK. TypeOK'
  BY <1>p, <1>a, <1>i, Single DEF TypeOK
<1>Messages. Messages'
  BY <1>p, <1>a DEF Messages
<1>Queues. Queues'
  BY <1>p, <1>a, <1>c, <1>s, <1>i, <1>u, <1>n, <1>h DEF Queues
<1>Contexts. Contexts'
  BY <1>p, <1>a, <1>c, <1>s, <1>i, <1>u, <1>n, <1>h DEF Contexts, ContextFits, Attached, SettingUp
<1>Leavings. Leavings'
  BY <1>p, <1>a, <1>c, <1>s, <1>i, <1>u, <1>n, <1>h DEF Leavings, LeavingTo, Pending, Switched
<1>OneSource. OneSource'
  <2> SUFFICES ASSUME NEW h \in Gnb, NEW q \in Rnti
               PROVE  NothingNew(h, q)
    BY <1>p, OneSourceStays
  <2> QED BY <1>p, <1>a, <1>c, <1>s, <1>i, <1>u, <1>n, <1>h DEF NothingNew, Source, Target
<1>Requests. Requests'
  BY <1>p, <1>a, <1>c, <1>s, <1>i, <1>u, <1>n, <1>h DEF Requests, RequestMeets, NoTarget
<1>Acks. Acks'
  BY <1>p, <1>a, <1>c, <1>s, <1>i, <1>u, <1>n, <1>h DEF Acks, AckMeets
<1>Failures. Failures'
  BY <1>p, <1>a, <1>c, <1>s, <1>i, <1>u, <1>n, <1>h DEF Failures, FailureMeets, NoTarget
<1>Releases. Releases'
  BY <1>p, <1>a, <1>c, <1>s, <1>i, <1>u, <1>n, <1>h DEF Releases, ReleaseMeets
<1>Cancels. Cancels'
  BY <1>p, <1>a, <1>c, <1>s, <1>i, <1>u, <1>n, <1>h DEF Cancels, CancelMeets
<1>Joinings. Joinings'
  BY <1>p, <1>a, <1>c, <1>s, <1>i, <1>u, <1>n, <1>h DEF Joinings, JoiningFrom
<1>Switchings. Switchings'
  BY <1>p, <1>a, <1>c, <1>s, <1>i, <1>u, <1>n, <1>h DEF Switchings, SwitchingFrom, Switched
<1>Answers. Answers'
  BY <1>p, <1>a, <1>c, <1>s, <1>i, <1>u, <1>n, <1>h DEF Answers
<1>UeIdle. UeIdle'
  BY <1>p, <1>a, <1>c, <1>s, <1>i, <1>u, <1>n, <1>h,  <1>t DEF UeIdle
<1>UeConnecting. UeConnecting'
  BY <1>p, <1>a, <1>c, <1>s, <1>i, <1>u, <1>n, <1>h DEF UeConnecting, SettingUp
<1>UeMoving. UeMoving'
  BY <1>p, <1>a, <1>c, <1>s, <1>i, <1>u, <1>n, <1>h DEF UeMoving, Away
<1>UeConnected. UeConnected'
  BY <1>p, <1>a, <1>c, <1>s, <1>i, <1>u, <1>n, <1>h DEF UeConnected, Away
<1> QED BY <1>p, <1>a, <1>TypeOK, <1>Messages, <1>Queues, <1>Contexts, <1>Leavings, <1>OneSource,
           <1>Requests, <1>Acks, <1>Failures, <1>Releases, <1>Cancels, <1>Joinings, <1>Switchings,
           <1>Answers, <1>UeIdle, <1>UeConnecting, <1>UeMoving, <1>UeConnected DEF IInv, Good

\* A connection that failed is given up, and the invariant stays.
LEMMA GivesUp ==
    ASSUME Here, Running, ue.st = "IDLE_CONNECTING", Leave,
           UNCHANGED <<gnbVars, x2, s1, now, failures, fault>>
    PROVE  IInv'
<1>p. /\ TypeOK /\ Messages /\ Queues /\ Contexts /\ Leavings /\ OneSource
      /\ Requests /\ Acks /\ Failures /\ Releases /\ Cancels
      /\ Joinings /\ Switchings /\ Answers
      /\ UeIdle /\ UeConnecting /\ UeMoving /\ UeConnected
      /\ fault = "none" /\ MaxRnti \in Nat /\ NoCell \notin Gnb
      /\ \A q \in Rnti : q \in Nat /\ q \in Id /\ q # 0
  BY HandoverAssumption DEF Here, Good, Rnti, Id
<1>a. /\ ue' = IdleUe /\ dl' = <<>> /\ ul' = <<>>
      /\ now = <<>> /\ now' = <<>>
      /\ UNCHANGED <<ctx, last, teid, imsiRnti, x2, s1, leavingLast, fault>>
  BY DEF Here, Leave, gnbVars, Running
<1>c. \A h, q :
         /\ St(h, q)' = St(h, q) /\ Peer(h, q)' = Peer(h, q)
         /\ Timer(h, q)' = Timer(h, q) /\ Pend(h, q)' = Pend(h, q)
         /\ \A x, y : Linked(h, q, x, y)' <=> Linked(h, q, x, y)
  BY <1>a, ContextsSame
<1>s. \A kind, from, to, old, new : Sent(kind, from, to, old, new)'
              <=> Sent(kind, from, to, old, new)
  BY <1>a, LinksSame
<1>i. /\ ~Idle /\ Idle' /\ ue.cell \in Gnb /\ ue.left /\ ue'.left
      /\ ue.st = "IDLE_CONNECTING" /\ ue'.st = "IDLE"
  BY <1>p, <1>a DEF Idle, IdleUe, UeIdle
<1>u. ue.rnti \in Rnti /\ St(ue.cell, ue.rnti) \in SettingUp \cup {"NONE"}
  BY <1>p, <1>i DEF UeConnecting
<1>t. \A h \in Gnb : last[h] \in Nat
  BY <1>p DEF TypeOK
<1>n. \A h, q :
         /\ ~Released(h, q) /\ ~Released(h, q)' /\ ~Leaves(h, q) /\ ~Leaves(h, q)'
  BY <1>a DEF Released, Leaves
<1>h. \A h, q :
         /\ UeAt(h, q) <=> h = ue.cell /\ q = ue.rnti
         /\ ~UeAt(h, q)'
         /\ Home(h, q) <=> UeAt(h, q)
         /\ ~Home(h, q)'
         /\ ~On(h, q) /\ ~On(h, q)'
  BY <1>i, <1>n DEF Home, UeAt, On, Idle
<1>TypeOK. TypeOK'
  BY <1>p, <1>a, IdleUeType, Single DEF TypeOK
<1>Messages. Messages'
  BY <1>p, <1>a DEF Messages
<1>Queues. Queues'
  BY <1>p, <1>a, <1>c, <1>s, <1>i, <1>u, <1>n, <1>h DEF Queues
<1>Contexts. Contexts'
  BY <1>p, <1>a, <1>c, <1>s, <1>i, <1>u, <1>n, <1>h DEF Contexts, ContextFits, Attached, SettingUp
<1>Leavings. Leavings'
  BY <1>p, <1>a, <1>c, <1>s, <1>i, <1>u, <1>n, <1>h DEF Leavings, LeavingTo, Pending, Switched
<1>OneSource. OneSource'
  <2> SUFFICES ASSUME NEW h \in Gnb, NEW q \in Rnti
               PROVE  NothingNew(h, q)
    BY <1>p, OneSourceStays
  <2> QED BY <1>p, <1>a, <1>c, <1>s, <1>i, <1>u, <1>n, <1>h DEF NothingNew, Source, Target
<1>Requests. Requests'
  BY <1>p, <1>a, <1>c, <1>s, <1>i, <1>u, <1>n, <1>h DEF Requests, RequestMeets, NoTarget
<1>Acks. Acks'
  BY <1>p, <1>a, <1>c, <1>s, <1>i, <1>u, <1>n, <1>h DEF Acks, AckMeets
<1>Failures. Failures'
  BY <1>p, <1>a, <1>c, <1>s, <1>i, <1>u, <1>n, <1>h DEF Failures, FailureMeets, NoTarget
<1>Releases. Releases'
  BY <1>p, <1>a, <1>c, <1>s, <1>i, <1>u, <1>n, <1>h DEF Releases, ReleaseMeets
<1>Cancels. Cancels'
  BY <1>p, <1>a, <1>c, <1>s, <1>i, <1>u, <1>n, <1>h DEF Cancels, CancelMeets
<1>Joinings. Joinings'
  BY <1>p, <1>a, <1>c, <1>s, <1>i, <1>u, <1>n, <1>h DEF Joinings, JoiningFrom
<1>Switchings. Switchings'
  BY <1>p, <1>a, <1>c, <1>s, <1>i, <1>u, <1>n, <1>h DEF Switchings, SwitchingFrom, Switched
<1>Answers. Answers'
  BY <1>p, <1>a, <1>c, <1>s, <1>i, <1>u, <1>n, <1>h DEF Answers
<1>UeIdle. UeIdle'
  BY <1>p, <1>a, <1>c, <1>s, <1>i, <1>u, <1>n, <1>h,  <1>t DEF UeIdle
<1>UeConnecting. UeConnecting'
  BY <1>p, <1>a, <1>c, <1>s, <1>i, <1>u, <1>n, <1>h DEF UeConnecting, SettingUp
<1>UeMoving. UeMoving'
  BY <1>p, <1>a, <1>c, <1>s, <1>i, <1>u, <1>n, <1>h DEF UeMoving, Away
<1>UeConnected. UeConnected'
  BY <1>p, <1>a, <1>c, <1>s, <1>i, <1>u, <1>n, <1>h DEF UeConnected, Away
<1> QED BY <1>p, <1>a, <1>TypeOK, <1>Messages, <1>Queues, <1>Contexts, <1>Leavings, <1>OneSource,
           <1>Requests, <1>Acks, <1>Failures, <1>Releases, <1>Cancels, <1>Joinings, <1>Switchings,
           <1>Answers, <1>UeIdle, <1>UeConnecting, <1>UeMoving, <1>UeConnected DEF IInv, Good

\* The UE starts a connection, and the invariant stays.
LEMMA StartConnectionStep ==
    ASSUME Here, NEW g \in Gnb, StartConnection(g)
    PROVE  IInv'
<1>p. /\ TypeOK /\ Messages /\ Queues /\ Contexts /\ Leavings /\ OneSource
      /\ Requests /\ Acks /\ Failures /\ Releases /\ Cancels
      /\ Joinings /\ Switchings /\ Answers
      /\ UeIdle /\ UeConnecting /\ UeMoving /\ UeConnected
      /\ fault = "none" /\ MaxRnti \in Nat /\ NoCell \notin Gnb
      /\ \A q \in Rnti : q \in Nat /\ q \in Id /\ q # 0
  BY HandoverAssumption DEF Here, Good, Rnti, Id
<1>a. /\ ue' = [IdleUe EXCEPT !.st = "IDLE_RANDOM_ACCESS", !.cell = g]
      /\ now = <<>> /\ now' = <<>> /\ s1 = <<>> /\ ue.st = "IDLE"
      /\ UNCHANGED <<ctx, last, teid, imsiRnti, dl, ul, x2, s1, leavingLast, fault>>
  BY DEF Here, StartConnection, Settled, gnbVars, Running
<1>c. \A h, q :
         /\ St(h, q)' = St(h, q) /\ Peer(h, q)' = Peer(h, q)
         /\ Timer(h, q)' = Timer(h, q) /\ Pend(h, q)' = Pend(h, q)
         /\ \A x, y : Linked(h, q, x, y)' <=> Linked(h, q, x, y)
  BY <1>a, ContextsSame
<1>s. \A kind, from, to, old, new : Sent(kind, from, to, old, new)'
              <=> Sent(kind, from, to, old, new)
  BY <1>a, LinksSame
<1>z. \A kind, from, to, old, new : from \in Gnb /\ to \in Gnb => ~Sent(kind, from, to, old, new)
  BY NothingSent DEF StartConnection
<1>i. /\ Idle /\ ~Idle' /\ ue.left /\ ue'.left /\ ue'.rnti = 0 /\ ue'.cell = g /\ ue' \in UeType
      /\ ue.st = "IDLE" /\ ue'.st = "IDLE_RANDOM_ACCESS" /\ dl = <<>> /\ ul = <<>>
  BY <1>p, <1>a, IdleUeType DEF Idle, IdleUe, UeIdle, UeType
<1>t. \A h \in Gnb : last[h] \in Nat
  BY <1>p DEF TypeOK
<1>n. \A h, q :
         /\ ~Released(h, q) /\ ~Released(h, q)' /\ ~Leaves(h, q) /\ ~Leaves(h, q)'
  BY <1>a DEF Released, Leaves
<1>h. \A h, q :
         /\ ~UeAt(h, q)
         /\ UeAt(h, q)' <=> h = g /\ q = 0
         /\ ~Home(h, q)
         /\ Home(h, q)' <=> UeAt(h, q)'
         /\ ~On(h, q) /\ ~On(h, q)'
  BY <1>i, <1>n DEF Home, UeAt, On, Idle
<1>TypeOK. TypeOK'
  BY <1>p, <1>a, <1>i DEF TypeOK
<1>Messages. Messages'
  BY <1>p, <1>a DEF Messages
<1>Queues. Queues'
  BY <1>p, <1>a, <1>c, <1>s, <1>z, <1>i, <1>n, <1>h DEF Queues
<1>Contexts. Contexts'
  BY <1>p, <1>a, <1>c, <1>s, <1>z, <1>i, <1>n, <1>h DEF Contexts, ContextFits, Attached, SettingUp
<1>Leavings. Leavings'
  BY <1>p, <1>a, <1>c, <1>s, <1>z, <1>i, <1>n, <1>h DEF Leavings, LeavingTo, Pending, Switched
<1>OneSource. OneSource'
  <2> SUFFICES ASSUME NEW h \in Gnb, NEW q \in Rnti
               PROVE  NothingNew(h, q)
    BY <1>p, OneSourceStays
  <2> QED BY <1>p, <1>a, <1>c, <1>s, <1>z, <1>i, <1>n, <1>h DEF NothingNew, Source, Target
<1>Requests. Requests'
  BY <1>p, <1>a, <1>c, <1>s, <1>z, <1>i, <1>n, <1>h DEF Requests, RequestMeets, NoTarget
<1>Acks. Acks'
  BY <1>p, <1>a, <1>c, <1>s, <1>z, <1>i, <1>n, <1>h DEF Acks, AckMeets
<1>Failures. Failures'
  BY <1>p, <1>a, <1>c, <1>s, <1>z, <1>i, <1>n, <1>h DEF Failures, FailureMeets, NoTarget
<1>Releases. Releases'
  BY <1>p, <1>a, <1>c, <1>s, <1>z, <1>i, <1>n, <1>h DEF Releases, ReleaseMeets
<1>Cancels. Cancels'
  BY <1>p, <1>a, <1>c, <1>s, <1>z, <1>i, <1>n, <1>h DEF Cancels, CancelMeets
<1>Joinings. Joinings'
  BY <1>p, <1>a, <1>c, <1>s, <1>z, <1>i, <1>n, <1>h DEF Joinings, JoiningFrom
<1>Switchings. Switchings'
  BY <1>p, <1>a, <1>c, <1>s, <1>z, <1>i, <1>n, <1>h DEF Switchings, SwitchingFrom, Switched
<1>Answers. Answers'
  BY <1>p, <1>a, <1>c, <1>s, <1>z, <1>i, <1>n, <1>h DEF Answers
<1>UeIdle. UeIdle'
  BY <1>p, <1>a, <1>c, <1>s, <1>z, <1>i, <1>n, <1>h,  <1>t DEF UeIdle
<1>UeConnecting. UeConnecting'
  BY <1>p, <1>a, <1>c, <1>s, <1>z, <1>i, <1>n, <1>h DEF UeConnecting, SettingUp
<1>UeMoving. UeMoving'
  BY <1>p, <1>a, <1>c, <1>s, <1>z, <1>i, <1>n, <1>h DEF UeMoving, Away
<1>UeConnected. UeConnected'
  BY <1>p, <1>a, <1>c, <1>s, <1>z, <1>i, <1>n, <1>h DEF UeConnected, Away
<1> QED BY <1>p, <1>a, <1>TypeOK, <1>Messages, <1>Queues, <1>Contexts, <1>Leavings, <1>OneSource,
           <1>Requests, <1>Acks, <1>Failures, <1>Releases, <1>Cancels, <1>Joinings, <1>Switchings,
           <1>Answers, <1>UeIdle, <1>UeConnecting, <1>UeMoving, <1>UeConnected DEF IInv, Good

\* The UE receives RRC connection setup, and the invariant stays.
LEMMA UeRecvSetupStep ==
    ASSUME Here, UeRecvSetup
    PROVE  IInv'
<1>p. /\ TypeOK /\ Messages /\ Queues /\ Contexts /\ Leavings /\ OneSource
      /\ Requests /\ Acks /\ Failures /\ Releases /\ Cancels
      /\ Joinings /\ Switchings /\ Answers
      /\ UeIdle /\ UeConnecting /\ UeMoving /\ UeConnected
      /\ fault = "none" /\ MaxRnti \in Nat /\ NoCell \notin Gnb
      /\ \A q \in Rnti : q \in Nat /\ q \in Id /\ q # 0
  BY HandoverAssumption DEF Here, Good, Rnti, Id
<1>d. dl = <<Setup>> /\ ul = <<>> /\ ue.st = "IDLE_CONNECTING" /\ ue.rnti \in Rnti
      /\ St(ue.cell, ue.rnti) \in {"NONE", "CONNECTION_SETUP"} /\ now = <<>>
  BY DlMeets, Kinds, Single DEF UeRecvSetup, Here, Running
<1>a. /\ ue' = [ue EXCEPT !.st = "CONNECTED_NORMALLY", !.left = FALSE] /\ dl' = <<>>
           /\ ul' = <<"setup_completed">>
      /\ now = <<>> /\ now' = <<>>
      /\ UNCHANGED <<ctx, last, teid, imsiRnti, x2, s1, leavingLast, fault>>
  BY <1>d, Single DEF Here, UeRecvSetup, gnbVars
<1>c. \A h, q :
         /\ St(h, q)' = St(h, q) /\ Peer(h, q)' = Peer(h, q)
         /\ Timer(h, q)' = Timer(h, q) /\ Pend(h, q)' = Pend(h, q)
         /\ \A x, y : Linked(h, q, x, y)' <=> Linked(h, q, x, y)
  BY <1>a, ContextsSame
<1>s. \A kind, from, to, old, new : Sent(kind, from, to, old, new)'
              <=> Sent(kind, from, to, old, new)
  BY <1>a, LinksSame
<1>i. /\ ~Idle /\ ~Idle' /\ ue.cell \in Gnb /\ ue.left /\ ~ue'.left /\ ue'.rnti = ue.rnti
           /\ ue'.cell = ue.cell
      /\ ue.st = "IDLE_CONNECTING" /\ ue'.st = "CONNECTED_NORMALLY" /\ ue' \in UeType
  <2>1. ue \in UeType
    BY <1>p DEF TypeOK
  <2>2. ue' \in UeType
    BY <1>a, <1>d, <2>1 DEF UeType
  <2> QED BY <1>p, <1>a, <1>d, <2>1, <2>2 DEF Idle, UeIdle, UeType
<1>t. \A h \in Gnb : last[h] \in Nat
  BY <1>p DEF TypeOK
<1>n. \A h, q :
         /\ ~Released(h, q) /\ ~Released(h, q)' /\ ~Leaves(h, q) /\ ~Leaves(h, q)'
  BY <1>a DEF Released, Leaves
<1>h. \A h, q :
         /\ UeAt(h, q) <=> h = ue.cell /\ q = ue.rnti
         /\ UeAt(h, q)' <=> UeAt(h, q)
         /\ Home(h, q) <=> UeAt(h, q)
         /\ Home(h, q)' <=> UeAt(h, q)
         /\ ~On(h, q)
         /\ On(h, q)' <=> UeAt(h, q)
  BY <1>i, <1>n DEF Home, UeAt, On
<1>TypeOK. TypeOK'
  BY <1>p, <1>a, <1>i, Single DEF TypeOK
<1>Messages. Messages'
  BY <1>p, <1>a DEF Messages
<1>Queues. Queues'
  BY <1>p, <1>a, <1>c, <1>s, <1>i, <1>n, <1>h, <1>t, <1>d DEF Queues
<1>Contexts. Contexts'
  BY <1>p, <1>a, <1>c, <1>s, <1>i, <1>n, <1>h, <1>t, <1>d DEF Contexts, ContextFits, Attached,
     SettingUp
<1>Leavings. Leavings'
  BY <1>p, <1>a, <1>c, <1>s, <1>i, <1>n, <1>h, <1>t, <1>d DEF Leavings, LeavingTo, Pending, Switched
<1>OneSource. OneSource'
  <2> SUFFICES ASSUME NEW h \in Gnb, NEW q \in Rnti
               PROVE  NothingNew(h, q)
    BY <1>p, OneSourceStays
  <2> QED BY <1>p, <1>a, <1>c, <1>s, <1>i, <1>n, <1>h, <1>t, <1>d DEF NothingNew, Source, Target
<1>Requests. Requests'
  BY <1>p, <1>a, <1>c, <1>s, <1>i, <1>n, <1>h, <1>t, <1>d DEF Requests, RequestMeets, NoTarget
<1>Acks. Acks'
  BY <1>p, <1>a, <1>c, <1>s, <1>i, <1>n, <1>h, <1>t, <1>d DEF Acks, AckMeets
<1>Failures. Failures'
  BY <1>p, <1>a, <1>c, <1>s, <1>i, <1>n, <1>h, <1>t, <1>d DEF Failures, FailureMeets, NoTarget
<1>Releases. Releases'
  BY <1>p, <1>a, <1>c, <1>s, <1>i, <1>n, <1>h, <1>t, <1>d DEF Releases, ReleaseMeets
<1>Cancels. Cancels'
  BY <1>p, <1>a, <1>c, <1>s, <1>i, <1>n, <1>h, <1>t, <1>d DEF Cancels, CancelMeets
<1>Joinings. Joinings'
  BY <1>p, <1>a, <1>c, <1>s, <1>i, <1>n, <1>h, <1>t, <1>d DEF Joinings, JoiningFrom
<1>Switchings. Switchings'
  BY <1>p, <1>a, <1>c, <1>s, <1>i, <1>n, <1>h, <1>t, <1>d DEF Switchings, SwitchingFrom, Switched
<1>Answers. Answers'
  BY <1>p, <1>a, <1>c, <1>s, <1>i, <1>n, <1>h, <1>t, <1>d DEF Answers
<1>UeIdle. UeIdle'
  BY <1>p, <1>a, <1>c, <1>s, <1>i, <1>n, <1>h, <1>t, <1>d DEF UeIdle
<1>UeConnecting. UeConnecting'
  BY <1>p, <1>a, <1>c, <1>s, <1>i, <1>n, <1>h, <1>t, <1>d DEF UeConnecting, SettingUp
<1>UeMoving. UeMoving'
  BY <1>p, <1>a, <1>c, <1>s, <1>i, <1>n, <1>h, <1>t, <1>d DEF UeMoving, Away
<1>UeConnected. UeConnected'
  BY <1>p, <1>a, <1>c, <1>s, <1>i, <1>n, <1>h, <1>t, <1>d DEF UeConnected, Away
<1> QED BY <1>p, <1>a, <1>TypeOK, <1>Messages, <1>Queues, <1>Contexts, <1>Leavings, <1>OneSource,
           <1>Requests, <1>Acks, <1>Failures, <1>Releases, <1>Cancels, <1>Joinings, <1>Switchings,
           <1>Answers, <1>UeIdle, <1>UeConnecting, <1>UeMoving, <1>UeConnected DEF IInv, Good

\* The UE receives the command to hand over, and the invariant stays.
LEMMA CommandReceived ==
    ASSUME Here, UeRecvReconfiguration, Head(dl).kind = "handover"
    PROVE  IInv'
<1>p. /\ TypeOK /\ Messages /\ Queues /\ Contexts /\ Leavings /\ OneSource
      /\ Requests /\ Acks /\ Failures /\ Releases /\ Cancels
      /\ Joinings /\ Switchings /\ Answers
      /\ UeIdle /\ UeConnecting /\ UeMoving /\ UeConnected
      /\ fault = "none" /\ MaxRnti \in Nat /\ NoCell \notin Gnb
      /\ \A q \in Rnti : q \in Nat /\ q \in Id /\ q # 0
  BY HandoverAssumption DEF Here, Good, Rnti, Id
<1>d. now = <<>> /\ ue.st = "CONNECTED_NORMALLY" /\ ue.cell \in Gnb /\ ue.rnti \in Rnti
      /\ St(ue.cell, ue.rnti) = "HANDOVER_LEAVING"
      /\ \E p \in Gnb, n \in Rnti : Linked(ue.cell, ue.rnti, p, n) /\ dl = <<Command(p, n)>>
  BY DlMeets, Kinds, Single DEF UeRecvReconfiguration, Here, Running
<1>k. PICK p \in Gnb, n \in Rnti : Linked(ue.cell, ue.rnti, p, n) /\ dl = <<Command(p, n)>>
  BY <1>d
<1>x. PICK s \in Gnb, w \in Rnti : s = ue.cell /\ w = ue.rnti
  BY <1>d
<1>e. Head(dl) = Command(p, n) /\ Head(dl).kind = "handover" /\ Head(dl).cell = p
              /\ Head(dl).rnti = n
  BY <1>k, Kinds, Single
<1>a. /\ ue' = [ue EXCEPT !.st = "CONNECTED_HANDOVER", !.cell = p, !.rnti = n, !.from = <<s, w>>]
      /\ dl' = <<>> /\ ul' = <<>> /\ now = <<>> /\ now' = <<>>
      /\ UNCHANGED <<ctx, last, teid, imsiRnti, x2, s1, leavingLast, fault>>
  BY <1>d, <1>e, <1>x DEF Here, UeRecvReconfiguration, gnbVars
<1>c. \A h, q :
         /\ St(h, q)' = St(h, q) /\ Peer(h, q)' = Peer(h, q)
         /\ Timer(h, q)' = Timer(h, q) /\ Pend(h, q)' = Pend(h, q)
         /\ \A x, y : Linked(h, q, x, y)' <=> Linked(h, q, x, y)
  BY <1>a, ContextsSame
<1>s. \A kind, from, to, old, new : Sent(kind, from, to, old, new)'
              <=> Sent(kind, from, to, old, new)
  BY <1>a, LinksSame
<1>i. /\ ~Idle /\ ~Idle' /\ ~ue.left /\ ~ue'.left /\ ue'.rnti = n /\ ue'.cell = p
      /\ ue.st = "CONNECTED_NORMALLY" /\ ue'.st = "CONNECTED_HANDOVER" /\ ue' \in UeType
           /\ ue'.from = <<s, w>>
      /\ ue'.from[1] = s /\ ue'.from[2] = w
  <2>1. ue \in UeType
    BY <1>p DEF TypeOK
  <2>3. w \in 0 .. MaxRnti /\ n \in 0 .. MaxRnti
    BY <1>p DEF Rnti
  <2>2. ue' \in UeType
    BY <1>a, <1>d, <1>x, <2>1, <2>3 DEF UeType
  <2> QED BY <1>p, <1>a, <1>d, <1>x, <2>1, <2>2 DEF Idle, UeIdle, UeType
<1>t. \A h \in Gnb : last[h] \in Nat
  BY <1>p DEF TypeOK
<1>n. \A h, q :
         /\ ~Released(h, q) /\ ~Released(h, q)' /\ ~Leaves(h, q) /\ ~Leaves(h, q)'
  BY <1>a DEF Released, Leaves
<1>h. \A h, q :
         /\ UeAt(h, q) <=> h = s /\ q = w
         /\ UeAt(h, q)' <=> h = p /\ q = n
         /\ Home(h, q) <=> UeAt(h, q)
         /\ Home(h, q)' <=> UeAt(h, q)'
         /\ On(h, q) <=> UeAt(h, q)
         /\ On(h, q)' <=> UeAt(h, q)'
  BY <1>x, <1>i, <1>n DEF Home, UeAt, On
<1>l. /\ p # s /\ n <= last[p] /\ St(s, w) = "HANDOVER_LEAVING" /\ Linked(s, w, p, n)
           /\ Peer(s, w) = p
      /\ St(p, n) \in {"NONE", "HANDOVER_JOINING"} /\ Pending(s, w, p, n)
  BY <1>p, <1>d, <1>k, <1>x, <1>h DEF Leavings, LeavingTo, Linked, Peer
<1>o. St(p, n) = "HANDOVER_JOINING" => Linked(p, n, s, w)
  BY <1>p, <1>l, <1>h DEF Pending, Failures, Releases, FailureMeets, ReleaseMeets, Id, Rnti
<1>TypeOK. TypeOK'
  BY <1>p, <1>a, <1>i, Single DEF TypeOK
<1>Messages. Messages'
  BY <1>p, <1>a DEF Messages
<1>Queues. Queues'
  BY <1>p, <1>a, <1>c, <1>s, <1>i, <1>n, <1>h, <1>t, <1>l, <1>o DEF Queues
<1>Contexts. Contexts'
  BY <1>p, <1>a, <1>c, <1>s, <1>i, <1>n, <1>h, <1>t, <1>l, <1>o DEF Contexts, ContextFits,
     Attached, SettingUp
<1>Leavings. Leavings'
  <2>1. \A h \in Gnb, q \in Rnti : St(h, q)' = "HANDOVER_LEAVING" => h = s /\ q = w
    BY <1>p, <1>c, <1>l DEF OneSource, Source
  <2>2. Pending(s, w, p, n)'
    BY <1>a, <1>c, <1>s, <1>l, <1>h DEF Pending, Switched
  <2>3. Linked(s, w, p, n)' /\ n <= last'[p] /\ (St(p, n)' \in {"NONE", "HANDOVER_JOINING"})
    BY <1>a, <1>c, <1>l
  <2>4. ue'.from = <<s, w>> /\ ue'.cell = p /\ ~ue'.left /\ ue'.rnti = n
    BY <1>i
  <2> QED BY <2>1, <2>2, <2>3, <2>4, <1>l DEF Leavings, LeavingTo
<1>OneSource. OneSource'
  <2> SUFFICES ASSUME NEW h \in Gnb, NEW q \in Rnti
               PROVE  NothingNew(h, q)
    BY <1>p, OneSourceStays
  <2> QED BY <1>p, <1>a, <1>c, <1>s, <1>i, <1>n, <1>h, <1>t, <1>l, <1>o DEF NothingNew, Source,
             Target
<1>Requests. Requests'
  BY <1>p, <1>a, <1>c, <1>s, <1>i, <1>n, <1>h, <1>t, <1>l, <1>o DEF Requests, RequestMeets, NoTarget
<1>Acks. Acks'
  BY <1>p, <1>a, <1>c, <1>s, <1>i, <1>n, <1>h, <1>t, <1>l, <1>o DEF Acks, AckMeets
<1>Failures. Failures'
  BY <1>p, <1>a, <1>c, <1>s, <1>i, <1>n, <1>h, <1>t, <1>l, <1>o DEF Failures, FailureMeets, NoTarget
<1>Releases. Releases'
  BY <1>p, <1>a, <1>c, <1>s, <1>i, <1>n, <1>h, <1>t, <1>l, <1>o DEF Releases, ReleaseMeets
<1>Cancels. Cancels'
  BY <1>p, <1>a, <1>c, <1>s, <1>i, <1>n, <1>h, <1>t, <1>l, <1>o DEF Cancels, CancelMeets
<1>Joinings. Joinings'
  BY <1>p, <1>a, <1>c, <1>s, <1>i, <1>n, <1>h, <1>t, <1>l, <1>o DEF Joinings, JoiningFrom
<1>Switchings. Switchings'
  BY <1>p, <1>a, <1>c, <1>s, <1>i, <1>n, <1>h, <1>t, <1>l, <1>o DEF Switchings, SwitchingFrom,
     Switched
<1>Answers. Answers'
  BY <1>p, <1>a, <1>c, <1>s, <1>i, <1>n, <1>h, <1>t, <1>l, <1>o DEF Answers
<1>UeIdle. UeIdle'
  BY <1>p, <1>a, <1>c, <1>s, <1>i, <1>n, <1>h, <1>t, <1>l, <1>o DEF UeIdle
<1>UeConnecting. UeConnecting'
  BY <1>p, <1>a, <1>c, <1>s, <1>i, <1>n, <1>h, <1>t, <1>l, <1>o DEF UeConnecting, SettingUp
<1>UeMoving. UeMoving'
  BY <1>p, <1>a, <1>c, <1>s, <1>i, <1>n, <1>h, <1>t, <1>l, <1>o DEF UeMoving, Away
<1>UeConnected. UeConnected'
  BY <1>p, <1>a, <1>c, <1>s, <1>i, <1>n, <1>h, <1>t, <1>l, <1>o DEF UeConnected, Away
<1> QED BY <1>p, <1>a, <1>TypeOK, <1>Messages, <1>Queues, <1>Contexts, <1>Leavings, <1>OneSource,
           <1>Requests, <1>Acks, <1>Failures, <1>Releases, <1>Cancels, <1>Joinings, <1>Switchings,
           <1>Answers, <1>UeIdle, <1>UeConnecting, <1>UeMoving, <1>UeConnected DEF IInv, Good

\* The UE receives a reconfiguration that stays in the cell, and the invariant
\* stays.
LEMMA ReconfigurationReceived ==
    ASSUME Here, UeRecvReconfiguration, Head(dl).kind # "handover"
    PROVE  IInv'
<1>p. /\ TypeOK /\ Messages /\ Queues /\ Contexts /\ Leavings /\ OneSource
      /\ Requests /\ Acks /\ Failures /\ Releases /\ Cancels
      /\ Joinings /\ Switchings /\ Answers
      /\ UeIdle /\ UeConnecting /\ UeMoving /\ UeConnected
      /\ fault = "none" /\ MaxRnti \in Nat /\ NoCell \notin Gnb
      /\ \A q \in Rnti : q \in Nat /\ q \in Id /\ q # 0
  BY HandoverAssumption DEF Here, Good, Rnti, Id
<1>d. now = <<>> /\ ue.st = "CONNECTED_NORMALLY" /\ ue.cell \in Gnb /\ ue.rnti \in Rnti /\ ul = <<>>
      /\ St(ue.cell, ue.rnti) = "CONNECTION_RECONFIGURATION" /\ dl = <<Reconf>>
  BY DlMeets, Kinds, Single DEF UeRecvReconfiguration, Here, Running
<1>a. /\ ue' = ue /\ dl' = <<>> /\ ul' = <<"completed">> /\ now' = now
      /\ UNCHANGED <<ctx, last, teid, imsiRnti, x2, s1, leavingLast, fault>>
  BY <1>d, Kinds, Single DEF Here, UeRecvReconfiguration, gnbVars
<1>c. \A h, q :
         /\ St(h, q)' = St(h, q) /\ Peer(h, q)' = Peer(h, q)
         /\ Timer(h, q)' = Timer(h, q) /\ Pend(h, q)' = Pend(h, q)
         /\ \A x, y : Linked(h, q, x, y)' <=> Linked(h, q, x, y)
  BY <1>a, ContextsSame
<1>s. \A kind, from, to, old, new : Sent(kind, from, to, old, new)'
              <=> Sent(kind, from, to, old, new)
  BY <1>a, LinksSame
<1>u. /\ Idle' <=> Idle
      /\ \A h, q :
            /\ UeAt(h, q)' <=> UeAt(h, q)
            /\ On(h, q)' <=> On(h, q)
            /\ Home(h, q)' <=> Home(h, q)
            /\ Leaves(h, q)' <=> Leaves(h, q)
            /\ Released(h, q)' <=> Released(h, q)
  BY <1>a, UeSame
<1>TypeOK. TypeOK'
  BY <1>p, <1>a, Single DEF TypeOK
<1>Messages. Messages'
  BY <1>p, <1>a, <1>u DEF Messages
<1>Queues. Queues'
  BY <1>p, <1>a, <1>c, <1>s, <1>u, <1>d DEF Queues
<1>Contexts. Contexts'
  BY <1>p, <1>a, <1>c, <1>s, <1>u, <1>d DEF Contexts, ContextFits, Attached, SettingUp
<1>Leavings. Leavings'
  BY <1>p, <1>a, <1>c, <1>s, <1>u, <1>d DEF Leavings, LeavingTo, Pending, Switched
<1>OneSource. OneSource'
  <2> SUFFICES ASSUME NEW h \in Gnb, NEW q \in Rnti
               PROVE  NothingNew(h, q)
    BY <1>p, OneSourceStays
  <2> QED BY <1>p, <1>a, <1>c, <1>s, <1>u, <1>d DEF NothingNew, Source, Target
<1>Requests. Requests'
  BY <1>p, <1>a, <1>c, <1>s, <1>u, <1>d DEF Requests, RequestMeets, NoTarget
<1>Acks. Acks'
  BY <1>p, <1>a, <1>c, <1>s, <1>u, <1>d DEF Acks, AckMeets
<1>Failures. Failures'
  BY <1>p, <1>a, <1>c, <1>s, <1>u, <1>d DEF Failures, FailureMeets, NoTarget
<1>Releases. Releases'
  BY <1>p, <1>a, <1>c, <1>s, <1>u, <1>d DEF Releases, ReleaseMeets
<1>Cancels. Cancels'
  BY <1>p, <1>a, <1>c, <1>s, <1>u, <1>d DEF Cancels, CancelMeets
<1>Joinings. Joinings'
  BY <1>p, <1>a, <1>c, <1>s, <1>u, <1>d DEF Joinings, JoiningFrom
<1>Switchings. Switchings'
  BY <1>p, <1>a, <1>c, <1>s, <1>u, <1>d DEF Switchings, SwitchingFrom, Switched
<1>Answers. Answers'
  BY <1>p, <1>a, <1>c, <1>s, <1>u, <1>d DEF Answers
<1>UeIdle. UeIdle'
  BY <1>p, <1>a, <1>c, <1>s, <1>u, <1>d DEF UeIdle
<1>UeConnecting. UeConnecting'
  BY <1>p, <1>a, <1>c, <1>s, <1>u, <1>d DEF UeConnecting, SettingUp
<1>UeMoving. UeMoving'
  BY <1>p, <1>a, <1>c, <1>s, <1>u, <1>d DEF UeMoving, Away
<1>UeConnected. UeConnected'
  BY <1>p, <1>a, <1>c, <1>s, <1>u, <1>d DEF UeConnected, Away
<1> QED BY <1>p, <1>a, <1>TypeOK, <1>Messages, <1>Queues, <1>Contexts, <1>Leavings, <1>OneSource,
           <1>Requests, <1>Acks, <1>Failures, <1>Releases, <1>Cancels, <1>Joinings, <1>Switchings,
           <1>Answers, <1>UeIdle, <1>UeConnecting, <1>UeMoving, <1>UeConnected DEF IInv, Good

\* Random access succeeds in the context that admitted the UE, and the invariant
\* stays.
LEMMA PreambleAnswered ==
    ASSUME Here, RandomAccessSucceeds, Exists(ue.cell, ue.rnti)
    PROVE  IInv'
<1>p. /\ TypeOK /\ Messages /\ Queues /\ Contexts /\ Leavings /\ OneSource
      /\ Requests /\ Acks /\ Failures /\ Releases /\ Cancels
      /\ Joinings /\ Switchings /\ Answers
      /\ UeIdle /\ UeConnecting /\ UeMoving /\ UeConnected
      /\ fault = "none" /\ MaxRnti \in Nat /\ NoCell \notin Gnb
      /\ \A q \in Rnti : q \in Nat /\ q \in Id /\ q # 0
  BY HandoverAssumption DEF Here, Good, Rnti, Id
<1>d. ue.st = "CONNECTED_HANDOVER" /\ now = <<>> /\ ue.rnti \in Rnti
              /\ St(ue.cell, ue.rnti) # "NONE"
  BY <1>p DEF RandomAccessSucceeds, Running, Exists, UeIdle, Rnti, St
<1>a. /\ ue' = [ue EXCEPT !.st = "CONNECTED_NORMALLY", !.rnti = ue.rnti] /\ ul' = <<"completed">>
      /\ now' = <<>> /\ now = <<>> /\ dl = <<>> /\ ul = <<>> /\ Away
      /\ St(ue.cell, ue.rnti) = "HANDOVER_JOINING"
           /\ Linked(ue.cell, ue.rnti, ue.from[1], ue.from[2])
      /\ UNCHANGED <<ctx, last, teid, imsiRnti, dl, x2, s1, leavingLast, fault>>
  BY <1>p, <1>d DEF Here, RandomAccessSucceeds, Answered, gnbVars, UeMoving
<1>c. \A h, q :
         /\ St(h, q)' = St(h, q) /\ Peer(h, q)' = Peer(h, q)
         /\ Timer(h, q)' = Timer(h, q) /\ Pend(h, q)' = Pend(h, q)
         /\ \A x, y : Linked(h, q, x, y)' <=> Linked(h, q, x, y)
  BY <1>a, ContextsSame
<1>s. \A kind, from, to, old, new : Sent(kind, from, to, old, new)'
              <=> Sent(kind, from, to, old, new)
  BY <1>a, LinksSame
<1>i. /\ ~Idle /\ ~Idle' /\ ue.cell \in Gnb /\ ~ue.left /\ ~ue'.left /\ ue'.rnti = ue.rnti
           /\ ue'.cell = ue.cell
      /\ ue.st = "CONNECTED_HANDOVER" /\ ue'.st = "CONNECTED_NORMALLY" /\ ue' \in UeType
           /\ ue'.from = ue.from
  <2>1. ue \in UeType
    BY <1>p DEF TypeOK
  <2>2. ue' \in UeType
    BY <1>a, <1>d, <2>1 DEF UeType
  <2> QED BY <1>p, <1>a, <1>d, <2>1, <2>2 DEF Idle, UeIdle, UeType
<1>t. \A h \in Gnb : last[h] \in Nat
  BY <1>p DEF TypeOK
<1>n. \A h, q :
         /\ ~Released(h, q) /\ ~Released(h, q)' /\ ~Leaves(h, q) /\ ~Leaves(h, q)'
  BY <1>a DEF Released, Leaves
<1>h. \A h, q :
         /\ UeAt(h, q) <=> h = ue.cell /\ q = ue.rnti
         /\ UeAt(h, q)' <=> UeAt(h, q)
         /\ Home(h, q) <=> UeAt(h, q)
         /\ Home(h, q)' <=> UeAt(h, q)
         /\ On(h, q) <=> UeAt(h, q)
         /\ On(h, q)' <=> UeAt(h, q)
  BY <1>i, <1>n DEF Home, UeAt, On
<1>TypeOK. TypeOK'
  BY <1>p, <1>a, <1>i, Single DEF TypeOK
<1>Messages. Messages'
  BY <1>p, <1>a DEF Messages
<1>Queues. Queues'
  BY <1>p, <1>a, <1>c, <1>s, <1>i, <1>n, <1>h, <1>t, <1>d DEF Queues
<1>Contexts. Contexts'
  BY <1>p, <1>a, <1>c, <1>s, <1>i, <1>n, <1>h, <1>t, <1>d DEF Contexts, ContextFits, Attached,
     SettingUp
<1>Leavings. Leavings'
  BY <1>p, <1>a, <1>c, <1>s, <1>i, <1>n, <1>h, <1>t, <1>d DEF Leavings, LeavingTo, Pending, Switched
<1>OneSource. OneSource'
  <2> SUFFICES ASSUME NEW h \in Gnb, NEW q \in Rnti
               PROVE  NothingNew(h, q)
    BY <1>p, OneSourceStays
  <2> QED BY <1>p, <1>a, <1>c, <1>s, <1>i, <1>n, <1>h, <1>t, <1>d DEF NothingNew, Source, Target
<1>Requests. Requests'
  BY <1>p, <1>a, <1>c, <1>s, <1>i, <1>n, <1>h, <1>t, <1>d DEF Requests, RequestMeets, NoTarget
<1>Acks. Acks'
  BY <1>p, <1>a, <1>c, <1>s, <1>i, <1>n, <1>h, <1>t, <1>d DEF Acks, AckMeets
<1>Failures. Failures'
  BY <1>p, <1>a, <1>c, <1>s, <1>i, <1>n, <1>h, <1>t, <1>d DEF Failures, FailureMeets, NoTarget
<1>Releases. Releases'
  BY <1>p, <1>a, <1>c, <1>s, <1>i, <1>n, <1>h, <1>t, <1>d DEF Releases, ReleaseMeets
<1>Cancels. Cancels'
  BY <1>p, <1>a, <1>c, <1>s, <1>i, <1>n, <1>h, <1>t, <1>d DEF Cancels, CancelMeets
<1>Joinings. Joinings'
  BY <1>p, <1>a, <1>c, <1>s, <1>i, <1>n, <1>h, <1>t, <1>d DEF Joinings, JoiningFrom
<1>Switchings. Switchings'
  BY <1>p, <1>a, <1>c, <1>s, <1>i, <1>n, <1>h, <1>t, <1>d DEF Switchings, SwitchingFrom, Switched
<1>Answers. Answers'
  BY <1>p, <1>a, <1>c, <1>s, <1>i, <1>n, <1>h, <1>t, <1>d DEF Answers
<1>UeIdle. UeIdle'
  BY <1>p, <1>a, <1>c, <1>s, <1>i, <1>n, <1>h, <1>t, <1>d DEF UeIdle
<1>UeConnecting. UeConnecting'
  BY <1>p, <1>a, <1>c, <1>s, <1>i, <1>n, <1>h, <1>t, <1>d DEF UeConnecting, SettingUp
<1>UeMoving. UeMoving'
  BY <1>p, <1>a, <1>c, <1>s, <1>i, <1>n, <1>h, <1>t, <1>d DEF UeMoving, Away
<1>UeConnected. UeConnected'
  BY <1>p, <1>a, <1>c, <1>s, <1>i, <1>n, <1>h, <1>t, <1>d DEF UeConnected, Away
<1> QED BY <1>p, <1>a, <1>TypeOK, <1>Messages, <1>Queues, <1>Contexts, <1>Leavings, <1>OneSource,
           <1>Requests, <1>Acks, <1>Failures, <1>Releases, <1>Cancels, <1>Joinings, <1>Switchings,
           <1>Answers, <1>UeIdle, <1>UeConnecting, <1>UeMoving, <1>UeConnected DEF IInv, Good

\* Random access of a handover succeeds where the admitted context is gone: a new
\* one is made, and the invariant stays.
LEMMA HandoverToNewContext ==
    ASSUME Here, RandomAccessSucceeds, ~Exists(ue.cell, ue.rnti), ue.st = "CONNECTED_HANDOVER"
    PROVE  IInv'
<1>p. /\ TypeOK /\ Messages /\ Queues /\ Contexts /\ Leavings /\ OneSource
      /\ Requests /\ Acks /\ Failures /\ Releases /\ Cancels
      /\ Joinings /\ Switchings /\ Answers
      /\ UeIdle /\ UeConnecting /\ UeMoving /\ UeConnected
      /\ fault = "none" /\ MaxRnti \in Nat /\ NoCell \notin Gnb
      /\ \A q \in Rnti : q \in Nat /\ q \in Id /\ q # 0
  BY HandoverAssumption DEF Here, Good, Rnti, Id
<1>d. now = <<>> /\ ue.cell \in Gnb /\ last[ue.cell] < MaxRnti /\ last \in [Gnb -> 0 .. MaxRnti]
  BY <1>p DEF RandomAccessSucceeds, Running, UeIdle, Idle, TypeOK
<1>g. PICK g \in Gnb, w \in Rnti : g = ue.cell /\ w = last[g] + 1
  BY <1>p, <1>d DEF Rnti
<1>k. PICK c \in ContextType : c = [NoCtx EXCEPT !.st = "INITIAL_RANDOM_ACCESS", !.timer = "request"]
  BY <1>p, NoCtxType DEF ContextType, NoCtx
<1>a. /\ ue' = [ue EXCEPT !.st = "CONNECTED_NORMALLY", !.rnti = w] /\ ul' = <<"completed">>
      /\ now' = <<>> /\ now = <<>> /\ last' = [last EXCEPT ![g] = w]
      /\ ctx' = [ctx EXCEPT ![g][w] = c]
      /\ UNCHANGED <<teid, imsiRnti, dl, x2, s1, leavingLast, fault>>
  BY <1>d, <1>g, <1>k DEF Here, RandomAccessSucceeds, Answered
<1>f. /\ \A h \in Gnb : /\ last[h] \in Nat /\ teid[h] \in Nat /\ imsiRnti[h] \in Nat /\ last'[h] \in 0 .. MaxRnti
                          /\ last'[h] = IF h = g THEN w ELSE last[h]
      /\ St(g, w) = "NONE" /\ w = last[g] + 1 /\ g = ue.cell
  <2>1. w \in 0 .. MaxRnti
    BY DEF Rnti
  <2>2. last[g] \in Nat
    BY <1>d
  <2> QED BY <1>p, <1>d, <1>g, <1>a, <2>1, <2>2 DEF Contexts, ContextFits, TypeOK
<1>b. c.st = "INITIAL_RANDOM_ACCESS" /\ c.timer = "request" /\ c.pend = FALSE /\ Guarded(c)
  BY <1>k DEF NoCtx, Guarded
<1>c. /\ ctx' \in [Gnb -> [Rnti -> ContextType]]
      /\ \A h \in Gnb, q \in Rnti : Guarded(ctx'[h][q])
      /\ St(g, w)' = "INITIAL_RANDOM_ACCESS" /\ Timer(g, w)' = "request" /\ ~Pend(g, w)'
      /\ \A h \in Gnb, q \in Rnti : h # g \/ q # w =>
            /\ St(h, q)' = St(h, q) /\ Peer(h, q)' = Peer(h, q)
            /\ Timer(h, q)' = Timer(h, q) /\ Pend(h, q)' = Pend(h, q)
            /\ \A x, y : Linked(h, q, x, y)' <=> Linked(h, q, x, y)
  <2>1. Put(g, w, c)
    BY <1>a DEF Put
  <2>2. Replaced(g, w, c)
    BY <1>p, <1>b, <2>1, ContextUpdated
  <2> QED BY <1>b, <2>2 DEF Replaced, OthersStay
<1>s. \A kind, from, to, old, new : Sent(kind, from, to, old, new)'
              <=> Sent(kind, from, to, old, new)
  BY <1>a, LinksSame
<1>i. /\ ~Idle /\ ~Idle' /\ ~ue.left /\ ~ue'.left /\ ue'.rnti = w /\ ue'.cell = g
      /\ ue.st = "CONNECTED_HANDOVER" /\ ue'.st = "CONNECTED_NORMALLY" /\ ue' \in UeType
           /\ ue'.from = ue.from
  <2>1. ue \in UeType
    BY <1>p DEF TypeOK
  <2>3. w \in 0 .. MaxRnti
    BY DEF Rnti
  <2>2. ue' \in UeType
    BY <1>a, <1>d, <1>g, <2>1, <2>3 DEF UeType
  <2> QED BY <1>p, <1>a, <1>d, <1>g, <2>1, <2>2 DEF Idle, UeIdle, UeType
<1>n. \A h, q :
         /\ ~Released(h, q) /\ ~Released(h, q)' /\ ~Leaves(h, q) /\ ~Leaves(h, q)'
  BY <1>a DEF Released, Leaves
<1>h. \A h, q :
         /\ UeAt(h, q) <=> h = g /\ q = ue.rnti
         /\ UeAt(h, q)' <=> h = g /\ q = w
         /\ Home(h, q) <=> UeAt(h, q)
         /\ Home(h, q)' <=> UeAt(h, q)'
         /\ On(h, q) <=> UeAt(h, q)
         /\ On(h, q)' <=> UeAt(h, q)'
  BY <1>g, <1>i, <1>n DEF Home, UeAt, On
<1>v. /\ dl = <<>> /\ ul = <<>> /\ Away /\ ue.rnti \in Rnti
  BY <1>p, <1>i DEF UeMoving
<1>u. St(g, ue.rnti) = "NONE"
  BY <1>v, <1>g DEF Exists, St
<1>TypeOK. TypeOK'
  BY <1>p, <1>a, <1>f, <1>c, <1>i, <1>v, Single DEF TypeOK
<1>Messages. Messages'
  BY <1>p, <1>a, <1>v DEF Messages
<1>Queues. Queues'
  BY <1>p, <1>a, <1>f, <1>c, <1>s, <1>i, <1>n, <1>h, <1>v, <1>u DEF Queues
<1>Contexts. Contexts'
  BY <1>p, <1>a, <1>f, <1>c, <1>s, <1>i, <1>n, <1>h, <1>v, <1>u DEF Contexts, ContextFits,
     Attached, SettingUp
<1>Leavings. Leavings'
  <2> SUFFICES ASSUME NEW h \in Gnb, NEW q \in Rnti, St(h, q)' = "HANDOVER_LEAVING"
               PROVE  \E x \in Gnb, y \in Rnti : LeavingTo(h, q, x, y)'
    BY DEF Leavings
  <2>1. PICK x \in Gnb, y \in Rnti : LeavingTo(h, q, x, y)
    BY <1>p, <1>c DEF Leavings
  <2>0. /\ y <= last'[x] /\ St(x, y)' = St(x, y) /\ St(h, q) = "HANDOVER_LEAVING"
        /\ \A a, b : (Linked(x, y, a, b)' <=> Linked(x, y, a, b)) /\ (Linked(h, q, a, b)'
             <=> Linked(h, q, a, b))
    BY <2>1, <1>p, <1>f, <1>c DEF LeavingTo
  <2>2. Pending(h, q, x, y)'
    BY <2>0, <2>1, <1>a, <1>f, <1>s, <1>i, <1>n, <1>h, <1>v, <1>u DEF LeavingTo, Pending, Switched
  <2>3. \/ Idle'
        \/ On(h, q)'
        \/ ue'.from = <<h, q>> /\ ue'.cell = x /\ ~ue'.left /\ (ue'.rnti = y \/ St(x, y)' = "NONE")
    BY <2>0, <2>1, <1>a, <1>f, <1>s, <1>i, <1>n, <1>h, <1>v, <1>u DEF LeavingTo
  <2>4. St(x, y)' \in {"NONE", "HANDOVER_JOINING"} \/ Home(x, y)'
    BY <2>0, <2>1, <1>a, <1>f, <1>s, <1>i, <1>n, <1>h, <1>v, <1>u DEF LeavingTo
  <2> QED BY <2>0, <2>1, <2>2, <2>3, <2>4 DEF LeavingTo
<1>OneSource. OneSource'
  <2> SUFFICES ASSUME NEW h \in Gnb, NEW q \in Rnti
               PROVE  NothingNew(h, q)
    BY <1>p, OneSourceStays
  <2> QED BY <1>p, <1>a, <1>f, <1>c, <1>s, <1>i, <1>n, <1>h, <1>v, <1>u DEF NothingNew, Source,
             Target
<1>Requests. Requests'
  BY <1>p, <1>a, <1>f, <1>c, <1>s, <1>i, <1>n, <1>h, <1>v, <1>u DEF Requests, RequestMeets, NoTarget
<1>Acks. Acks'
  BY <1>p, <1>a, <1>f, <1>c, <1>s, <1>i, <1>n, <1>h, <1>v, <1>u DEF Acks, AckMeets
<1>Failures. Failures'
  <2>1. \A h \in Gnb, q \in Rnti : q <= last[h] =>
           /\ q <= last'[h] /\ St(h, q)' = St(h, q) /\ Peer(h, q)' = Peer(h, q)
           /\ \A x, y : Linked(h, q, x, y)' <=> Linked(h, q, x, y)
    BY <1>p, <1>f, <1>c
  <2>2. \A h \in Gnb, q \in Rnti : NoTarget(h, q) => NoTarget(h, q)'
    BY <1>c DEF NoTarget
  <2>3. \A h, x \in Gnb, q, y \in Rnti :
           St(h, q) = "HANDOVER_LEAVING" /\ Linked(h, q, x, y) => y <= last[x]
    BY <1>p, LinkedOnce DEF Leavings, LeavingTo
  <2>4. Failures
    BY <1>p
  <2> QED BY <2>1, <2>2, <2>3, <2>4, <1>s DEF Failures, FailureMeets
<1>Releases. Releases'
  BY <1>p, <1>a, <1>f, <1>c, <1>s, <1>i, <1>n, <1>h, <1>v, <1>u DEF Releases, ReleaseMeets
<1>Cancels. Cancels'
  BY <1>p, <1>a, <1>f, <1>c, <1>s, <1>i, <1>n, <1>h, <1>v, <1>u DEF Cancels, CancelMeets
<1>Joinings. Joinings'
  <2> SUFFICES ASSUME NEW h \in Gnb, NEW q \in Rnti, St(h, q)' = "HANDOVER_JOINING"
               PROVE  \E x \in Gnb, y \in Rnti : JoiningFrom(h, q, x, y)'
    BY DEF Joinings
  <2>1. PICK x \in Gnb, y \in Rnti : JoiningFrom(h, q, x, y)
    BY <1>p, <1>c DEF Joinings
  <2> QED BY <2>1, <1>p, <1>a, <1>f, <1>c, <1>s DEF JoiningFrom
<1>Switchings. Switchings'
  BY <1>p, <1>a, <1>f, <1>c, <1>s, <1>i, <1>n, <1>h, <1>v, <1>u DEF Switchings, SwitchingFrom,
     Switched
<1>Answers. Answers'
  BY <1>p, <1>a, <1>f, <1>c, <1>s, <1>i, <1>n, <1>h, <1>v, <1>u DEF Answers
<1>UeIdle. UeIdle'
  BY <1>p, <1>a, <1>f, <1>c, <1>s, <1>i, <1>n, <1>h, <1>v, <1>u DEF UeIdle
<1>UeConnecting. UeConnecting'
  BY <1>p, <1>a, <1>f, <1>c, <1>s, <1>i, <1>n, <1>h, <1>v, <1>u DEF UeConnecting, SettingUp
<1>UeMoving. UeMoving'
  BY <1>p, <1>a, <1>f, <1>c, <1>s, <1>i, <1>n, <1>h, <1>v, <1>u DEF UeMoving, Away
<1>UeConnected. UeConnected'
  BY <1>p, <1>a, <1>f, <1>c, <1>s, <1>i, <1>n, <1>h, <1>v, <1>u DEF UeConnected, Away
<1> QED BY <1>p, <1>a, <1>TypeOK, <1>Messages, <1>Queues, <1>Contexts, <1>Leavings, <1>OneSource,
           <1>Requests, <1>Acks, <1>Failures, <1>Releases, <1>Cancels, <1>Joinings, <1>Switchings,
           <1>Answers, <1>UeIdle, <1>UeConnecting, <1>UeMoving, <1>UeConnected DEF IInv, Good

\* Random access of a connection succeeds: a context is made, and the invariant
\* stays.
LEMMA ConnectionToNewContext ==
    ASSUME Here, RandomAccessSucceeds, ~Exists(ue.cell, ue.rnti), ue.st = "IDLE_RANDOM_ACCESS"
    PROVE  IInv'
<1>p. /\ TypeOK /\ Messages /\ Queues /\ Contexts /\ Leavings /\ OneSource
      /\ Requests /\ Acks /\ Failures /\ Releases /\ Cancels
      /\ Joinings /\ Switchings /\ Answers
      /\ UeIdle /\ UeConnecting /\ UeMoving /\ UeConnected
      /\ fault = "none" /\ MaxRnti \in Nat /\ NoCell \notin Gnb
      /\ \A q \in Rnti : q \in Nat /\ q \in Id /\ q # 0
  BY HandoverAssumption DEF Here, Good, Rnti, Id
<1>d. now = <<>> /\ ue.cell \in Gnb /\ last[ue.cell] < MaxRnti /\ last \in [Gnb -> 0 .. MaxRnti]
  BY <1>p DEF RandomAccessSucceeds, Running, UeIdle, Idle, TypeOK
<1>g. PICK g \in Gnb, w \in Rnti : g = ue.cell /\ w = last[g] + 1
  BY <1>p, <1>d DEF Rnti
<1>k. PICK c \in ContextType : c = [NoCtx EXCEPT !.st = "INITIAL_RANDOM_ACCESS", !.timer = "request"]
  BY <1>p, NoCtxType DEF ContextType, NoCtx
<1>a. /\ ue' = [ue EXCEPT !.st = "IDLE_CONNECTING", !.rnti = w] /\ ul' = <<"request">>
      /\ now' = <<>> /\ now = <<>> /\ last' = [last EXCEPT ![g] = w]
      /\ ctx' = [ctx EXCEPT ![g][w] = c]
      /\ UNCHANGED <<teid, imsiRnti, dl, x2, s1, leavingLast, fault>>
  BY <1>d, <1>g, <1>k DEF Here, RandomAccessSucceeds, Answered
<1>f. /\ \A h \in Gnb : /\ last[h] \in Nat /\ teid[h] \in Nat /\ imsiRnti[h] \in Nat /\ last'[h] \in 0 .. MaxRnti
                          /\ last'[h] = IF h = g THEN w ELSE last[h]
      /\ St(g, w) = "NONE" /\ w = last[g] + 1 /\ g = ue.cell
  <2>1. w \in 0 .. MaxRnti
    BY DEF Rnti
  <2>2. last[g] \in Nat
    BY <1>d
  <2> QED BY <1>p, <1>d, <1>g, <1>a, <2>1, <2>2 DEF Contexts, ContextFits, TypeOK
<1>b. c.st = "INITIAL_RANDOM_ACCESS" /\ c.timer = "request" /\ c.pend = FALSE /\ Guarded(c)
  BY <1>k DEF NoCtx, Guarded
<1>c. /\ ctx' \in [Gnb -> [Rnti -> ContextType]]
      /\ \A h \in Gnb, q \in Rnti : Guarded(ctx'[h][q])
      /\ St(g, w)' = "INITIAL_RANDOM_ACCESS" /\ Timer(g, w)' = "request" /\ ~Pend(g, w)'
      /\ \A h \in Gnb, q \in Rnti : h # g \/ q # w =>
            /\ St(h, q)' = St(h, q) /\ Peer(h, q)' = Peer(h, q)
            /\ Timer(h, q)' = Timer(h, q) /\ Pend(h, q)' = Pend(h, q)
            /\ \A x, y : Linked(h, q, x, y)' <=> Linked(h, q, x, y)
  <2>1. Put(g, w, c)
    BY <1>a DEF Put
  <2>2. Replaced(g, w, c)
    BY <1>p, <1>b, <2>1, ContextUpdated
  <2> QED BY <1>b, <2>2 DEF Replaced, OthersStay
<1>s. \A kind, from, to, old, new : Sent(kind, from, to, old, new)'
              <=> Sent(kind, from, to, old, new)
  BY <1>a, LinksSame
<1>i. /\ ~Idle /\ ~Idle' /\ ue.left /\ ue'.left /\ ue'.rnti = w /\ ue'.cell = g
      /\ ue.st = "IDLE_RANDOM_ACCESS" /\ ue'.st = "IDLE_CONNECTING" /\ ue' \in UeType
           /\ ue'.from = ue.from
  <2>1. ue \in UeType
    BY <1>p DEF TypeOK
  <2>3. w \in 0 .. MaxRnti
    BY DEF Rnti
  <2>2. ue' \in UeType
    BY <1>a, <1>d, <1>g, <2>1, <2>3 DEF UeType
  <2> QED BY <1>p, <1>a, <1>d, <1>g, <2>1, <2>2 DEF Idle, UeIdle, UeType
<1>n. \A h, q :
         /\ ~Released(h, q) /\ ~Released(h, q)' /\ ~Leaves(h, q) /\ ~Leaves(h, q)'
  BY <1>a DEF Released, Leaves
<1>h. \A h, q :
         /\ UeAt(h, q) <=> h = g /\ q = ue.rnti
         /\ UeAt(h, q)' <=> h = g /\ q = w
         /\ Home(h, q) <=> UeAt(h, q)
         /\ Home(h, q)' <=> UeAt(h, q)'
         /\ On(h, q) <=> FALSE
         /\ On(h, q)' <=> FALSE
  BY <1>g, <1>i, <1>n DEF Home, UeAt, On
<1>v. /\ dl = <<>> /\ ul = <<>> /\ ue.rnti = 0
  BY <1>p, <1>i DEF UeIdle
<1>TypeOK. TypeOK'
  BY <1>p, <1>a, <1>f, <1>c, <1>i, <1>v, Single DEF TypeOK
<1>Messages. Messages'
  BY <1>p, <1>a, <1>v DEF Messages
<1>Queues. Queues'
  BY <1>p, <1>a, <1>f, <1>c, <1>s, <1>i, <1>n, <1>h, <1>v DEF Queues
<1>Contexts. Contexts'
  BY <1>p, <1>a, <1>f, <1>c, <1>s, <1>i, <1>n, <1>h, <1>v DEF Contexts, ContextFits, Attached,
     SettingUp
<1>Leavings. Leavings'
  <2> SUFFICES ASSUME NEW h \in Gnb, NEW q \in Rnti, St(h, q)' = "HANDOVER_LEAVING"
               PROVE  \E x \in Gnb, y \in Rnti : LeavingTo(h, q, x, y)'
    BY DEF Leavings
  <2>1. PICK x \in Gnb, y \in Rnti : LeavingTo(h, q, x, y)
    BY <1>p, <1>c DEF Leavings
  <2>0. /\ y <= last'[x] /\ St(x, y)' = St(x, y) /\ St(h, q) = "HANDOVER_LEAVING"
        /\ \A a, b : (Linked(x, y, a, b)' <=> Linked(x, y, a, b)) /\ (Linked(h, q, a, b)'
             <=> Linked(h, q, a, b))
    BY <2>1, <1>p, <1>f, <1>c DEF LeavingTo
  <2>2. Pending(h, q, x, y)'
    BY <2>0, <2>1, <1>a, <1>f, <1>s, <1>i, <1>n, <1>h, <1>v DEF LeavingTo, Pending, Switched
  <2>3. \/ Idle'
        \/ On(h, q)'
        \/ ue'.from = <<h, q>> /\ ue'.cell = x /\ ~ue'.left /\ (ue'.rnti = y \/ St(x, y)' = "NONE")
    BY <2>0, <2>1, <1>a, <1>f, <1>s, <1>i, <1>n, <1>h, <1>v DEF LeavingTo
  <2>4. St(x, y)' \in {"NONE", "HANDOVER_JOINING"} \/ Home(x, y)'
    BY <2>0, <2>1, <1>a, <1>f, <1>s, <1>i, <1>n, <1>h, <1>v DEF LeavingTo
  <2> QED BY <2>0, <2>1, <2>2, <2>3, <2>4 DEF LeavingTo
<1>OneSource. OneSource'
  <2> SUFFICES ASSUME NEW h \in Gnb, NEW q \in Rnti
               PROVE  NothingNew(h, q)
    BY <1>p, OneSourceStays
  <2> QED BY <1>p, <1>a, <1>f, <1>c, <1>s, <1>i, <1>n, <1>h, <1>v DEF NothingNew, Source, Target
<1>Requests. Requests'
  BY <1>p, <1>a, <1>f, <1>c, <1>s, <1>i, <1>n, <1>h, <1>v DEF Requests, RequestMeets, NoTarget
<1>Acks. Acks'
  BY <1>p, <1>a, <1>f, <1>c, <1>s, <1>i, <1>n, <1>h, <1>v DEF Acks, AckMeets
<1>Failures. Failures'
  <2>1. \A h \in Gnb, q \in Rnti : q <= last[h] =>
           /\ q <= last'[h] /\ St(h, q)' = St(h, q) /\ Peer(h, q)' = Peer(h, q)
           /\ \A x, y : Linked(h, q, x, y)' <=> Linked(h, q, x, y)
    BY <1>p, <1>f, <1>c
  <2>2. \A h \in Gnb, q \in Rnti : NoTarget(h, q) => NoTarget(h, q)'
    BY <1>c DEF NoTarget
  <2>3. \A h, x \in Gnb, q, y \in Rnti :
           St(h, q) = "HANDOVER_LEAVING" /\ Linked(h, q, x, y) => y <= last[x]
    BY <1>p, LinkedOnce DEF Leavings, LeavingTo
  <2>4. Failures
    BY <1>p
  <2> QED BY <2>1, <2>2, <2>3, <2>4, <1>s DEF Failures, FailureMeets
<1>Releases. Releases'
  BY <1>p, <1>a, <1>f, <1>c, <1>s, <1>i, <1>n, <1>h, <1>v DEF Releases, ReleaseMeets
<1>Cancels. Cancels'
  BY <1>p, <1>a, <1>f, <1>c, <1>s, <1>i, <1>n, <1>h, <1>v DEF Cancels, CancelMeets
<1>Joinings. Joinings'
  <2> SUFFICES ASSUME NEW h \in Gnb, NEW q \in Rnti, St(h, q)' = "HANDOVER_JOINING"
               PROVE  \E x \in Gnb, y \in Rnti : JoiningFrom(h, q, x, y)'
    BY DEF Joinings
  <2>1. PICK x \in Gnb, y \in Rnti : JoiningFrom(h, q, x, y)
    BY <1>p, <1>c DEF Joinings
  <2> QED BY <2>1, <1>p, <1>a, <1>f, <1>c, <1>s DEF JoiningFrom
<1>Switchings. Switchings'
  BY <1>p, <1>a, <1>f, <1>c, <1>s, <1>i, <1>n, <1>h, <1>v DEF Switchings, SwitchingFrom, Switched
<1>Answers. Answers'
  BY <1>p, <1>a, <1>f, <1>c, <1>s, <1>i, <1>n, <1>h, <1>v DEF Answers
<1>UeIdle. UeIdle'
  BY <1>p, <1>a, <1>f, <1>c, <1>s, <1>i, <1>n, <1>h, <1>v DEF UeIdle
<1>UeConnecting. UeConnecting'
  BY <1>p, <1>a, <1>f, <1>c, <1>s, <1>i, <1>n, <1>h, <1>v DEF UeConnecting, SettingUp
<1>UeMoving. UeMoving'
  BY <1>p, <1>a, <1>f, <1>c, <1>s, <1>i, <1>n, <1>h, <1>v DEF UeMoving, Away
<1>UeConnected. UeConnected'
  BY <1>p, <1>a, <1>f, <1>c, <1>s, <1>i, <1>n, <1>h, <1>v DEF UeConnected, Away
<1> QED BY <1>p, <1>a, <1>TypeOK, <1>Messages, <1>Queues, <1>Contexts, <1>Leavings, <1>OneSource,
           <1>Requests, <1>Acks, <1>Failures, <1>Releases, <1>Cancels, <1>Joinings, <1>Switchings,
           <1>Answers, <1>UeIdle, <1>UeConnecting, <1>UeMoving, <1>UeConnected DEF IInv, Good

\* A message of the set-up is lost, and the invariant stays.
LEMMA Srb0Lost ==
    ASSUME Here, LoseSrb0
    PROVE  IInv'
<1>p. /\ TypeOK /\ Messages /\ Queues /\ Contexts /\ Leavings /\ OneSource
      /\ Requests /\ Acks /\ Failures /\ Releases /\ Cancels
      /\ Joinings /\ Switchings /\ Answers
      /\ UeIdle /\ UeConnecting /\ UeMoving /\ UeConnected
      /\ fault = "none" /\ MaxRnti \in Nat /\ NoCell \notin Gnb
      /\ \A q \in Rnti : q \in Nat /\ q \in Id /\ q # 0
  BY HandoverAssumption DEF Here, Good, Rnti, Id
<1>d. now = <<>> /\ (dl = <<>> \/ ul = <<>>)
  BY DlMeets DEF LoseSrb0, Running, Here
<1>a. /\ now' = now /\ ue' = ue
      /\ dl' = <<>> /\ ul' = <<>> /\ ue.st = "IDLE_CONNECTING"
      /\ UNCHANGED <<ctx, last, teid, imsiRnti, x2, s1, leavingLast, fault>>
  <2>1. CASE ul # <<>>
    BY <1>d, <2>1, UlMeets, Single DEF LoseSrb0, Here, Running, gnbVars
  <2>2. CASE dl # <<>>
    BY <1>d, <2>2, DlMeets, Single, Kinds DEF LoseSrb0, Here, Running, gnbVars
  <2> QED BY <2>1, <2>2 DEF LoseSrb0
<1>c. \A h, q :
         /\ St(h, q)' = St(h, q) /\ Peer(h, q)' = Peer(h, q)
         /\ Timer(h, q)' = Timer(h, q) /\ Pend(h, q)' = Pend(h, q)
         /\ \A x, y : Linked(h, q, x, y)' <=> Linked(h, q, x, y)
  BY <1>a, ContextsSame
<1>s. \A kind, from, to, old, new : Sent(kind, from, to, old, new)'
              <=> Sent(kind, from, to, old, new)
  BY <1>a, LinksSame
<1>u. /\ Idle' <=> Idle
      /\ \A h, q :
            /\ UeAt(h, q)' <=> UeAt(h, q)
            /\ On(h, q)' <=> On(h, q)
            /\ Home(h, q)' <=> Home(h, q)
            /\ Leaves(h, q)' <=> Leaves(h, q)
            /\ Released(h, q)' <=> Released(h, q)
  BY <1>a, UeSame
<1>TypeOK. TypeOK'
  BY <1>p, <1>a, Single DEF TypeOK
<1>Messages. Messages'
  BY <1>p, <1>a, <1>u DEF Messages
<1>Queues. Queues'
  BY <1>p, <1>a, <1>c, <1>s, <1>u DEF Queues
<1>Contexts. Contexts'
  BY <1>p, <1>a, <1>c, <1>s, <1>u DEF Contexts, ContextFits, Attached, SettingUp
<1>Leavings. Leavings'
  BY <1>p, <1>a, <1>c, <1>s, <1>u DEF Leavings, LeavingTo, Pending, Switched
<1>OneSource. OneSource'
  <2> SUFFICES ASSUME NEW h \in Gnb, NEW q \in Rnti
               PROVE  NothingNew(h, q)
    BY <1>p, OneSourceStays
  <2> QED BY <1>p, <1>a, <1>c, <1>s, <1>u DEF NothingNew, Source, Target
<1>Requests. Requests'
  BY <1>p, <1>a, <1>c, <1>s, <1>u DEF Requests, RequestMeets, NoTarget
<1>Acks. Acks'
  BY <1>p, <1>a, <1>c, <1>s, <1>u DEF Acks, AckMeets
<1>Failures. Failures'
  BY <1>p, <1>a, <1>c, <1>s, <1>u DEF Failures, FailureMeets, NoTarget
<1>Releases. Releases'
  BY <1>p, <1>a, <1>c, <1>s, <1>u DEF Releases, ReleaseMeets
<1>Cancels. Cancels'
  BY <1>p, <1>a, <1>c, <1>s, <1>u DEF Cancels, CancelMeets
<1>Joinings. Joinings'
  BY <1>p, <1>a, <1>c, <1>s, <1>u DEF Joinings, JoiningFrom
<1>Switchings. Switchings'
  BY <1>p, <1>a, <1>c, <1>s, <1>u DEF Switchings, SwitchingFrom, Switched
<1>Answers. Answers'
  BY <1>p, <1>a, <1>c, <1>s, <1>u DEF Answers
<1>UeIdle. UeIdle'
  BY <1>p, <1>a, <1>c, <1>s, <1>u DEF UeIdle
<1>UeConnecting. UeConnecting'
  BY <1>p, <1>a, <1>c, <1>s, <1>u DEF UeConnecting, SettingUp
<1>UeMoving. UeMoving'
  BY <1>p, <1>a, <1>c, <1>s, <1>u DEF UeMoving, Away
<1>UeConnected. UeConnected'
  BY <1>p, <1>a, <1>c, <1>s, <1>u DEF UeConnected, Away
<1> QED BY <1>p, <1>a, <1>TypeOK, <1>Messages, <1>Queues, <1>Contexts, <1>Leavings, <1>OneSource,
           <1>Requests, <1>Acks, <1>Failures, <1>Releases, <1>Cancels, <1>Joinings, <1>Switchings,
           <1>Answers, <1>UeIdle, <1>UeConnecting, <1>UeMoving, <1>UeConnected DEF IInv, Good

\* A connection request is admitted, and the invariant stays.
LEMMA RequestAdmitted ==
    ASSUME Here, RecvConnectionRequest, NEW g \in Gnb, NEW w \in Rnti, g = ue.cell, w = ue.rnti,
           ctx' = [ctx EXCEPT ![g][w].st = "CONNECTION_SETUP", ![g][w].timer = "setup"],
           dl' = Append(dl, Setup), ul = <<"request">>, dl = <<>>,
           St(g, w) = "INITIAL_RANDOM_ACCESS", ue.st = "IDLE_CONNECTING", ul' = Tail(ul),
           UNCHANGED <<last, teid, imsiRnti, ue, x2, s1, now, failures, fault>>
    PROVE  IInv'
<1>p. /\ TypeOK /\ Messages /\ Queues /\ Contexts /\ Leavings /\ OneSource
      /\ Requests /\ Acks /\ Failures /\ Releases /\ Cancels
      /\ Joinings /\ Switchings /\ Answers
      /\ UeIdle /\ UeConnecting /\ UeMoving /\ UeConnected
      /\ fault = "none" /\ MaxRnti \in Nat /\ NoCell \notin Gnb
      /\ \A q \in Rnti : q \in Nat /\ q \in Id /\ q # 0
  BY HandoverAssumption DEF Here, Good, Rnti, Id
<1>a. /\ dl' = <<Setup>> /\ ul' = <<>>
      /\ ue' = ue /\ now = <<>> /\ now' = now /\ g = ue.cell /\ w = ue.rnti
           /\ ue.st = "IDLE_CONNECTING"
      /\ St(g, w) = "INITIAL_RANDOM_ACCESS"
      /\ UNCHANGED <<last, teid, imsiRnti, x2, s1, leavingLast, fault>>
  BY Single DEF RecvConnectionRequest, Running, Here
<1>j. /\ ctx \in [Gnb -> [Rnti -> ContextType]]
      /\ ctx[g][w] \in ContextType
  BY <1>p DEF TypeOK
<1>k. PICK d \in ContextType : d = ctx[g][w]
  BY <1>j
<1>k1. PICK c : c = [d EXCEPT !.st = "CONNECTION_SETUP", !.timer = "setup"]
  OBVIOUS
<1>k2. /\ c \in ContextType /\ c.st = "CONNECTION_SETUP" /\ c.timer = "setup"
       /\ c.peer = d.peer /\ c.peerId = d.peerId /\ c.pend = d.pend
  BY <1>k, <1>k1 DEF ContextType
<1>k3. Guarded(c)
  BY <1>k2 DEF Guarded
<1>b. ctx' = [ctx EXCEPT ![g][w].st = "CONNECTION_SETUP", ![g][w].timer = "setup"]
  OBVIOUS
<1>e. Put(g, w, c)
  <2>1. c = [ctx[g][w] EXCEPT !.st = "CONNECTION_SETUP", !.timer = "setup"]
    BY <1>k, <1>k1
  <2> QED BY ONLY g \in Gnb, w \in Rnti, <1>j, <1>b, <2>1 DEF Put
<1>c. /\ ctx' \in [Gnb -> [Rnti -> ContextType]]
      /\ \A h \in Gnb, q \in Rnti : Guarded(ctx'[h][q])
      /\ St(g, w)' = "CONNECTION_SETUP" /\ Timer(g, w)' = "setup" /\ Pend(g, w)' = Pend(g, w)
      /\ \A h \in Gnb, q \in Rnti :
            /\ h # g \/ q # w => /\ St(h, q)' = St(h, q) /\ Timer(h, q)' = Timer(h, q)
                                 /\ Pend(h, q)' = Pend(h, q)
            /\ Peer(h, q)' = Peer(h, q)
            /\ \A x, y : Linked(h, q, x, y)' <=> Linked(h, q, x, y)
  <2>1. c.peer = ctx[g][w].peer /\ c.peerId = ctx[g][w].peerId
    BY <1>k, <1>k2
  <2>2. c.pend = Pend(g, w)
    BY <1>k, <1>k2 DEF Pend
  <2>3. TypeOK
    BY <1>p
  <2>4. Changed(g, w, c)
    BY ONLY g \in Gnb, w \in Rnti, <1>k2, <1>k3, <1>e, <2>1, <2>3, ContextChanged
  <2> QED BY <1>k2, <2>2, <2>4 DEF Changed
<1>s. \A kind, from, to, old, new : Sent(kind, from, to, old, new)'
              <=> Sent(kind, from, to, old, new)
  BY <1>a, LinksSame
<1>u. /\ Idle' <=> Idle
      /\ \A h, q :
            /\ UeAt(h, q)' <=> UeAt(h, q)
            /\ On(h, q)' <=> On(h, q)
            /\ Home(h, q)' <=> Home(h, q)
            /\ Leaves(h, q)' <=> Leaves(h, q)
            /\ Released(h, q)' <=> Released(h, q)
  BY <1>a, UeSame
<1>t. /\ \A h \in Gnb : last[h] \in Nat /\ teid[h] \in Nat /\ imsiRnti[h] \in Nat
  BY <1>p DEF TypeOK
<1>x. St(g, w) = "INITIAL_RANDOM_ACCESS"
  BY <1>a
<1>TypeOK. TypeOK'
  BY <1>p, <1>a, <1>c, Single DEF TypeOK
<1>Messages. Messages'
  BY <1>p, <1>a, <1>u DEF Messages
<1>Queues. Queues'
  BY <1>p, <1>a, <1>c, <1>s, <1>u, <1>t DEF Queues
<1>Contexts. Contexts'
  <2> SUFFICES ASSUME NEW h \in Gnb, NEW q \in Rnti
               PROVE  teid'[h] <= last'[h] /\ imsiRnti'[h] <= last'[h] /\ ContextFits(h, q)'
    BY DEF Contexts
  <2>1. CASE h = g /\ q = w
    BY <1>p, <1>a, <1>c, <1>u, <1>x, <2>1 DEF Contexts, ContextFits, Attached, SettingUp
  <2>2. CASE h # g \/ q # w
    BY <1>p, <1>a, <1>c, <1>u, <2>2 DEF Contexts, ContextFits, Attached, SettingUp
  <2> QED BY <2>1, <2>2
<1>Leavings. Leavings'
  <2> SUFFICES ASSUME NEW h \in Gnb, NEW q \in Rnti, St(h, q)' = "HANDOVER_LEAVING"
               PROVE  \E x \in Gnb, y \in Rnti : LeavingTo(h, q, x, y)'
    BY DEF Leavings
  <2>1. St(h, q) = "HANDOVER_LEAVING" /\ (h # g \/ q # w)
    BY <1>c
  <2>2. PICK x \in Gnb, y \in Rnti : LeavingTo(h, q, x, y)
    BY <1>p, <2>1 DEF Leavings
  <2>3. Pending(h, q, x, y)'
    BY <2>2, <1>p, <1>a, <1>c, <1>s, <1>u, <1>x DEF LeavingTo, Pending, Switched
  <2>4. St(x, y)' \in {"NONE", "HANDOVER_JOINING"} \/ Home(x, y)'
    BY <2>2, <1>p, <1>a, <1>c, <1>s, <1>u, <1>x DEF LeavingTo
  <2>5. \/ Idle'
        \/ On(h, q)'
        \/ ue'.from = <<h, q>> /\ ue'.cell = x /\ ~ue'.left /\ (ue'.rnti = y \/ St(x, y)' = "NONE")
    BY <2>2, <1>p, <1>a, <1>c, <1>s, <1>u, <1>x DEF LeavingTo
  <2> QED BY <2>2, <2>3, <2>4, <2>5, <1>a, <1>c DEF LeavingTo
<1>OneSource. OneSource'
  <2> SUFFICES ASSUME NEW h \in Gnb, NEW q \in Rnti
               PROVE  NothingNew(h, q)
    BY <1>p, OneSourceStays
  <2> QED BY <1>p, <1>a, <1>c, <1>s, <1>u, <1>t DEF NothingNew, Source, Target
<1>Requests. Requests'
  BY <1>p, <1>a, <1>c, <1>s, <1>u, <1>t DEF Requests, RequestMeets, NoTarget
<1>Acks. Acks'
  BY <1>p, <1>a, <1>c, <1>s, <1>u, <1>t DEF Acks, AckMeets
<1>Failures. Failures'
  BY <1>p, <1>a, <1>c, <1>s, <1>u, <1>t DEF Failures, FailureMeets, NoTarget
<1>Releases. Releases'
  BY <1>p, <1>a, <1>c, <1>s, <1>u, <1>t DEF Releases, ReleaseMeets
<1>Cancels. Cancels'
  <2> SUFFICES ASSUME NEW a \in Gnb, NEW b \in Gnb, NEW o \in Id, NEW m \in Id,
                      Sent("cancel", a, b, o, m)'
               PROVE  CancelMeets(a, b, o, m)'
    BY DEF Cancels
  <2>1. Sent("cancel", a, b, o, m) /\ CancelMeets(a, b, o, m)
    BY <1>p, <1>a, <1>c, <1>s, <1>u, <1>t, <1>x DEF Cancels
  <2>2. a # b /\ m \in Rnti /\ m <= last'[b] /\ ~leavingLast'
    BY <2>1, <1>p, <1>a, <1>c, <1>s, <1>u, <1>t, <1>x DEF CancelMeets
  <2>3. Idle' \/ Released(a, o)'
    BY <2>1, <1>p, <1>a, <1>c, <1>s, <1>u, <1>t, <1>x DEF CancelMeets
  <2>4. St(b, m)' \in {"NONE", "HANDOVER_JOINING"} \/ Home(b, m)'
    BY <2>1, <1>p, <1>a, <1>c, <1>s, <1>u, <1>t, <1>x DEF CancelMeets
  <2> QED BY <2>2, <2>3, <2>4 DEF CancelMeets
<1>Joinings. Joinings'
  <2> SUFFICES ASSUME NEW h \in Gnb, NEW q \in Rnti, St(h, q)' = "HANDOVER_JOINING"
               PROVE  \E x \in Gnb, y \in Rnti : JoiningFrom(h, q, x, y)'
    BY DEF Joinings
  <2>1. St(h, q) = "HANDOVER_JOINING" /\ (h # g \/ q # w)
    BY <1>c
  <2>2. PICK x \in Gnb, y \in Rnti : JoiningFrom(h, q, x, y)
    BY <1>p, <2>1 DEF Joinings
  <2> QED BY <2>1, <2>2, <1>p, <1>a, <1>c, <1>s, <1>x DEF JoiningFrom
<1>Switchings. Switchings'
  <2> SUFFICES ASSUME NEW h \in Gnb, NEW q \in Rnti, St(h, q)' = "HANDOVER_PATH_SWITCH"
               PROVE  /\ Switched(h)' /\ imsiRnti'[h] = q
                      /\ \E x \in Gnb, y \in Rnti : SwitchingFrom(h, q, x, y)'
    BY DEF Switchings
  <2>1. St(h, q) = "HANDOVER_PATH_SWITCH" /\ (h # g \/ q # w)
    BY <1>c
  <2>2. PICK x \in Gnb, y \in Rnti : SwitchingFrom(h, q, x, y)
    BY <1>p, <2>1 DEF Switchings
  <2>3. Switched(h) /\ imsiRnti[h] = q
    BY <1>p, <2>1 DEF Switchings
  <2>4. SwitchingFrom(h, q, x, y)'
    BY <2>1, <2>2, <1>p, <1>a, <1>c, <1>x DEF SwitchingFrom
  <2> QED BY <2>3, <2>4, <1>p, <1>a DEF Switched
<1>Answers. Answers'
  BY <1>p, <1>a, <1>c, <1>s, <1>u, <1>t DEF Answers
<1>UeIdle. UeIdle'
  BY <1>p, <1>a, <1>c, <1>s, <1>u, <1>t DEF UeIdle
<1>UeConnecting. UeConnecting'
  BY <1>p, <1>a, <1>c, <1>s, <1>u, <1>t,  <1>x, Kinds, Single DEF UeConnecting, SettingUp
<1>UeMoving. UeMoving'
  BY <1>p, <1>a, <1>c, <1>s, <1>u, <1>t DEF UeMoving, Away
<1>UeConnected. UeConnected'
  BY <1>p, <1>a, <1>c, <1>s, <1>u, <1>t DEF UeConnected, Away
<1> QED BY <1>p, <1>a, <1>TypeOK, <1>Messages, <1>Queues, <1>Contexts, <1>Leavings, <1>OneSource,
           <1>Requests, <1>Acks, <1>Failures, <1>Releases, <1>Cancels, <1>Joinings, <1>Switchings,
           <1>Answers, <1>UeIdle, <1>UeConnecting, <1>UeMoving, <1>UeConnected DEF IInv, Good

\* A connection request is refused, and the invariant stays.
LEMMA RequestRefused ==
    ASSUME Here, RecvConnectionRequest, NEW g \in Gnb, NEW w \in Rnti, g = ue.cell, w = ue.rnti,
           ctx' = [ctx EXCEPT ![g][w].st = "CONNECTION_REJECTED", ![g][w].timer = "rejected"],
           dl' = Append(dl, Reject), ul = <<"request">>, dl = <<>>,
           St(g, w) = "INITIAL_RANDOM_ACCESS", ue.st = "IDLE_CONNECTING", ul' = Tail(ul),
           UNCHANGED <<last, teid, imsiRnti, ue, x2, s1, now, failures, fault>>
    PROVE  IInv'
<1>p. /\ TypeOK /\ Messages /\ Queues /\ Contexts /\ Leavings /\ OneSource
      /\ Requests /\ Acks /\ Failures /\ Releases /\ Cancels
      /\ Joinings /\ Switchings /\ Answers
      /\ UeIdle /\ UeConnecting /\ UeMoving /\ UeConnected
      /\ fault = "none" /\ MaxRnti \in Nat /\ NoCell \notin Gnb
      /\ \A q \in Rnti : q \in Nat /\ q \in Id /\ q # 0
  BY HandoverAssumption DEF Here, Good, Rnti, Id
<1>a. /\ dl' = <<Reject>> /\ ul' = <<>>
      /\ ue' = ue /\ now = <<>> /\ now' = now /\ g = ue.cell /\ w = ue.rnti
           /\ ue.st = "IDLE_CONNECTING"
      /\ St(g, w) = "INITIAL_RANDOM_ACCESS"
      /\ UNCHANGED <<last, teid, imsiRnti, x2, s1, leavingLast, fault>>
  BY Single DEF RecvConnectionRequest, Running, Here
<1>j. /\ ctx \in [Gnb -> [Rnti -> ContextType]]
      /\ ctx[g][w] \in ContextType
  BY <1>p DEF TypeOK
<1>k. PICK d \in ContextType : d = ctx[g][w]
  BY <1>j
<1>k1. PICK c : c = [d EXCEPT !.st = "CONNECTION_REJECTED", !.timer = "rejected"]
  OBVIOUS
<1>k2. /\ c \in ContextType /\ c.st = "CONNECTION_REJECTED" /\ c.timer = "rejected"
       /\ c.peer = d.peer /\ c.peerId = d.peerId /\ c.pend = d.pend
  BY <1>k, <1>k1 DEF ContextType
<1>k3. Guarded(c)
  BY <1>k2 DEF Guarded
<1>b. ctx' = [ctx EXCEPT ![g][w].st = "CONNECTION_REJECTED", ![g][w].timer = "rejected"]
  OBVIOUS
<1>e. Put(g, w, c)
  <2>1. c = [ctx[g][w] EXCEPT !.st = "CONNECTION_REJECTED", !.timer = "rejected"]
    BY <1>k, <1>k1
  <2> QED BY ONLY g \in Gnb, w \in Rnti, <1>j, <1>b, <2>1 DEF Put
<1>c. /\ ctx' \in [Gnb -> [Rnti -> ContextType]]
      /\ \A h \in Gnb, q \in Rnti : Guarded(ctx'[h][q])
      /\ St(g, w)' = "CONNECTION_REJECTED" /\ Timer(g, w)' = "rejected" /\ Pend(g, w)' = Pend(g, w)
      /\ \A h \in Gnb, q \in Rnti :
            /\ h # g \/ q # w => /\ St(h, q)' = St(h, q) /\ Timer(h, q)' = Timer(h, q)
                                 /\ Pend(h, q)' = Pend(h, q)
            /\ Peer(h, q)' = Peer(h, q)
            /\ \A x, y : Linked(h, q, x, y)' <=> Linked(h, q, x, y)
  <2>1. c.peer = ctx[g][w].peer /\ c.peerId = ctx[g][w].peerId
    BY <1>k, <1>k2
  <2>2. c.pend = Pend(g, w)
    BY <1>k, <1>k2 DEF Pend
  <2>3. TypeOK
    BY <1>p
  <2>4. Changed(g, w, c)
    BY ONLY g \in Gnb, w \in Rnti, <1>k2, <1>k3, <1>e, <2>1, <2>3, ContextChanged
  <2> QED BY <1>k2, <2>2, <2>4 DEF Changed
<1>s. \A kind, from, to, old, new : Sent(kind, from, to, old, new)'
              <=> Sent(kind, from, to, old, new)
  BY <1>a, LinksSame
<1>u. /\ Idle' <=> Idle
      /\ \A h, q :
            /\ UeAt(h, q)' <=> UeAt(h, q)
            /\ On(h, q)' <=> On(h, q)
            /\ Home(h, q)' <=> Home(h, q)
            /\ Leaves(h, q)' <=> Leaves(h, q)
            /\ Released(h, q)' <=> Released(h, q)
  BY <1>a, UeSame
<1>t. /\ \A h \in Gnb : last[h] \in Nat /\ teid[h] \in Nat /\ imsiRnti[h] \in Nat
  BY <1>p DEF TypeOK
<1>x. St(g, w) = "INITIAL_RANDOM_ACCESS"
  BY <1>a
<1>TypeOK. TypeOK'
  BY <1>p, <1>a, <1>c, Single DEF TypeOK
<1>Messages. Messages'
  BY <1>p, <1>a, <1>u DEF Messages
<1>Queues. Queues'
  BY <1>p, <1>a, <1>c, <1>s, <1>u, <1>t DEF Queues
<1>Contexts. Contexts'
  <2> SUFFICES ASSUME NEW h \in Gnb, NEW q \in Rnti
               PROVE  teid'[h] <= last'[h] /\ imsiRnti'[h] <= last'[h] /\ ContextFits(h, q)'
    BY DEF Contexts
  <2>1. CASE h = g /\ q = w
    BY <1>p, <1>a, <1>c, <1>u, <1>x, <2>1 DEF Contexts, ContextFits, Attached, SettingUp
  <2>2. CASE h # g \/ q # w
    BY <1>p, <1>a, <1>c, <1>u, <2>2 DEF Contexts, ContextFits, Attached, SettingUp
  <2> QED BY <2>1, <2>2
<1>Leavings. Leavings'
  <2> SUFFICES ASSUME NEW h \in Gnb, NEW q \in Rnti, St(h, q)' = "HANDOVER_LEAVING"
               PROVE  \E x \in Gnb, y \in Rnti : LeavingTo(h, q, x, y)'
    BY DEF Leavings
  <2>1. St(h, q) = "HANDOVER_LEAVING" /\ (h # g \/ q # w)
    BY <1>c
  <2>2. PICK x \in Gnb, y \in Rnti : LeavingTo(h, q, x, y)
    BY <1>p, <2>1 DEF Leavings
  <2>3. Pending(h, q, x, y)'
    BY <2>2, <1>p, <1>a, <1>c, <1>s, <1>u, <1>x DEF LeavingTo, Pending, Switched
  <2>4. St(x, y)' \in {"NONE", "HANDOVER_JOINING"} \/ Home(x, y)'
    BY <2>2, <1>p, <1>a, <1>c, <1>s, <1>u, <1>x DEF LeavingTo
  <2>5. \/ Idle'
        \/ On(h, q)'
        \/ ue'.from = <<h, q>> /\ ue'.cell = x /\ ~ue'.left /\ (ue'.rnti = y \/ St(x, y)' = "NONE")
    BY <2>2, <1>p, <1>a, <1>c, <1>s, <1>u, <1>x DEF LeavingTo
  <2> QED BY <2>2, <2>3, <2>4, <2>5, <1>a, <1>c DEF LeavingTo
<1>OneSource. OneSource'
  <2> SUFFICES ASSUME NEW h \in Gnb, NEW q \in Rnti
               PROVE  NothingNew(h, q)
    BY <1>p, OneSourceStays
  <2> QED BY <1>p, <1>a, <1>c, <1>s, <1>u, <1>t DEF NothingNew, Source, Target
<1>Requests. Requests'
  BY <1>p, <1>a, <1>c, <1>s, <1>u, <1>t DEF Requests, RequestMeets, NoTarget
<1>Acks. Acks'
  BY <1>p, <1>a, <1>c, <1>s, <1>u, <1>t DEF Acks, AckMeets
<1>Failures. Failures'
  BY <1>p, <1>a, <1>c, <1>s, <1>u, <1>t DEF Failures, FailureMeets, NoTarget
<1>Releases. Releases'
  BY <1>p, <1>a, <1>c, <1>s, <1>u, <1>t DEF Releases, ReleaseMeets
<1>Cancels. Cancels'
  <2> SUFFICES ASSUME NEW a \in Gnb, NEW b \in Gnb, NEW o \in Id, NEW m \in Id,
                      Sent("cancel", a, b, o, m)'
               PROVE  CancelMeets(a, b, o, m)'
    BY DEF Cancels
  <2>1. Sent("cancel", a, b, o, m) /\ CancelMeets(a, b, o, m)
    BY <1>p, <1>a, <1>c, <1>s, <1>u, <1>t, <1>x DEF Cancels
  <2>2. a # b /\ m \in Rnti /\ m <= last'[b] /\ ~leavingLast'
    BY <2>1, <1>p, <1>a, <1>c, <1>s, <1>u, <1>t, <1>x DEF CancelMeets
  <2>3. Idle' \/ Released(a, o)'
    BY <2>1, <1>p, <1>a, <1>c, <1>s, <1>u, <1>t, <1>x DEF CancelMeets
  <2>4. St(b, m)' \in {"NONE", "HANDOVER_JOINING"} \/ Home(b, m)'
    BY <2>1, <1>p, <1>a, <1>c, <1>s, <1>u, <1>t, <1>x DEF CancelMeets
  <2> QED BY <2>2, <2>3, <2>4 DEF CancelMeets
<1>Joinings. Joinings'
  <2> SUFFICES ASSUME NEW h \in Gnb, NEW q \in Rnti, St(h, q)' = "HANDOVER_JOINING"
               PROVE  \E x \in Gnb, y \in Rnti : JoiningFrom(h, q, x, y)'
    BY DEF Joinings
  <2>1. St(h, q) = "HANDOVER_JOINING" /\ (h # g \/ q # w)
    BY <1>c
  <2>2. PICK x \in Gnb, y \in Rnti : JoiningFrom(h, q, x, y)
    BY <1>p, <2>1 DEF Joinings
  <2> QED BY <2>1, <2>2, <1>p, <1>a, <1>c, <1>s, <1>x DEF JoiningFrom
<1>Switchings. Switchings'
  <2> SUFFICES ASSUME NEW h \in Gnb, NEW q \in Rnti, St(h, q)' = "HANDOVER_PATH_SWITCH"
               PROVE  /\ Switched(h)' /\ imsiRnti'[h] = q
                      /\ \E x \in Gnb, y \in Rnti : SwitchingFrom(h, q, x, y)'
    BY DEF Switchings
  <2>1. St(h, q) = "HANDOVER_PATH_SWITCH" /\ (h # g \/ q # w)
    BY <1>c
  <2>2. PICK x \in Gnb, y \in Rnti : SwitchingFrom(h, q, x, y)
    BY <1>p, <2>1 DEF Switchings
  <2>3. Switched(h) /\ imsiRnti[h] = q
    BY <1>p, <2>1 DEF Switchings
  <2>4. SwitchingFrom(h, q, x, y)'
    BY <2>1, <2>2, <1>p, <1>a, <1>c, <1>x DEF SwitchingFrom
  <2> QED BY <2>3, <2>4, <1>p, <1>a DEF Switched
<1>Answers. Answers'
  BY <1>p, <1>a, <1>c, <1>s, <1>u, <1>t DEF Answers
<1>UeIdle. UeIdle'
  BY <1>p, <1>a, <1>c, <1>s, <1>u, <1>t DEF UeIdle
<1>UeConnecting. UeConnecting'
  BY <1>p, <1>a, <1>c, <1>s, <1>u, <1>t,  <1>x, Kinds, Single DEF UeConnecting, SettingUp
<1>UeMoving. UeMoving'
  BY <1>p, <1>a, <1>c, <1>s, <1>u, <1>t DEF UeMoving, Away
<1>UeConnected. UeConnected'
  BY <1>p, <1>a, <1>c, <1>s, <1>u, <1>t DEF UeConnected, Away
<1> QED BY <1>p, <1>a, <1>TypeOK, <1>Messages, <1>Queues, <1>Contexts, <1>Leavings, <1>OneSource,
           <1>Requests, <1>Acks, <1>Failures, <1>Releases, <1>Cancels, <1>Joinings, <1>Switchings,
           <1>Answers, <1>UeIdle, <1>UeConnecting, <1>UeMoving, <1>UeConnected DEF IInv, Good

\* The gNB learns that the set-up is complete, and the invariant stays.
LEMMA SetupReported ==
    ASSUME Here, RecvSetupCompleted, NEW g \in Gnb, NEW w \in Rnti, g = ue.cell, w = ue.rnti,
           St(g, w) = "CONNECTION_SETUP"
    PROVE  IInv'
<1>p. /\ TypeOK /\ Messages /\ Queues /\ Contexts /\ Leavings /\ OneSource
      /\ Requests /\ Acks /\ Failures /\ Releases /\ Cancels
      /\ Joinings /\ Switchings /\ Answers
      /\ UeIdle /\ UeConnecting /\ UeMoving /\ UeConnected
      /\ fault = "none" /\ MaxRnti \in Nat /\ NoCell \notin Gnb
      /\ \A q \in Rnti : q \in Nat /\ q \in Id /\ q # 0
  BY HandoverAssumption DEF Here, Good, Rnti, Id
<1>d. /\ ul = <<"setup_completed">> /\ dl = <<>> /\ ue.st = "CONNECTED_NORMALLY" /\ now = <<>>
  BY UlMeets, Single DEF RecvSetupCompleted, Running, Here
<1>s0. s1 = <<>> /\ \A h \in Gnb, q \in Rnti : St(h, q) # "HANDOVER_PREPARATION"
  <2>1. \A h \in Gnb, q \in Rnti : St(h, q) \notin Attached
    BY <1>d, UeThere DEF Here, Attached
  <2>2. ~Idle
    BY <1>d DEF Idle
  <2> QED BY <1>p, <2>1, <2>2 DEF Answers, Messages, Attached
<1>a0. /\ ctx' = [ctx EXCEPT ![g][w].st = "ATTACH_REQUEST", ![g][w].timer = "none"]
       /\ ul' = Tail(ul) /\ imsiRnti' = [imsiRnti EXCEPT ![g] = w]
       /\ s1' = Append(s1, [kind |-> "attached", gnb |-> g])
       /\ UNCHANGED <<last, teid, ue, dl, x2, now, leavingLast, fault>>
  BY DEF RecvSetupCompleted, Here, Exists, St
<1>a. /\ dl' = <<>> /\ ul' = <<>> /\ dl = <<>> /\ ul = <<"setup_completed">>
      /\ ue' = ue /\ now = <<>> /\ now' = <<>> /\ g = ue.cell /\ w = ue.rnti
           /\ ue.st = "CONNECTED_NORMALLY"
      /\ St(g, w) = "CONNECTION_SETUP" /\ imsiRnti'[g] = w /\ imsiRnti' \in [Gnb -> 0 .. MaxRnti]
      /\ \A h \in Gnb : h # g => imsiRnti'[h] = imsiRnti[h]
      /\ s1 = <<>> /\ s1' = <<[kind |-> "attached", gnb |-> g]>>
      /\ UNCHANGED <<last, teid, x2, leavingLast, fault>>
  BY <1>a0, <1>d, <1>s0, <1>p, Single DEF TypeOK, Rnti
<1>j. /\ ctx \in [Gnb -> [Rnti -> ContextType]]
      /\ ctx[g][w] \in ContextType
  BY <1>p DEF TypeOK
<1>k. PICK d \in ContextType : d = ctx[g][w]
  BY <1>j
<1>k1. PICK c : c = [d EXCEPT !.st = "ATTACH_REQUEST", !.timer = "none"]
  OBVIOUS
<1>k2. /\ c \in ContextType /\ c.st = "ATTACH_REQUEST" /\ c.timer = "none"
       /\ c.peer = d.peer /\ c.peerId = d.peerId /\ c.pend = d.pend
  BY <1>k, <1>k1 DEF ContextType
<1>k3. Guarded(c)
  BY <1>k2 DEF Guarded
<1>b. ctx' = [ctx EXCEPT ![g][w].st = "ATTACH_REQUEST", ![g][w].timer = "none"]
  BY <1>a0
<1>e. Put(g, w, c)
  <2>1. c = [ctx[g][w] EXCEPT !.st = "ATTACH_REQUEST", !.timer = "none"]
    BY <1>k, <1>k1
  <2> QED BY ONLY g \in Gnb, w \in Rnti, <1>j, <1>b, <2>1 DEF Put
<1>c. /\ ctx' \in [Gnb -> [Rnti -> ContextType]]
      /\ \A h \in Gnb, q \in Rnti : Guarded(ctx'[h][q])
      /\ St(g, w)' = "ATTACH_REQUEST" /\ Timer(g, w)' = "none" /\ Pend(g, w)' = Pend(g, w)
      /\ \A h \in Gnb, q \in Rnti :
            /\ h # g \/ q # w => /\ St(h, q)' = St(h, q) /\ Timer(h, q)' = Timer(h, q)
                                 /\ Pend(h, q)' = Pend(h, q)
            /\ Peer(h, q)' = Peer(h, q)
            /\ \A x, y : Linked(h, q, x, y)' <=> Linked(h, q, x, y)
  <2>1. c.peer = ctx[g][w].peer /\ c.peerId = ctx[g][w].peerId
    BY <1>k, <1>k2
  <2>2. c.pend = Pend(g, w)
    BY <1>k, <1>k2 DEF Pend
  <2>3. TypeOK
    BY <1>p
  <2>4. Changed(g, w, c)
    BY ONLY g \in Gnb, w \in Rnti, <1>k2, <1>k3, <1>e, <2>1, <2>3, ContextChanged
  <2> QED BY <1>k2, <2>2, <2>4 DEF Changed
<1>s. \A kind, from, to, old, new : Sent(kind, from, to, old, new)'
              <=> Sent(kind, from, to, old, new)
  BY <1>a, LinksSame
<1>u. /\ Idle' <=> Idle
      /\ \A h, q :
            /\ UeAt(h, q)' <=> UeAt(h, q)
            /\ On(h, q)' <=> On(h, q)
            /\ Home(h, q)' <=> Home(h, q)
            /\ Leaves(h, q)' <=> Leaves(h, q)
            /\ Released(h, q)' <=> Released(h, q)
  BY <1>a, UeSame
<1>t. /\ \A h \in Gnb : last[h] \in Nat /\ teid[h] \in Nat /\ imsiRnti[h] \in Nat
  BY <1>p DEF TypeOK
<1>n. \A h, q :
         /\ ~Released(h, q) /\ ~Released(h, q)' /\ ~Leaves(h, q) /\ ~Leaves(h, q)'
  BY <1>a DEF Released, Leaves
<1>x. St(g, w) = "CONNECTION_SETUP" /\ ~Idle /\ ~Idle' /\ On(g, w) /\ UeAt(g, w) /\ Home(g, w)
  BY <1>a, <1>p DEF Idle, On, UeAt, Home, UeIdle
<1>y. St(g, w) = "CONNECTION_SETUP" /\ w <= last[g]
  BY <1>a, <1>p DEF Contexts, ContextFits
<1>TypeOK. TypeOK'
  BY <1>p, <1>a, <1>c, Single DEF TypeOK
<1>Messages. Messages'
  BY <1>p, <1>a, <1>u DEF Messages
<1>Queues. Queues'
  BY <1>p, <1>a, <1>c, <1>s, <1>u, <1>n, <1>t DEF Queues
<1>Contexts. Contexts'
  <2> SUFFICES ASSUME NEW h \in Gnb, NEW q \in Rnti
               PROVE  teid'[h] <= last'[h] /\ imsiRnti'[h] <= last'[h] /\ ContextFits(h, q)'
    BY DEF Contexts
  <2>1. CASE h = g /\ q = w
    BY <1>p, <1>a, <1>c, <1>u, <1>x, <1>y, <2>1 DEF Contexts, ContextFits, Attached, SettingUp
  <2>2. CASE h # g \/ q # w
    BY <1>p, <1>a, <1>c, <1>u, <2>2 DEF Contexts, ContextFits, Attached, SettingUp
  <2> QED BY <2>1, <2>2
<1>Leavings. Leavings'
  <2> SUFFICES ASSUME NEW h \in Gnb, NEW q \in Rnti, St(h, q)' = "HANDOVER_LEAVING"
               PROVE  \E x \in Gnb, y \in Rnti : LeavingTo(h, q, x, y)'
    BY DEF Leavings
  <2>1. St(h, q) = "HANDOVER_LEAVING" /\ (h # g \/ q # w)
    BY <1>c
  <2>2. PICK x \in Gnb, y \in Rnti : LeavingTo(h, q, x, y)
    BY <1>p, <2>1 DEF Leavings
  <2>3. Pending(h, q, x, y)'
    BY <2>2, <1>p, <1>a, <1>c, <1>s, <1>u, <1>x DEF LeavingTo, Pending, Switched
  <2>4. St(x, y)' \in {"NONE", "HANDOVER_JOINING"} \/ Home(x, y)'
    BY <2>2, <1>p, <1>a, <1>c, <1>s, <1>u, <1>x DEF LeavingTo
  <2>5. \/ Idle'
        \/ On(h, q)'
        \/ ue'.from = <<h, q>> /\ ue'.cell = x /\ ~ue'.left /\ (ue'.rnti = y \/ St(x, y)' = "NONE")
    BY <2>2, <1>p, <1>a, <1>c, <1>s, <1>u, <1>x DEF LeavingTo
  <2> QED BY <2>2, <2>3, <2>4, <2>5, <1>a, <1>c DEF LeavingTo
<1>OneSource. OneSource'
  <2> SUFFICES ASSUME NEW h \in Gnb, NEW q \in Rnti
               PROVE  NothingNew(h, q)
    BY <1>p, OneSourceStays
  <2> QED BY <1>p, <1>a, <1>c, <1>s, <1>u, <1>n, <1>t DEF NothingNew, Source, Target
<1>Requests. Requests'
  BY <1>p, <1>x, <1>s0, <1>s DEF Requests, RequestMeets, Id, Rnti
<1>Acks. Acks'
  BY <1>p, <1>a, <1>c, <1>s, <1>u, <1>n, <1>t DEF Acks, AckMeets
<1>Failures. Failures'
  BY <1>p, <1>a, <1>c, <1>s, <1>u, <1>n, <1>t DEF Failures, FailureMeets, NoTarget
<1>Releases. Releases'
  BY <1>p, <1>a, <1>c, <1>s, <1>u, <1>n, <1>t DEF Releases, ReleaseMeets
<1>Cancels. Cancels'
  BY <1>p, <1>a, <1>c, <1>s, <1>u, <1>n, <1>t, <1>x DEF Cancels, CancelMeets
<1>Joinings. Joinings'
  <2> SUFFICES ASSUME NEW h \in Gnb, NEW q \in Rnti, St(h, q)' = "HANDOVER_JOINING"
               PROVE  \E x \in Gnb, y \in Rnti : JoiningFrom(h, q, x, y)'
    BY DEF Joinings
  <2>1. St(h, q) = "HANDOVER_JOINING" /\ (h # g \/ q # w)
    BY <1>c
  <2>2. PICK x \in Gnb, y \in Rnti : JoiningFrom(h, q, x, y)
    BY <1>p, <2>1 DEF Joinings
  <2> QED BY <2>1, <2>2, <1>p, <1>a, <1>c, <1>s, <1>x DEF JoiningFrom
<1>Switchings. Switchings'
  BY <1>p, <1>a, <1>c DEF Switchings, Switched
<1>Answers. Answers'
  BY <1>p, <1>a, <1>c, <1>s, <1>u, <1>n, <1>t, <1>x DEF Answers
<1>UeIdle. UeIdle'
  BY <1>p, <1>a, <1>c, <1>s, <1>u, <1>n, <1>t DEF UeIdle
<1>UeConnecting. UeConnecting'
  BY <1>p, <1>a, <1>c, <1>s, <1>u, <1>n, <1>t,  <1>x, Kinds, Single DEF UeConnecting, SettingUp
<1>UeMoving. UeMoving'
  BY <1>p, <1>a, <1>c, <1>s, <1>u, <1>n, <1>t DEF UeMoving, Away
<1>UeConnected. UeConnected'
  BY <1>p, <1>a, <1>c, <1>s, <1>u, <1>n, <1>t DEF UeConnected, Away
<1> QED BY <1>p, <1>a, <1>TypeOK, <1>Messages, <1>Queues, <1>Contexts, <1>Leavings, <1>OneSource,
           <1>Requests, <1>Acks, <1>Failures, <1>Releases, <1>Cancels, <1>Joinings, <1>Switchings,
           <1>Answers, <1>UeIdle, <1>UeConnecting, <1>UeMoving, <1>UeConnected DEF IInv, Good

\* A timer of the set-up expires, and the invariant stays.
LEMMA SetupExpires ==
    ASSUME Here, NEW g \in Gnb, NEW w \in Rnti, SetupTimeout(g, w)
    PROVE  IInv'
<1>p. /\ TypeOK /\ Messages /\ Queues /\ Contexts /\ Leavings /\ OneSource
      /\ Requests /\ Acks /\ Failures /\ Releases /\ Cancels
      /\ Joinings /\ Switchings /\ Answers
      /\ UeIdle /\ UeConnecting /\ UeMoving /\ UeConnected
      /\ fault = "none" /\ MaxRnti \in Nat /\ NoCell \notin Gnb
      /\ \A q \in Rnti : q \in Nat /\ q \in Id /\ q # 0
  BY HandoverAssumption DEF Here, Good, Rnti, Id
<1>d. /\ now = <<>> /\ St(g, w) \in SettingUp /\ fault' = fault
      /\ RemoveUe(g, w)
      /\ UNCHANGED <<ueVars, x2, s1, now, fault>>
  <2>1. Guarded(ctx[g][w]) /\ ctx[g][w].timer \in {"request", "setup", "rejected"}
    BY <1>p DEF SetupTimeout, TypeOK
  <2>2. ctx[g][w].st = Guards(ctx[g][w].timer) /\ St(g, w) \in SettingUp
    BY <2>1 DEF Guarded, Guards, SettingUp, St
  <2> QED BY <2>2 DEF SetupTimeout, Running
<1>c0. Removed(g, w)
  BY <1>p, <1>d, ContextRemoved
<1>a. /\ dl' = dl /\ ul' = ul
      /\ ue' = ue /\ now = <<>> /\ now' = <<>>
      /\ St(g, w) \in SettingUp /\ \A h \in Gnb : teid'[h] = teid[h]
      /\ UNCHANGED <<last, imsiRnti, x2, s1, leavingLast, fault>>
  <2>1. teid[g] # w
    BY <1>d, <1>p DEF Contexts, ContextFits
  <2>2. \A h \in Gnb : teid'[h] = teid[h]
    BY <1>c0, <2>1 DEF Removed
  <2> QED BY <1>d, <1>c0, <2>2 DEF Here, ueVars, Removed
<1>c. /\ ctx' \in [Gnb -> [Rnti -> ContextType]] /\ teid' \in [Gnb -> 0 .. MaxRnti]
      /\ \A h \in Gnb, q \in Rnti : Guarded(ctx'[h][q])
      /\ St(g, w)' = "NONE" /\ Timer(g, w)' = "none" /\ ~Pend(g, w)'
      /\ \A h \in Gnb, q \in Rnti : h # g \/ q # w =>
            /\ St(h, q)' = St(h, q) /\ Peer(h, q)' = Peer(h, q)
            /\ Timer(h, q)' = Timer(h, q) /\ Pend(h, q)' = Pend(h, q)
            /\ \A x, y : Linked(h, q, x, y)' <=> Linked(h, q, x, y)
  BY <1>c0 DEF Removed, OthersStay
<1>s. \A kind, from, to, old, new : Sent(kind, from, to, old, new)'
              <=> Sent(kind, from, to, old, new)
  BY <1>a, LinksSame
<1>u. /\ Idle' <=> Idle
      /\ \A h, q :
            /\ UeAt(h, q)' <=> UeAt(h, q)
            /\ On(h, q)' <=> On(h, q)
            /\ Home(h, q)' <=> Home(h, q)
            /\ Leaves(h, q)' <=> Leaves(h, q)
            /\ Released(h, q)' <=> Released(h, q)
  BY <1>a, UeSame
<1>t. /\ \A h \in Gnb : last[h] \in Nat /\ teid[h] \in Nat /\ imsiRnti[h] \in Nat
  BY <1>p DEF TypeOK
<1>n. \A h, q :
         /\ ~Released(h, q) /\ ~Released(h, q)' /\ ~Leaves(h, q) /\ ~Leaves(h, q)'
  BY <1>a DEF Released, Leaves
<1>x. St(g, w) \in {"INITIAL_RANDOM_ACCESS", "CONNECTION_SETUP", "CONNECTION_REJECTED"}
  BY <1>a DEF SettingUp
<1>TypeOK. TypeOK'
  BY <1>p, <1>a, <1>c, Single DEF TypeOK
<1>Messages. Messages'
  BY <1>p, <1>a, <1>u DEF Messages
<1>Queues. Queues'
  BY <1>p, <1>a, <1>c, <1>s, <1>u, <1>n, <1>t, <1>x DEF Queues
<1>Contexts. Contexts'
  <2> SUFFICES ASSUME NEW h \in Gnb, NEW q \in Rnti
               PROVE  teid'[h] <= last'[h] /\ imsiRnti'[h] <= last'[h] /\ ContextFits(h, q)'
    BY DEF Contexts
  <2>1. CASE h = g /\ q = w
    BY <1>p, <1>a, <1>c, <1>u, <1>x, <2>1 DEF Contexts, ContextFits, Attached, SettingUp
  <2>2. CASE h # g \/ q # w
    BY <1>p, <1>a, <1>c, <1>u, <2>2 DEF Contexts, ContextFits, Attached, SettingUp
  <2> QED BY <2>1, <2>2
<1>Leavings. Leavings'
  <2> SUFFICES ASSUME NEW h \in Gnb, NEW q \in Rnti, St(h, q)' = "HANDOVER_LEAVING"
               PROVE  \E x \in Gnb, y \in Rnti : LeavingTo(h, q, x, y)'
    BY DEF Leavings
  <2>1. St(h, q) = "HANDOVER_LEAVING" /\ (h # g \/ q # w)
    BY <1>c
  <2>2. PICK x \in Gnb, y \in Rnti : LeavingTo(h, q, x, y)
    BY <1>p, <2>1 DEF Leavings
  <2>3. Pending(h, q, x, y)'
    BY <2>2, <1>p, <1>a, <1>c, <1>s, <1>u, <1>x DEF LeavingTo, Pending, Switched
  <2>4. St(x, y)' \in {"NONE", "HANDOVER_JOINING"} \/ Home(x, y)'
    BY <2>2, <1>p, <1>a, <1>c, <1>s, <1>u, <1>x DEF LeavingTo
  <2>5. \/ Idle'
        \/ On(h, q)'
        \/ ue'.from = <<h, q>> /\ ue'.cell = x /\ ~ue'.left /\ (ue'.rnti = y \/ St(x, y)' = "NONE")
    BY <2>2, <1>p, <1>a, <1>c, <1>s, <1>u, <1>x DEF LeavingTo
  <2> QED BY <2>2, <2>3, <2>4, <2>5, <1>a, <1>c DEF LeavingTo
<1>OneSource. OneSource'
  <2> SUFFICES ASSUME NEW h \in Gnb, NEW q \in Rnti
               PROVE  NothingNew(h, q)
    BY <1>p, OneSourceStays
  <2> QED BY <1>p, <1>a, <1>c, <1>s, <1>u, <1>n, <1>t, <1>x DEF NothingNew, Source, Target
<1>Requests. Requests'
  <2> SUFFICES ASSUME NEW a \in Gnb, NEW b \in Gnb, NEW o \in Id, NEW m \in Id,
                      Sent("request", a, b, o, m)'
               PROVE  RequestMeets(a, b, o, m)'
    BY DEF Requests
  <2>1. Sent("request", a, b, o, m) /\ RequestMeets(a, b, o, m)
    BY <1>p, <1>a, <1>c, <1>s, <1>u, <1>n, <1>t, <1>x DEF Requests
  <2>2. a # b /\ o \in Rnti /\ o <= last'[a] /\ m = 0
    BY <2>1, <1>p, <1>a, <1>c, <1>s, <1>u, <1>n, <1>t, <1>x DEF RequestMeets
  <2>3. /\ St(a, o)' \in {"NONE", "HANDOVER_PREPARATION"}
        /\ St(a, o)' # "NONE" => Peer(a, o)' = b
    BY <2>1, <1>p, <1>a, <1>c, <1>s, <1>u, <1>n, <1>t, <1>x DEF RequestMeets
  <2>4. Idle' \/ (On(a, o)' /\ St(a, o)' = "HANDOVER_PREPARATION")
    BY <2>1, <1>p, <1>a, <1>c, <1>s, <1>u, <1>n, <1>t, <1>x DEF RequestMeets
  <2>5. s1' = <<>> /\ (leavingLast' => teid'[b] = 0)
    BY <2>1, <1>p, <1>a, <1>c, <1>s, <1>u, <1>n, <1>t, <1>x DEF RequestMeets
  <2>6. \A x, y \in Gnb, q, z \in Id :
           /\ ~Sent("ack", x, y, q, z)'
           /\ Sent("request", x, y, q, z)' => x = a /\ y = b /\ q = o
           /\ ~Sent("failure", x, a, o, z)'
    BY <2>1, <1>p, <1>a, <1>c, <1>s, <1>u, <1>n, <1>t, <1>x DEF RequestMeets
  <2>7. NoTarget(a, o)'
    BY <2>1, <1>p, <1>a, <1>c, <1>s, <1>u, <1>n, <1>t, <1>x DEF RequestMeets, NoTarget
  <2> QED BY <2>2, <2>3, <2>4, <2>5, <2>6, <2>7 DEF RequestMeets
<1>Acks. Acks'
  BY <1>p, <1>a, <1>c, <1>s, <1>u, <1>n, <1>t, <1>x DEF Acks, AckMeets
<1>Failures. Failures'
  <2> SUFFICES ASSUME NEW a \in Gnb, NEW b \in Gnb, NEW o \in Id, NEW m \in Id,
                      Sent("failure", a, b, o, m)'
               PROVE  FailureMeets(a, b, o, m)'
    BY DEF Failures
  <2>1. Sent("failure", a, b, o, m) /\ FailureMeets(a, b, o, m)
    BY <1>p, <1>a, <1>c, <1>s, <1>u, <1>n, <1>t, <1>x DEF Failures
  <2>2. a # b /\ o \in Rnti /\ o <= last'[b] /\ m = 0
    BY <2>1, <1>p, <1>a, <1>c, <1>s, <1>u, <1>n, <1>t, <1>x DEF FailureMeets
  <2>3. /\ St(b, o)' \in {"NONE", "HANDOVER_PREPARATION", "HANDOVER_LEAVING"}
        /\ St(b, o)' # "NONE" => Peer(b, o)' = a
    BY <2>1, <1>p, <1>a, <1>c, <1>s, <1>u, <1>n, <1>t, <1>x DEF FailureMeets
  <2>4. St(b, o)' = "HANDOVER_LEAVING" => \A z \in Rnti : Linked(b, o, a, z)' => St(a, z)' = "NONE"
    BY <2>1, <1>p, <1>a, <1>c, <1>s, <1>u, <1>n, <1>t, <1>x DEF FailureMeets
  <2>5. St(b, o)' = "HANDOVER_LEAVING"
                => \A x \in Gnb, z \in Id : ~Sent("context_release", x, b, o, z)'
    BY <2>1, <1>p, <1>a, <1>c, <1>s, <1>u, <1>n, <1>t, <1>x DEF FailureMeets
  <2>6. NoTarget(b, o)'
    BY <2>1, <1>p, <1>a, <1>c, <1>s, <1>u, <1>n, <1>t, <1>x DEF FailureMeets, NoTarget
  <2> QED BY <2>2, <2>3, <2>4, <2>5, <2>6 DEF FailureMeets
<1>Releases. Releases'
  BY <1>p, <1>a, <1>c, <1>s, <1>u, <1>n, <1>t, <1>x DEF Releases, ReleaseMeets
<1>Cancels. Cancels'
  BY <1>p, <1>a, <1>c, <1>s, <1>u, <1>n, <1>t, <1>x DEF Cancels, CancelMeets
<1>Joinings. Joinings'
  <2> SUFFICES ASSUME NEW h \in Gnb, NEW q \in Rnti, St(h, q)' = "HANDOVER_JOINING"
               PROVE  \E x \in Gnb, y \in Rnti : JoiningFrom(h, q, x, y)'
    BY DEF Joinings
  <2>1. St(h, q) = "HANDOVER_JOINING" /\ (h # g \/ q # w)
    BY <1>c
  <2>2. PICK x \in Gnb, y \in Rnti : JoiningFrom(h, q, x, y)
    BY <1>p, <2>1 DEF Joinings
  <2> QED BY <2>1, <2>2, <1>p, <1>a, <1>c, <1>s, <1>x DEF JoiningFrom
<1>Switchings. Switchings'
  <2> SUFFICES ASSUME NEW h \in Gnb, NEW q \in Rnti, St(h, q)' = "HANDOVER_PATH_SWITCH"
               PROVE  /\ Switched(h)' /\ imsiRnti'[h] = q
                      /\ \E x \in Gnb, y \in Rnti : SwitchingFrom(h, q, x, y)'
    BY DEF Switchings
  <2>1. St(h, q) = "HANDOVER_PATH_SWITCH" /\ (h # g \/ q # w)
    BY <1>c
  <2>2. PICK x \in Gnb, y \in Rnti : SwitchingFrom(h, q, x, y)
    BY <1>p, <2>1 DEF Switchings
  <2>3. Switched(h) /\ imsiRnti[h] = q
    BY <1>p, <2>1 DEF Switchings
  <2>4. SwitchingFrom(h, q, x, y)'
    BY <2>1, <2>2, <1>p, <1>a, <1>c, <1>x DEF SwitchingFrom
  <2> QED BY <2>3, <2>4, <1>p, <1>a DEF Switched
<1>Answers. Answers'
  BY <1>p, <1>a, <1>c, <1>s, <1>u, <1>n, <1>t, <1>x DEF Answers
<1>UeIdle. UeIdle'
  BY <1>p, <1>a, <1>c, <1>s, <1>u, <1>n, <1>t, <1>x DEF UeIdle
<1>UeConnecting. UeConnecting'
  <2>0. PICK e, v : e = ue.cell /\ v = ue.rnti
    OBVIOUS
  <2>1. CASE e = g /\ v = w
    BY <2>0, <2>1, <1>p, <1>a, <1>c, <1>s, <1>u, <1>n, <1>t, <1>x, Kinds, Single DEF UeConnecting,
       SettingUp
  <2>2. CASE ~(e = g /\ v = w)
    BY <2>0, <2>2, <1>p, <1>a, <1>c, <1>s, <1>u, <1>n, <1>t, <1>x, Kinds, Single DEF UeConnecting,
       SettingUp, UeIdle, Idle
  <2> QED BY <2>1, <2>2
<1>UeMoving. UeMoving'
  <2>0. PICK e, v : e = ue.cell /\ v = ue.rnti
    OBVIOUS
  <2>1. CASE e = g /\ v = w
    BY <2>0, <2>1, <1>p, <1>a, <1>c, <1>s, <1>u, <1>n, <1>t, <1>x DEF UeMoving, Away
  <2>2. CASE ~(e = g /\ v = w)
    BY <2>0, <2>2, <1>p, <1>a, <1>c, <1>s, <1>u, <1>n, <1>t, <1>x DEF UeMoving, Away, UeIdle, Idle
  <2> QED BY <2>1, <2>2
<1>UeConnected. UeConnected'
  <2>0. PICK e, v : e = ue.cell /\ v = ue.rnti
    OBVIOUS
  <2>1. CASE e = g /\ v = w
    BY <2>0, <2>1, <1>p, <1>a, <1>c, <1>s, <1>u, <1>n, <1>t, <1>x DEF UeConnected, Away
  <2>2. CASE ~(e = g /\ v = w)
    BY <2>0, <2>2, <1>p, <1>a, <1>c, <1>s, <1>u, <1>n, <1>t, <1>x DEF UeConnected, Away, UeIdle,
       Idle
  <2> QED BY <2>1, <2>2
<1> QED BY <1>p, <1>a, <1>TypeOK, <1>Messages, <1>Queues, <1>Contexts, <1>Leavings, <1>OneSource,
           <1>Requests, <1>Acks, <1>Failures, <1>Releases, <1>Cancels, <1>Joinings, <1>Switchings,
           <1>Answers, <1>UeIdle, <1>UeConnecting, <1>UeMoving, <1>UeConnected DEF IInv, Good

\* The core answers an attach request, and the invariant stays.
LEMMA AttachAnswered ==
    ASSUME Here, RecvInitialContextSetup, NEW g \in Gnb, NEW w \in Rnti, g = Head(s1).gnb,
           w = imsiRnti[g], St(g, w) # "NONE"
    PROVE  IInv'
<1>p. /\ TypeOK /\ Messages /\ Queues /\ Contexts /\ Leavings /\ OneSource
      /\ Requests /\ Acks /\ Failures /\ Releases /\ Cancels
      /\ Joinings /\ Switchings /\ Answers
      /\ UeIdle /\ UeConnecting /\ UeMoving /\ UeConnected
      /\ fault = "none" /\ MaxRnti \in Nat /\ NoCell \notin Gnb
      /\ \A q \in Rnti : q \in Nat /\ q \in Id /\ q # 0
  BY HandoverAssumption DEF Here, Good, Rnti, Id
<1>d. /\ now = <<>> /\ s1 = <<[kind |-> "attached", gnb |-> g]>> /\ St(g, w) = "ATTACH_REQUEST"
  <2>1. now = <<>> /\ s1 # <<>> /\ Head(s1).kind = "attached" /\ Head(s1).gnb = g
    BY DEF RecvInitialContextSetup, Running
  <2>2. PICK k \in {"switched", "attached"}, h \in Gnb : s1 = <<[kind |-> k, gnb |-> h]>>
    BY <1>p, <2>1 DEF Messages
  <2>3. Head(s1).kind = k /\ Head(s1).gnb = h
    BY <2>2, Single
  <2>4. s1 = <<[kind |-> "attached", gnb |-> g]>>
    BY <2>1, <2>2, <2>3
  <2> QED BY <1>p, <2>1, <2>4 DEF Answers
<1>d1. /\ ue.st = "CONNECTED_NORMALLY" /\ ~ue.left /\ ue.cell = g /\ ue.rnti = w
       /\ UeAt(g, w) /\ On(g, w) /\ ~Idle
       /\ \A h \in Gnb, q \in Rnti : St(h, q) \in Attached => h = g /\ q = w
  BY <1>d, UeThere DEF Here, Attached
<1>d2. dl = <<>> /\ ul = <<>>
  BY <1>p, <1>d, <1>d1 DEF UeConnected, Released
<1>a0. /\ ctx' = [ctx EXCEPT ![g][w] = Connected([@ EXCEPT !.pend = TRUE])]
       /\ dl' = Append(dl, [kind |-> "reconf"]) /\ s1' = Tail(s1)
       /\ UNCHANGED <<last, teid, imsiRnti, ue, ul, x2, now, leavingLast, fault>>
  BY <1>d, <1>d1 DEF RecvInitialContextSetup, Here, Exists, St
<1>a. /\ dl' = <<Reconf>> /\ ul' = <<>> /\ dl = <<>> /\ ul = <<>>
      /\ ue' = ue /\ now = <<>> /\ now' = <<>> /\ g = ue.cell /\ w = ue.rnti
           /\ ue.st = "CONNECTED_NORMALLY"
      /\ St(g, w) = "ATTACH_REQUEST" /\ imsiRnti[g] = w
      /\ s1 = <<[kind |-> "attached", gnb |-> g]>> /\ s1' = <<>> /\ s1 # <<>>
      /\ UNCHANGED <<last, teid, imsiRnti, x2, leavingLast, fault>>
  BY <1>a0, <1>d, <1>d1, <1>d2, Single DEF Reconf
<1>j. /\ ctx \in [Gnb -> [Rnti -> ContextType]]
      /\ ctx[g][w] \in ContextType
  BY <1>p DEF TypeOK
<1>k. PICK d \in ContextType : d = ctx[g][w]
  BY <1>j
<1>k1. PICK c : c = Connected([d EXCEPT !.pend = TRUE])
  OBVIOUS
<1>k2. /\ c \in ContextType /\ c.st = "CONNECTION_RECONFIGURATION" /\ c.timer = "none"
       /\ c.peer = d.peer /\ c.peerId = d.peerId /\ c.pend = FALSE
  <2>1. PICK a : a = [d EXCEPT !.pend = TRUE]
    OBVIOUS
  <2>2. a \in ContextType /\ a.pend /\ a.peer = d.peer /\ a.peerId = d.peerId
    BY <1>k, <2>1 DEF ContextType
  <2> QED BY <1>k1, <2>1, <2>2, ConnectedContext
<1>k3. Guarded(c)
  BY <1>k2 DEF Guarded
<1>b. ctx' = [ctx EXCEPT ![g][w] = Connected([@ EXCEPT !.pend = TRUE])]
  BY <1>a0
<1>e. Put(g, w, c)
  <2>1. c = Connected([ctx[g][w] EXCEPT !.pend = TRUE])
    BY <1>k, <1>k1
  <2> QED BY ONLY g \in Gnb, w \in Rnti, <1>j, <1>b, <2>1 DEF Put
<1>c. /\ ctx' \in [Gnb -> [Rnti -> ContextType]]
      /\ \A h \in Gnb, q \in Rnti : Guarded(ctx'[h][q])
      /\ St(g, w)' = "CONNECTION_RECONFIGURATION" /\ Timer(g, w)' = "none" /\ Pend(g, w)' = FALSE
      /\ \A h \in Gnb, q \in Rnti :
            /\ h # g \/ q # w => /\ St(h, q)' = St(h, q) /\ Timer(h, q)' = Timer(h, q)
                                 /\ Pend(h, q)' = Pend(h, q)
            /\ Peer(h, q)' = Peer(h, q)
            /\ \A x, y : Linked(h, q, x, y)' <=> Linked(h, q, x, y)
  <2>1. c.peer = ctx[g][w].peer /\ c.peerId = ctx[g][w].peerId
    BY <1>k, <1>k2
  <2>2. c.pend = FALSE
    BY <1>k, <1>k2 DEF Pend
  <2>3. TypeOK
    BY <1>p
  <2>4. Changed(g, w, c)
    BY ONLY g \in Gnb, w \in Rnti, <1>k2, <1>k3, <1>e, <2>1, <2>3, ContextChanged
  <2> QED BY <1>k2, <2>2, <2>4 DEF Changed
<1>s. \A kind, from, to, old, new : Sent(kind, from, to, old, new)'
              <=> Sent(kind, from, to, old, new)
  BY <1>a, LinksSame
<1>u. /\ Idle' <=> Idle
      /\ \A h, q :
            /\ UeAt(h, q)' <=> UeAt(h, q)
            /\ On(h, q)' <=> On(h, q)
            /\ Home(h, q)' <=> Home(h, q)
            /\ Leaves(h, q)' <=> Leaves(h, q)
            /\ Released(h, q)' <=> Released(h, q)
  BY <1>a, UeSame
<1>t. /\ \A h \in Gnb : last[h] \in Nat /\ teid[h] \in Nat /\ imsiRnti[h] \in Nat
  BY <1>p DEF TypeOK
<1>n. \A h, q :
         /\ ~Released(h, q) /\ ~Released(h, q)' /\ ~Leaves(h, q) /\ ~Leaves(h, q)'
  BY <1>a DEF Released, Leaves
<1>x. St(g, w) = "ATTACH_REQUEST" /\ ~Idle /\ ~Idle' /\ On(g, w) /\ UeAt(g, w) /\ Home(g, w)
              /\ w <= last[g]
  BY <1>a, <1>d1, <1>p, <1>u DEF Home, Contexts, ContextFits
<1>z. \A h \in Gnb : ~Switched(h)
  BY <1>a DEF Switched
<1>TypeOK. TypeOK'
  BY <1>p, <1>a, <1>c, Single DEF TypeOK
<1>Messages. Messages'
  BY <1>p, <1>a, <1>u DEF Messages
<1>Queues. Queues'
  BY <1>p, <1>a, <1>c, <1>s, <1>u, <1>n, <1>t, <1>x, <1>z DEF Queues
<1>Contexts. Contexts'
  <2> SUFFICES ASSUME NEW h \in Gnb, NEW q \in Rnti
               PROVE  teid'[h] <= last'[h] /\ imsiRnti'[h] <= last'[h] /\ ContextFits(h, q)'
    BY DEF Contexts
  <2>1. CASE h = g /\ q = w
    BY <1>p, <1>a, <1>c, <1>u, <1>x, <2>1 DEF Contexts, ContextFits, Attached, SettingUp
  <2>2. CASE h # g \/ q # w
    BY <1>p, <1>a, <1>c, <1>u, <2>2 DEF Contexts, ContextFits, Attached, SettingUp
  <2> QED BY <2>1, <2>2
<1>Leavings. Leavings'
  <2> SUFFICES ASSUME NEW h \in Gnb, NEW q \in Rnti, St(h, q)' = "HANDOVER_LEAVING"
               PROVE  \E x \in Gnb, y \in Rnti : LeavingTo(h, q, x, y)'
    BY DEF Leavings
  <2>1. St(h, q) = "HANDOVER_LEAVING" /\ (h # g \/ q # w)
    BY <1>c
  <2>2. PICK x \in Gnb, y \in Rnti : LeavingTo(h, q, x, y)
    BY <1>p, <2>1 DEF Leavings
  <2>3. Pending(h, q, x, y)'
    BY <2>2, <1>p, <1>a, <1>c, <1>s, <1>u, <1>x DEF LeavingTo, Pending, Switched
  <2>4. St(x, y)' \in {"NONE", "HANDOVER_JOINING"} \/ Home(x, y)'
    BY <2>2, <1>p, <1>a, <1>c, <1>s, <1>u, <1>x DEF LeavingTo
  <2>5. \/ Idle'
        \/ On(h, q)'
        \/ ue'.from = <<h, q>> /\ ue'.cell = x /\ ~ue'.left /\ (ue'.rnti = y \/ St(x, y)' = "NONE")
    BY <2>2, <1>p, <1>a, <1>c, <1>s, <1>u, <1>x DEF LeavingTo
  <2> QED BY <2>2, <2>3, <2>4, <2>5, <1>a, <1>c DEF LeavingTo
<1>OneSource. OneSource'
  <2> SUFFICES ASSUME NEW h \in Gnb, NEW q \in Rnti
               PROVE  NothingNew(h, q)
    BY <1>p, OneSourceStays
  <2> QED BY <1>p, <1>a, <1>c, <1>s, <1>u, <1>n, <1>t, <1>x, <1>z DEF NothingNew, Source, Target
<1>Requests. Requests'
  <2> SUFFICES ASSUME NEW a \in Gnb, NEW b \in Gnb, NEW o \in Id, NEW m \in Id,
                      Sent("request", a, b, o, m)'
               PROVE  RequestMeets(a, b, o, m)'
    BY DEF Requests
  <2>1. Sent("request", a, b, o, m) /\ RequestMeets(a, b, o, m)
    BY <1>p, <1>a, <1>c, <1>s, <1>u, <1>n, <1>t, <1>x DEF Requests
  <2>2. a # b /\ o \in Rnti /\ o <= last'[a] /\ m = 0
    BY <2>1, <1>p, <1>a, <1>c, <1>s, <1>u, <1>n, <1>t, <1>x DEF RequestMeets
  <2>3. /\ St(a, o)' \in {"NONE", "HANDOVER_PREPARATION"}
        /\ St(a, o)' # "NONE" => Peer(a, o)' = b
    BY <2>1, <1>p, <1>a, <1>c, <1>s, <1>u, <1>n, <1>t, <1>x DEF RequestMeets
  <2>4. Idle' \/ (On(a, o)' /\ St(a, o)' = "HANDOVER_PREPARATION")
    BY <2>1, <1>p, <1>a, <1>c, <1>s, <1>u, <1>n, <1>t, <1>x DEF RequestMeets
  <2>5. s1' = <<>> /\ (leavingLast' => teid'[b] = 0)
    BY <2>1, <1>p, <1>a, <1>c, <1>s, <1>u, <1>n, <1>t, <1>x DEF RequestMeets
  <2>6. \A x, y \in Gnb, q, z \in Id :
           /\ ~Sent("ack", x, y, q, z)'
           /\ Sent("request", x, y, q, z)' => x = a /\ y = b /\ q = o
           /\ ~Sent("failure", x, a, o, z)'
    BY <2>1, <1>p, <1>a, <1>c, <1>s, <1>u, <1>n, <1>t, <1>x DEF RequestMeets
  <2>7. NoTarget(a, o)'
    BY <2>1, <1>p, <1>a, <1>c, <1>s, <1>u, <1>n, <1>t, <1>x DEF RequestMeets, NoTarget
  <2> QED BY <2>2, <2>3, <2>4, <2>5, <2>6, <2>7 DEF RequestMeets
<1>Acks. Acks'
  BY <1>p, <1>a, <1>c, <1>s, <1>u, <1>n, <1>t, <1>x, <1>z DEF Acks, AckMeets
<1>Failures. Failures'
  <2> SUFFICES ASSUME NEW a \in Gnb, NEW b \in Gnb, NEW o \in Id, NEW m \in Id,
                      Sent("failure", a, b, o, m)'
               PROVE  FailureMeets(a, b, o, m)'
    BY DEF Failures
  <2>1. Sent("failure", a, b, o, m) /\ FailureMeets(a, b, o, m)
    BY <1>p, <1>a, <1>c, <1>s, <1>u, <1>n, <1>t, <1>x DEF Failures
  <2>2. a # b /\ o \in Rnti /\ o <= last'[b] /\ m = 0
    BY <2>1, <1>p, <1>a, <1>c, <1>s, <1>u, <1>n, <1>t, <1>x DEF FailureMeets
  <2>3. /\ St(b, o)' \in {"NONE", "HANDOVER_PREPARATION", "HANDOVER_LEAVING"}
        /\ St(b, o)' # "NONE" => Peer(b, o)' = a
    BY <2>1, <1>p, <1>a, <1>c, <1>s, <1>u, <1>n, <1>t, <1>x DEF FailureMeets
  <2>4. St(b, o)' = "HANDOVER_LEAVING" => \A z \in Rnti : Linked(b, o, a, z)' => St(a, z)' = "NONE"
    BY <2>1, <1>p, <1>a, <1>c, <1>s, <1>u, <1>n, <1>t, <1>x DEF FailureMeets
  <2>5. St(b, o)' = "HANDOVER_LEAVING"
                => \A x \in Gnb, z \in Id : ~Sent("context_release", x, b, o, z)'
    BY <2>1, <1>p, <1>a, <1>c, <1>s, <1>u, <1>n, <1>t, <1>x DEF FailureMeets
  <2>6. NoTarget(b, o)'
    BY <2>1, <1>p, <1>a, <1>c, <1>s, <1>u, <1>n, <1>t, <1>x DEF FailureMeets, NoTarget
  <2> QED BY <2>2, <2>3, <2>4, <2>5, <2>6 DEF FailureMeets
<1>Releases. Releases'
  BY <1>p, <1>a, <1>c, <1>s, <1>u, <1>n, <1>t, <1>x, <1>z DEF Releases, ReleaseMeets
<1>Cancels. Cancels'
  BY <1>p, <1>a, <1>c, <1>s, <1>u, <1>n, <1>t, <1>x, <1>z DEF Cancels, CancelMeets
<1>Joinings. Joinings'
  <2> SUFFICES ASSUME NEW h \in Gnb, NEW q \in Rnti, St(h, q)' = "HANDOVER_JOINING"
               PROVE  \E x \in Gnb, y \in Rnti : JoiningFrom(h, q, x, y)'
    BY DEF Joinings
  <2>1. St(h, q) = "HANDOVER_JOINING" /\ (h # g \/ q # w)
    BY <1>c
  <2>2. PICK x \in Gnb, y \in Rnti : JoiningFrom(h, q, x, y)
    BY <1>p, <2>1 DEF Joinings
  <2> QED BY <2>1, <2>2, <1>p, <1>a, <1>c, <1>s, <1>x DEF JoiningFrom
<1>Switchings. Switchings'
  BY <1>p, <1>a, <1>c, <1>z DEF Switchings, Switched
<1>Answers. Answers'
  BY <1>p, <1>a, <1>c, <1>s, <1>u, <1>n, <1>t, <1>x, <1>z DEF Answers
<1>UeIdle. UeIdle'
  BY <1>p, <1>a, <1>c, <1>s, <1>u, <1>n, <1>t, <1>x, <1>z DEF UeIdle
<1>UeConnecting. UeConnecting'
  BY <1>p, <1>a, <1>c, <1>s, <1>u, <1>n, <1>t, <1>x, <1>z,  <1>x, Kinds, Single DEF UeConnecting,
     SettingUp
<1>UeMoving. UeMoving'
  BY <1>p, <1>a, <1>c, <1>s, <1>u, <1>n, <1>t, <1>x, <1>z DEF UeMoving, Away
<1>UeConnected. UeConnected'
  BY <1>p, <1>a, <1>c, <1>s, <1>u, <1>n, <1>t, <1>x, <1>z DEF UeConnected, Away
<1> QED BY <1>p, <1>a, <1>TypeOK, <1>Messages, <1>Queues, <1>Contexts, <1>Leavings, <1>OneSource,
           <1>Requests, <1>Acks, <1>Failures, <1>Releases, <1>Cancels, <1>Joinings, <1>Switchings,
           <1>Answers, <1>UeIdle, <1>UeConnecting, <1>UeMoving, <1>UeConnected DEF IInv, Good

\* The UE reports to the target of the handover, and the invariant stays.
LEMMA UeJoins ==
    ASSUME Here, RecvReconfigurationCompleted, NEW g \in Gnb, NEW w \in Rnti, g = ue.cell,
           w = ue.rnti, St(g, w) = "HANDOVER_JOINING"
    PROVE  IInv'
<1>p. /\ TypeOK /\ Messages /\ Queues /\ Contexts /\ Leavings /\ OneSource
      /\ Requests /\ Acks /\ Failures /\ Releases /\ Cancels
      /\ Joinings /\ Switchings /\ Answers
      /\ UeIdle /\ UeConnecting /\ UeMoving /\ UeConnected
      /\ fault = "none" /\ MaxRnti \in Nat /\ NoCell \notin Gnb
      /\ \A q \in Rnti : q \in Nat /\ q \in Id /\ q # 0
  BY HandoverAssumption DEF Here, Good, Rnti, Id
<1>d. /\ ul = <<"completed">> /\ dl = <<>> /\ ue.st = "CONNECTED_NORMALLY" /\ now = <<>> /\ Away
      /\ Linked(g, w, ue.from[1], ue.from[2])
  BY UlMeets, Single DEF RecvReconfigurationCompleted, Running, Here
<1>s0. /\ s1 = <<>>
       /\ \A h \in Gnb, q \in Rnti : St(h, q) \notin Attached
  <2>1. \A h \in Gnb, q \in Rnti : St(h, q) \notin Attached
    BY <1>d, UeThere DEF Here, Attached
  <2>2. ~Idle
    BY <1>d DEF Idle
  <2> QED BY <1>p, <2>1, <2>2 DEF Answers, Messages, Attached
<1>a0. /\ ctx' = [ctx EXCEPT ![g][w] = Joins(@)]
       /\ ul' = Tail(ul) /\ imsiRnti' = [imsiRnti EXCEPT ![g] = w]
       /\ s1' = Append(s1, [kind |-> "switched", gnb |-> g])
       /\ UNCHANGED <<last, teid, ue, dl, x2, now, leavingLast, fault>>
  BY DEF RecvReconfigurationCompleted, ExpectsCompleted, Here, St
<1>a. /\ dl' = <<>> /\ ul' = <<>> /\ dl = <<>> /\ ul = <<"completed">>
      /\ ue' = ue /\ now = <<>> /\ now' = <<>> /\ g = ue.cell /\ w = ue.rnti
           /\ ue.st = "CONNECTED_NORMALLY"
      /\ St(g, w) = "HANDOVER_JOINING" /\ imsiRnti'[g] = w /\ imsiRnti' \in [Gnb -> 0 .. MaxRnti]
      /\ \A h \in Gnb : h # g => imsiRnti'[h] = imsiRnti[h]
      /\ s1 = <<>> /\ s1' = <<[kind |-> "switched", gnb |-> g]>> /\ s1' # <<>>
      /\ UNCHANGED <<last, teid, x2, leavingLast, fault>>
  BY <1>a0, <1>d, <1>s0, <1>p, Single DEF TypeOK, Rnti
<1>j. /\ ctx \in [Gnb -> [Rnti -> ContextType]]
      /\ ctx[g][w] \in ContextType
  BY <1>p DEF TypeOK
<1>k. PICK d \in ContextType : d = ctx[g][w]
  BY <1>j
<1>k1. PICK c : c = Joins(d)
  OBVIOUS
<1>k2. /\ c \in ContextType /\ c.st = "HANDOVER_PATH_SWITCH" /\ c.timer = "none"
       /\ c.peer = d.peer /\ c.peerId = d.peerId /\ c.pend = d.pend
  BY <1>k, <1>k1 DEF ContextType, Joins
<1>k3. Guarded(c)
  BY <1>k2 DEF Guarded
<1>b. ctx' = [ctx EXCEPT ![g][w] = Joins(@)]
  BY <1>a0
<1>e. Put(g, w, c)
  <2>1. c = Joins(ctx[g][w])
    BY <1>k, <1>k1
  <2> QED BY ONLY g \in Gnb, w \in Rnti, <1>j, <1>b, <2>1 DEF Put
<1>c. /\ ctx' \in [Gnb -> [Rnti -> ContextType]]
      /\ \A h \in Gnb, q \in Rnti : Guarded(ctx'[h][q])
      /\ St(g, w)' = "HANDOVER_PATH_SWITCH" /\ Timer(g, w)' = "none" /\ Pend(g, w)' = Pend(g, w)
      /\ \A h \in Gnb, q \in Rnti :
            /\ h # g \/ q # w => /\ St(h, q)' = St(h, q) /\ Timer(h, q)' = Timer(h, q)
                                 /\ Pend(h, q)' = Pend(h, q)
            /\ Peer(h, q)' = Peer(h, q)
            /\ \A x, y : Linked(h, q, x, y)' <=> Linked(h, q, x, y)
  <2>1. c.peer = ctx[g][w].peer /\ c.peerId = ctx[g][w].peerId
    BY <1>k, <1>k2
  <2>2. c.pend = Pend(g, w)
    BY <1>k, <1>k2 DEF Pend
  <2>3. TypeOK
    BY <1>p
  <2>4. Changed(g, w, c)
    BY ONLY g \in Gnb, w \in Rnti, <1>k2, <1>k3, <1>e, <2>1, <2>3, ContextChanged
  <2> QED BY <1>k2, <2>2, <2>4 DEF Changed
<1>s. \A kind, from, to, old, new : Sent(kind, from, to, old, new)'
              <=> Sent(kind, from, to, old, new)
  BY <1>a, LinksSame
<1>u. /\ Idle' <=> Idle
      /\ \A h, q :
            /\ UeAt(h, q)' <=> UeAt(h, q)
            /\ On(h, q)' <=> On(h, q)
            /\ Home(h, q)' <=> Home(h, q)
            /\ Leaves(h, q)' <=> Leaves(h, q)
            /\ Released(h, q)' <=> Released(h, q)
  BY <1>a, UeSame
<1>t. /\ \A h \in Gnb : last[h] \in Nat /\ teid[h] \in Nat /\ imsiRnti[h] \in Nat
  BY <1>p DEF TypeOK
<1>n. \A h, q :
         /\ ~Released(h, q) /\ ~Released(h, q)' /\ ~Leaves(h, q) /\ ~Leaves(h, q)'
  BY <1>a DEF Released, Leaves
<1>x. St(g, w) = "HANDOVER_JOINING" /\ ~Idle /\ ~Idle' /\ On(g, w) /\ UeAt(g, w) /\ Home(g, w)
              /\ w <= last[g]
  BY <1>a, <1>p, <1>u DEF Idle, On, UeAt, Home, UeIdle, Contexts, ContextFits
<1>z. Switched(g)' /\ \A h \in Gnb : ~Switched(h)
  BY <1>a DEF Switched
<1>y. \A h \in Gnb, q \in Rnti : St(h, q) # "HANDOVER_PREPARATION"
              /\ St(h, q) # "HANDOVER_PATH_SWITCH"
  BY <1>s0 DEF Attached
<1>TypeOK. TypeOK'
  BY <1>p, <1>a, <1>c, Single DEF TypeOK
<1>Messages. Messages'
  BY <1>p, <1>a, <1>u DEF Messages
<1>Queues. Queues'
  BY <1>p, <1>a, <1>c, <1>s, <1>u, <1>n, <1>t, <1>x, <1>y, <1>z DEF Queues
<1>Contexts. Contexts'
  <2> SUFFICES ASSUME NEW h \in Gnb, NEW q \in Rnti
               PROVE  teid'[h] <= last'[h] /\ imsiRnti'[h] <= last'[h] /\ ContextFits(h, q)'
    BY DEF Contexts
  <2>1. CASE h = g /\ q = w
    BY <1>p, <1>a, <1>c, <1>u, <1>x, <1>y, <2>1 DEF Contexts, ContextFits, Attached, SettingUp
  <2>2. CASE h # g \/ q # w
    BY <1>p, <1>a, <1>c, <1>u, <2>2 DEF Contexts, ContextFits, Attached, SettingUp
  <2> QED BY <2>1, <2>2
<1>Leavings. Leavings'
  <2> SUFFICES ASSUME NEW h \in Gnb, NEW q \in Rnti, St(h, q)' = "HANDOVER_LEAVING"
               PROVE  \E x \in Gnb, y \in Rnti : LeavingTo(h, q, x, y)'
    BY DEF Leavings
  <2>1. St(h, q) = "HANDOVER_LEAVING" /\ (h # g \/ q # w)
    BY <1>c
  <2>2. PICK x \in Gnb, y \in Rnti : LeavingTo(h, q, x, y)
    BY <1>p, <2>1 DEF Leavings
  <2>3. Pending(h, q, x, y)'
    BY <2>2, <1>p, <1>a, <1>c, <1>s, <1>u, <1>x, <1>y, <1>z DEF LeavingTo, Pending, Switched
  <2>4. St(x, y)' \in {"NONE", "HANDOVER_JOINING"} \/ Home(x, y)'
    BY <2>2, <1>p, <1>a, <1>c, <1>s, <1>u, <1>x, <1>y, <1>z DEF LeavingTo
  <2>5. \/ Idle'
        \/ On(h, q)'
        \/ ue'.from = <<h, q>> /\ ue'.cell = x /\ ~ue'.left /\ (ue'.rnti = y \/ St(x, y)' = "NONE")
    BY <2>2, <1>p, <1>a, <1>c, <1>s, <1>u, <1>x, <1>y, <1>z DEF LeavingTo
  <2> QED BY <2>2, <2>3, <2>4, <2>5, <1>a, <1>c DEF LeavingTo
<1>OneSource. OneSource'
  <2>0. OneTarget
    BY <1>p DEF OneSource
  <2>1. OneTarget'
    <3> SUFFICES ASSUME NEW x \in Gnb, NEW y \in Gnb, NEW i \in Rnti, NEW v \in Rnti,
                        NEW k \in Gnb, NEW u \in Id, Target(x, i)', Target(y, v)',
                        Linked(x, i, k, u)', Linked(y, v, k, u)'
                 PROVE  x = y /\ i = v
      BY DEF OneTarget
    <3> QED BY <2>0, <1>c, <1>x DEF OneTarget, Target
  <2>2. \A x, y \in Gnb, i, v \in Rnti : Source(x, i)' /\ Source(y, v)' => x = y /\ i = v
    BY <1>p, <1>a, <1>c, <1>s, <1>u, <1>n, <1>t, <1>x, <1>y, <1>z DEF OneSource, Source
  <2> QED BY <2>1, <2>2 DEF OneSource
<1>Requests. Requests'
  <2> SUFFICES ASSUME NEW a \in Gnb, NEW b \in Gnb, NEW o \in Id, NEW m \in Id,
                      Sent("request", a, b, o, m)'
               PROVE  FALSE
    BY DEF Requests
  <2>1. RequestMeets(a, b, o, m)
    BY <1>p, <1>s DEF Requests
  <2>2. o \in Rnti /\ St(a, o) = "HANDOVER_PREPARATION"
    BY <2>1, <1>x DEF RequestMeets
  <2> QED BY <2>2, <1>y
<1>Acks. Acks'
  BY <1>p, <1>x, <1>y, <1>s DEF Acks, AckMeets, Id, Rnti
<1>Failures. Failures'
  <2> SUFFICES ASSUME NEW a \in Gnb, NEW b \in Gnb, NEW o \in Id, NEW m \in Id,
                      Sent("failure", a, b, o, m)'
               PROVE  FailureMeets(a, b, o, m)'
    BY DEF Failures
  <2>1. Sent("failure", a, b, o, m) /\ FailureMeets(a, b, o, m)
    BY <1>p, <1>a, <1>c, <1>s, <1>u, <1>n, <1>t, <1>x DEF Failures
  <2>2. a # b /\ o \in Rnti /\ o <= last'[b] /\ m = 0
    BY <2>1, <1>p, <1>a, <1>c, <1>s, <1>u, <1>n, <1>t, <1>x DEF FailureMeets
  <2>3. /\ St(b, o)' \in {"NONE", "HANDOVER_PREPARATION", "HANDOVER_LEAVING"}
        /\ St(b, o)' # "NONE" => Peer(b, o)' = a
    BY <2>1, <1>p, <1>a, <1>c, <1>s, <1>u, <1>n, <1>t, <1>x DEF FailureMeets
  <2>4. St(b, o)' = "HANDOVER_LEAVING" => \A z \in Rnti : Linked(b, o, a, z)' => St(a, z)' = "NONE"
    BY <2>1, <1>p, <1>a, <1>c, <1>s, <1>u, <1>n, <1>t, <1>x DEF FailureMeets
  <2>5. St(b, o)' = "HANDOVER_LEAVING"
                => \A x \in Gnb, z \in Id : ~Sent("context_release", x, b, o, z)'
    BY <2>1, <1>p, <1>a, <1>c, <1>s, <1>u, <1>n, <1>t, <1>x DEF FailureMeets
  <2>6. NoTarget(b, o)'
    BY <2>1, <1>p, <1>a, <1>c, <1>s, <1>u, <1>n, <1>t, <1>x DEF FailureMeets, NoTarget
  <2> QED BY <2>2, <2>3, <2>4, <2>5, <2>6 DEF FailureMeets
<1>Releases. Releases'
  BY <1>p, <1>a, <1>c, <1>s, <1>u, <1>n, <1>t, <1>x, <1>y, <1>z DEF Releases, ReleaseMeets
<1>Cancels. Cancels'
  BY <1>p, <1>a, <1>c, <1>s, <1>u, <1>n, <1>t, <1>x, <1>y, <1>z DEF Cancels, CancelMeets
<1>Joinings. Joinings'
  <2> SUFFICES ASSUME NEW h \in Gnb, NEW q \in Rnti, St(h, q)' = "HANDOVER_JOINING"
               PROVE  \E x \in Gnb, y \in Rnti : JoiningFrom(h, q, x, y)'
    BY DEF Joinings
  <2>1. St(h, q) = "HANDOVER_JOINING" /\ (h # g \/ q # w)
    BY <1>c
  <2>2. PICK x \in Gnb, y \in Rnti : JoiningFrom(h, q, x, y)
    BY <1>p, <2>1 DEF Joinings
  <2> QED BY <2>1, <2>2, <1>p, <1>a, <1>c, <1>s, <1>x DEF JoiningFrom
<1>Switchings. Switchings'
  <2>1. PICK s \in Gnb, r \in Rnti : JoiningFrom(g, w, s, r)
    BY <1>p, <1>x DEF Joinings
  <2>2. SwitchingFrom(g, w, s, r)'
    BY <2>1, <1>a, <1>c, <1>y, <1>x DEF JoiningFrom, SwitchingFrom
  <2>3. \A h \in Gnb, q \in Rnti : St(h, q)' = "HANDOVER_PATH_SWITCH" => h = g /\ q = w
    BY <1>c, <1>y
  <2> QED BY <2>2, <2>3, <1>a, <1>z DEF Switchings
<1>Answers. Answers'
  BY <1>p, <1>a, <1>c, <1>s, <1>u, <1>n, <1>t, <1>x, <1>y, <1>z DEF Answers
<1>UeIdle. UeIdle'
  BY <1>p, <1>a, <1>c, <1>s, <1>u, <1>n, <1>t, <1>x, <1>y, <1>z DEF UeIdle
<1>UeConnecting. UeConnecting'
  BY <1>p, <1>a, <1>c, <1>s, <1>u, <1>n, <1>t, <1>x, <1>y, <1>z,  <1>x, Kinds,
     Single DEF UeConnecting, SettingUp
<1>UeMoving. UeMoving'
  BY <1>p, <1>a, <1>c, <1>s, <1>u, <1>n, <1>t, <1>x, <1>y, <1>z DEF UeMoving, Away
<1>UeConnected. UeConnected'
  BY <1>p, <1>a, <1>c, <1>s, <1>u, <1>n, <1>t, <1>x, <1>y, <1>z DEF UeConnected, Away
<1> QED BY <1>p, <1>a, <1>TypeOK, <1>Messages, <1>Queues, <1>Contexts, <1>Leavings, <1>OneSource,
           <1>Requests, <1>Acks, <1>Failures, <1>Releases, <1>Cancels, <1>Joinings, <1>Switchings,
           <1>Answers, <1>UeIdle, <1>UeConnecting, <1>UeMoving, <1>UeConnected DEF IInv, Good

\* The UE reports a reconfiguration that stayed in the cell, and the invariant
\* stays.
LEMMA ReconfigurationCompleted ==
    ASSUME Here, RecvReconfigurationCompleted, NEW g \in Gnb, NEW w \in Rnti, g = ue.cell,
           w = ue.rnti, St(g, w) = "CONNECTION_RECONFIGURATION"
    PROVE  IInv'
<1>p. /\ TypeOK /\ Messages /\ Queues /\ Contexts /\ Leavings /\ OneSource
      /\ Requests /\ Acks /\ Failures /\ Releases /\ Cancels
      /\ Joinings /\ Switchings /\ Answers
      /\ UeIdle /\ UeConnecting /\ UeMoving /\ UeConnected
      /\ fault = "none" /\ MaxRnti \in Nat /\ NoCell \notin Gnb
      /\ \A q \in Rnti : q \in Nat /\ q \in Id /\ q # 0
  BY HandoverAssumption DEF Here, Good, Rnti, Id
<1>d. /\ ul = <<"completed">> /\ dl = <<>> /\ ue.st = "CONNECTED_NORMALLY" /\ now = <<>>
           /\ ~Pend(g, w)
  BY UlMeets, Single, <1>p DEF RecvReconfigurationCompleted, Running, Here, Contexts, ContextFits
<1>a0. /\ ctx' = [ctx EXCEPT ![g][w] = Connected(@)]
       /\ ul' = Tail(ul) /\ dl' = dl
       /\ UNCHANGED <<last, teid, imsiRnti, s1, ue, x2, now, leavingLast, fault>>
  BY <1>d DEF RecvReconfigurationCompleted, ExpectsCompleted, Here, St, Reconfigures, Pend
<1>a. /\ dl' = <<>> /\ ul' = <<>> /\ dl = <<>> /\ ul = <<"completed">>
      /\ ue' = ue /\ now = <<>> /\ now' = <<>> /\ g = ue.cell /\ w = ue.rnti
           /\ ue.st = "CONNECTED_NORMALLY"
      /\ St(g, w) = "CONNECTION_RECONFIGURATION"
      /\ UNCHANGED <<last, teid, imsiRnti, s1, x2, leavingLast, fault>>
  BY <1>a0, <1>d, Single
<1>j. /\ ctx \in [Gnb -> [Rnti -> ContextType]]
      /\ ctx[g][w] \in ContextType
  BY <1>p DEF TypeOK
<1>k. PICK d \in ContextType : d = ctx[g][w]
  BY <1>j
<1>k1. PICK c : c = Connected(d)
  OBVIOUS
<1>k2. /\ c \in ContextType /\ c.st = "CONNECTED_NORMALLY" /\ c.timer = "none"
       /\ c.peer = d.peer /\ c.peerId = d.peerId /\ c.pend = FALSE
  BY <1>d, <1>k, <1>k1, ConnectedContext DEF Pend
<1>k3. Guarded(c)
  BY <1>k2 DEF Guarded
<1>b. ctx' = [ctx EXCEPT ![g][w] = Connected(@)]
  BY <1>a0
<1>e. Put(g, w, c)
  <2>1. c = Connected(ctx[g][w])
    BY <1>k, <1>k1
  <2> QED BY ONLY g \in Gnb, w \in Rnti, <1>j, <1>b, <2>1 DEF Put
<1>c. /\ ctx' \in [Gnb -> [Rnti -> ContextType]]
      /\ \A h \in Gnb, q \in Rnti : Guarded(ctx'[h][q])
      /\ St(g, w)' = "CONNECTED_NORMALLY" /\ Timer(g, w)' = "none" /\ Pend(g, w)' = FALSE
      /\ \A h \in Gnb, q \in Rnti :
            /\ h # g \/ q # w => /\ St(h, q)' = St(h, q) /\ Timer(h, q)' = Timer(h, q)
                                 /\ Pend(h, q)' = Pend(h, q)
            /\ Peer(h, q)' = Peer(h, q)
            /\ \A x, y : Linked(h, q, x, y)' <=> Linked(h, q, x, y)
  <2>1. c.peer = ctx[g][w].peer /\ c.peerId = ctx[g][w].peerId
    BY <1>k, <1>k2
  <2>2. c.pend = FALSE
    BY <1>k, <1>k2 DEF Pend
  <2>3. TypeOK
    BY <1>p
  <2>4. Changed(g, w, c)
    BY ONLY g \in Gnb, w \in Rnti, <1>k2, <1>k3, <1>e, <2>1, <2>3, ContextChanged
  <2> QED BY <1>k2, <2>2, <2>4 DEF Changed
<1>s. \A kind, from, to, old, new : Sent(kind, from, to, old, new)'
              <=> Sent(kind, from, to, old, new)
  BY <1>a, LinksSame
<1>u. /\ Idle' <=> Idle
      /\ \A h, q :
            /\ UeAt(h, q)' <=> UeAt(h, q)
            /\ On(h, q)' <=> On(h, q)
            /\ Home(h, q)' <=> Home(h, q)
            /\ Leaves(h, q)' <=> Leaves(h, q)
            /\ Released(h, q)' <=> Released(h, q)
  BY <1>a, UeSame
<1>t. /\ \A h \in Gnb : last[h] \in Nat /\ teid[h] \in Nat /\ imsiRnti[h] \in Nat
  BY <1>p DEF TypeOK
<1>n. \A h, q :
         /\ ~Released(h, q) /\ ~Released(h, q)' /\ ~Leaves(h, q) /\ ~Leaves(h, q)'
  BY <1>a DEF Released, Leaves
<1>x. St(g, w) = "CONNECTION_RECONFIGURATION" /\ ~Idle /\ ~Idle' /\ On(g, w) /\ UeAt(g, w)
              /\ Home(g, w) /\ w <= last[g]
  BY <1>a, <1>p, <1>u DEF Idle, On, UeAt, Home, UeIdle, Contexts, ContextFits
<1>TypeOK. TypeOK'
  BY <1>p, <1>a, <1>c, Single DEF TypeOK
<1>Messages. Messages'
  BY <1>p, <1>a, <1>u DEF Messages
<1>Queues. Queues'
  BY <1>p, <1>a, <1>c, <1>s, <1>u, <1>n, <1>t, <1>x DEF Queues
<1>Contexts. Contexts'
  <2> SUFFICES ASSUME NEW h \in Gnb, NEW q \in Rnti
               PROVE  teid'[h] <= last'[h] /\ imsiRnti'[h] <= last'[h] /\ ContextFits(h, q)'
    BY DEF Contexts
  <2>1. CASE h = g /\ q = w
    BY <1>p, <1>a, <1>c, <1>u, <1>x, <2>1 DEF Contexts, ContextFits, Attached, SettingUp
  <2>2. CASE h # g \/ q # w
    BY <1>p, <1>a, <1>c, <1>u, <2>2 DEF Contexts, ContextFits, Attached, SettingUp
  <2> QED BY <2>1, <2>2
<1>Leavings. Leavings'
  <2> SUFFICES ASSUME NEW h \in Gnb, NEW q \in Rnti, St(h, q)' = "HANDOVER_LEAVING"
               PROVE  \E x \in Gnb, y \in Rnti : LeavingTo(h, q, x, y)'
    BY DEF Leavings
  <2>1. St(h, q) = "HANDOVER_LEAVING" /\ (h # g \/ q # w)
    BY <1>c
  <2>2. PICK x \in Gnb, y \in Rnti : LeavingTo(h, q, x, y)
    BY <1>p, <2>1 DEF Leavings
  <2>3. Pending(h, q, x, y)'
    BY <2>2, <1>p, <1>a, <1>c, <1>s, <1>u, <1>x DEF LeavingTo, Pending, Switched
  <2>4. St(x, y)' \in {"NONE", "HANDOVER_JOINING"} \/ Home(x, y)'
    BY <2>2, <1>p, <1>a, <1>c, <1>s, <1>u, <1>x DEF LeavingTo
  <2>5. \/ Idle'
        \/ On(h, q)'
        \/ ue'.from = <<h, q>> /\ ue'.cell = x /\ ~ue'.left /\ (ue'.rnti = y \/ St(x, y)' = "NONE")
    BY <2>2, <1>p, <1>a, <1>c, <1>s, <1>u, <1>x DEF LeavingTo
  <2> QED BY <2>2, <2>3, <2>4, <2>5, <1>a, <1>c DEF LeavingTo
<1>OneSource. OneSource'
  <2> SUFFICES ASSUME NEW h \in Gnb, NEW q \in Rnti
               PROVE  NothingNew(h, q)
    BY <1>p, OneSourceStays
  <2> QED BY <1>p, <1>a, <1>c, <1>s, <1>u, <1>n, <1>t, <1>x DEF NothingNew, Source, Target
<1>Requests. Requests'
  <2> SUFFICES ASSUME NEW a \in Gnb, NEW b \in Gnb, NEW o \in Id, NEW m \in Id,
                      Sent("request", a, b, o, m)'
               PROVE  RequestMeets(a, b, o, m)'
    BY DEF Requests
  <2>1. Sent("request", a, b, o, m) /\ RequestMeets(a, b, o, m)
    BY <1>p, <1>a, <1>c, <1>s, <1>u, <1>n, <1>t, <1>x DEF Requests
  <2>2. a # b /\ o \in Rnti /\ o <= last'[a] /\ m = 0
    BY <2>1, <1>p, <1>a, <1>c, <1>s, <1>u, <1>n, <1>t, <1>x DEF RequestMeets
  <2>3. /\ St(a, o)' \in {"NONE", "HANDOVER_PREPARATION"}
        /\ St(a, o)' # "NONE" => Peer(a, o)' = b
    BY <2>1, <1>p, <1>a, <1>c, <1>s, <1>u, <1>n, <1>t, <1>x DEF RequestMeets
  <2>4. Idle' \/ (On(a, o)' /\ St(a, o)' = "HANDOVER_PREPARATION")
    BY <2>1, <1>p, <1>a, <1>c, <1>s, <1>u, <1>n, <1>t, <1>x DEF RequestMeets
  <2>5. s1' = <<>> /\ (leavingLast' => teid'[b] = 0)
    BY <2>1, <1>p, <1>a, <1>c, <1>s, <1>u, <1>n, <1>t, <1>x DEF RequestMeets
  <2>6. \A x, y \in Gnb, q, z \in Id :
           /\ ~Sent("ack", x, y, q, z)'
           /\ Sent("request", x, y, q, z)' => x = a /\ y = b /\ q = o
           /\ ~Sent("failure", x, a, o, z)'
    BY <2>1, <1>p, <1>a, <1>c, <1>s, <1>u, <1>n, <1>t, <1>x DEF RequestMeets
  <2>7. NoTarget(a, o)'
    BY <2>1, <1>p, <1>a, <1>c, <1>s, <1>u, <1>n, <1>t, <1>x DEF RequestMeets, NoTarget
  <2> QED BY <2>2, <2>3, <2>4, <2>5, <2>6, <2>7 DEF RequestMeets
<1>Acks. Acks'
  BY <1>p, <1>a, <1>c, <1>s, <1>u, <1>n, <1>t, <1>x DEF Acks, AckMeets
<1>Failures. Failures'
  <2> SUFFICES ASSUME NEW a \in Gnb, NEW b \in Gnb, NEW o \in Id, NEW m \in Id,
                      Sent("failure", a, b, o, m)'
               PROVE  FailureMeets(a, b, o, m)'
    BY DEF Failures
  <2>1. Sent("failure", a, b, o, m) /\ FailureMeets(a, b, o, m)
    BY <1>p, <1>a, <1>c, <1>s, <1>u, <1>n, <1>t, <1>x DEF Failures
  <2>2. a # b /\ o \in Rnti /\ o <= last'[b] /\ m = 0
    BY <2>1, <1>p, <1>a, <1>c, <1>s, <1>u, <1>n, <1>t, <1>x DEF FailureMeets
  <2>3. /\ St(b, o)' \in {"NONE", "HANDOVER_PREPARATION", "HANDOVER_LEAVING"}
        /\ St(b, o)' # "NONE" => Peer(b, o)' = a
    BY <2>1, <1>p, <1>a, <1>c, <1>s, <1>u, <1>n, <1>t, <1>x DEF FailureMeets
  <2>4. St(b, o)' = "HANDOVER_LEAVING" => \A z \in Rnti : Linked(b, o, a, z)' => St(a, z)' = "NONE"
    BY <2>1, <1>p, <1>a, <1>c, <1>s, <1>u, <1>n, <1>t, <1>x DEF FailureMeets
  <2>5. St(b, o)' = "HANDOVER_LEAVING"
                => \A x \in Gnb, z \in Id : ~Sent("context_release", x, b, o, z)'
    BY <2>1, <1>p, <1>a, <1>c, <1>s, <1>u, <1>n, <1>t, <1>x DEF FailureMeets
  <2>6. NoTarget(b, o)'
    BY <2>1, <1>p, <1>a, <1>c, <1>s, <1>u, <1>n, <1>t, <1>x DEF FailureMeets, NoTarget
  <2> QED BY <2>2, <2>3, <2>4, <2>5, <2>6 DEF FailureMeets
<1>Releases. Releases'
  BY <1>p, <1>a, <1>c, <1>s, <1>u, <1>n, <1>t, <1>x DEF Releases, ReleaseMeets
<1>Cancels. Cancels'
  BY <1>p, <1>a, <1>c, <1>s, <1>u, <1>n, <1>t, <1>x DEF Cancels, CancelMeets
<1>Joinings. Joinings'
  <2> SUFFICES ASSUME NEW h \in Gnb, NEW q \in Rnti, St(h, q)' = "HANDOVER_JOINING"
               PROVE  \E x \in Gnb, y \in Rnti : JoiningFrom(h, q, x, y)'
    BY DEF Joinings
  <2>1. St(h, q) = "HANDOVER_JOINING" /\ (h # g \/ q # w)
    BY <1>c
  <2>2. PICK x \in Gnb, y \in Rnti : JoiningFrom(h, q, x, y)
    BY <1>p, <2>1 DEF Joinings
  <2> QED BY <2>1, <2>2, <1>p, <1>a, <1>c, <1>s, <1>x DEF JoiningFrom
<1>Switchings. Switchings'
  <2> SUFFICES ASSUME NEW h \in Gnb, NEW q \in Rnti, St(h, q)' = "HANDOVER_PATH_SWITCH"
               PROVE  /\ Switched(h)' /\ imsiRnti'[h] = q
                      /\ \E x \in Gnb, y \in Rnti : SwitchingFrom(h, q, x, y)'
    BY DEF Switchings
  <2>1. St(h, q) = "HANDOVER_PATH_SWITCH" /\ (h # g \/ q # w)
    BY <1>c
  <2>2. PICK x \in Gnb, y \in Rnti : SwitchingFrom(h, q, x, y)
    BY <1>p, <2>1 DEF Switchings
  <2>3. Switched(h) /\ imsiRnti[h] = q
    BY <1>p, <2>1 DEF Switchings
  <2>4. SwitchingFrom(h, q, x, y)'
    BY <2>1, <2>2, <1>p, <1>a, <1>c, <1>x DEF SwitchingFrom
  <2> QED BY <2>3, <2>4, <1>p, <1>a DEF Switched
<1>Answers. Answers'
  BY <1>p, <1>a, <1>c, <1>s, <1>u, <1>n, <1>t, <1>x DEF Answers
<1>UeIdle. UeIdle'
  BY <1>p, <1>a, <1>c, <1>s, <1>u, <1>n, <1>t, <1>x DEF UeIdle
<1>UeConnecting. UeConnecting'
  BY <1>p, <1>a, <1>c, <1>s, <1>u, <1>n, <1>t, <1>x,  <1>x, Kinds, Single DEF UeConnecting,
     SettingUp
<1>UeMoving. UeMoving'
  BY <1>p, <1>a, <1>c, <1>s, <1>u, <1>n, <1>t, <1>x DEF UeMoving, Away
<1>UeConnected. UeConnected'
  BY <1>p, <1>a, <1>c, <1>s, <1>u, <1>n, <1>t, <1>x DEF UeConnected, Away
<1> QED BY <1>p, <1>a, <1>TypeOK, <1>Messages, <1>Queues, <1>Contexts, <1>Leavings, <1>OneSource,
           <1>Requests, <1>Acks, <1>Failures, <1>Releases, <1>Cancels, <1>Joinings, <1>Switchings,
           <1>Answers, <1>UeIdle, <1>UeConnecting, <1>UeMoving, <1>UeConnected DEF IInv, Good

\* The source asks a target, and the invariant stays.
LEMMA HandoverTriggered ==
    ASSUME Here, NEW g \in Gnb, NEW w \in Rnti, NEW t \in Gnb, TriggerHandover(g, w, t)
    PROVE  IInv'
<1>p. /\ TypeOK /\ Messages /\ Queues /\ Contexts /\ Leavings /\ OneSource
      /\ Requests /\ Acks /\ Failures /\ Releases /\ Cancels
      /\ Joinings /\ Switchings /\ Answers
      /\ UeIdle /\ UeConnecting /\ UeMoving /\ UeConnected
      /\ fault = "none" /\ MaxRnti \in Nat /\ NoCell \notin Gnb
      /\ \A q \in Rnti : q \in Nat /\ q \in Id /\ q # 0
  BY HandoverAssumption DEF Here, Good, Rnti, Id
<1>d. /\ now = <<>> /\ s1 = <<>> /\ t # g /\ St(g, w) = "CONNECTED_NORMALLY" /\ UeAt(g, w)
      /\ Settled /\ \A q \in Rnti : Timer(t, q) # "joining"
  BY DEF TriggerHandover, Running, Settled, St, Timer
<1>d1. /\ ue.st = "CONNECTED_NORMALLY" /\ ~ue.left /\ ue.cell = g /\ ue.rnti = w
       /\ UeAt(g, w) /\ On(g, w) /\ ~Idle
       /\ \A h \in Gnb, q \in Rnti : St(h, q) \in Attached => h = g /\ q = w
  BY <1>d, UeThere DEF Here, Attached
<1>z. \A kind, from, to, old, new : from \in Gnb /\ to \in Gnb => ~Sent(kind, from, to, old, new)
  BY <1>d, NothingSent
<1>a. /\ ue' = ue /\ dl' = dl /\ ul' = ul /\ now = <<>> /\ now' = <<>>
           /\ ue.st = "CONNECTED_NORMALLY"
      /\ St(g, w) = "CONNECTED_NORMALLY" /\ t # g /\ s1 = <<>> /\ s1' = <<>> /\ g = ue.cell
           /\ w = ue.rnti
      /\ UNCHANGED <<last, teid, imsiRnti, leavingLast, fault>>
  BY <1>d, <1>d1 DEF TriggerHandover, Here, ueVars
<1>d2. /\ dl = <<>> /\ ul = <<>>
  BY <1>p, <1>d, <1>d1 DEF UeConnected, Released
<1>g. ctx[g][w].timer = "none" /\ ctx[g][w].pend = FALSE
  <2>1. Guarded(ctx[g][w]) /\ ctx[g][w].pend \in BOOLEAN
    BY <1>p DEF TypeOK, ContextType
  <2>2. ~Pend(g, w) /\ ctx[g][w].st = "CONNECTED_NORMALLY"
    BY <1>p, <1>d DEF Contexts, ContextFits, St
  <2> QED BY <2>1, <2>2 DEF Guarded, Pend
<1>j. /\ ctx \in [Gnb -> [Rnti -> ContextType]]
      /\ ctx[g][w] \in ContextType
  BY <1>p DEF TypeOK
<1>k. PICK d \in ContextType : d = ctx[g][w]
  BY <1>j
<1>k1. PICK c : c = [d EXCEPT !.st = "HANDOVER_PREPARATION", !.peer = t]
  OBVIOUS
<1>k2. /\ c \in ContextType /\ c.st = "HANDOVER_PREPARATION" /\ c.timer = "none"
       /\ c.peer = t /\ c.peerId = d.peerId /\ c.pend = FALSE
  BY <1>p, <1>k, <1>k1, <1>g DEF ContextType
<1>k3. Guarded(c)
  BY <1>k2 DEF Guarded
<1>b. ctx' = [ctx EXCEPT ![g][w].st = "HANDOVER_PREPARATION", ![g][w].peer = t]
  BY DEF TriggerHandover
<1>e. Put(g, w, c)
  <2>1. c = [ctx[g][w] EXCEPT !.st = "HANDOVER_PREPARATION", !.peer = t]
    BY <1>k, <1>k1
  <2> QED BY ONLY g \in Gnb, w \in Rnti, <1>j, <1>b, <2>1 DEF Put
<1>c. /\ ctx' \in [Gnb -> [Rnti -> ContextType]]
      /\ \A h \in Gnb, q \in Rnti : Guarded(ctx'[h][q])
      /\ St(g, w)' = "HANDOVER_PREPARATION" /\ Timer(g, w)' = "none" /\ Pend(g, w)' = FALSE
      /\ Peer(g, w)' = t /\ Linked(g, w, t, d.peerId)'
      /\ \A x, y : Linked(g, w, x, y)' => x = t /\ y = d.peerId
      /\ \A h \in Gnb, q \in Rnti : h # g \/ q # w =>
            /\ St(h, q)' = St(h, q) /\ Peer(h, q)' = Peer(h, q)
            /\ Timer(h, q)' = Timer(h, q) /\ Pend(h, q)' = Pend(h, q)
            /\ \A x, y : Linked(h, q, x, y)' <=> Linked(h, q, x, y)
  <2>1. TypeOK
    BY <1>p
  <2>2. Replaced(g, w, c)
    BY ONLY g \in Gnb, w \in Rnti, <1>k2, <1>k3, <1>e, <2>1, ContextUpdated
  <2> QED BY <1>k2, <2>2 DEF Replaced, OthersStay
<1>m. /\ x2' \in [Gnb -> [Gnb -> Seq(Message)]] /\ Queues'
      /\ \A kind, from, to, old, new : from \in Gnb /\ to \in Gnb =>
            (Sent(kind, from, to, old, new)' <=>
                 \/ Sent(kind, from, to, old, new)
                 \/ kind = "request" /\ from = g /\ to = t /\ old = w /\ new = 0)
  <2>1. Msg("request", w, 0) \in Message
    BY <1>p DEF Msg, Message, Id
  <2>2. Fits("request", g, t, w)
    BY <1>z DEF Fits
  <2>3. Adds(g, t, Msg("request", w, 0))
    BY DEF TriggerHandover, Adds
  <2> QED BY <1>p, <2>1, <2>2, <2>3, MessageAdded
<1>s. \A kind, from, to, old, new : from \in Gnb /\ to \in Gnb =>
         (Sent(kind, from, to, old, new)' <=> kind = "request" /\ from = g /\ to = t /\ old = w
                 /\ new = 0)
  BY <1>m, <1>z
<1>u. /\ Idle' <=> Idle
      /\ \A h, q :
            /\ UeAt(h, q)' <=> UeAt(h, q)
            /\ On(h, q)' <=> On(h, q)
            /\ Home(h, q)' <=> Home(h, q)
            /\ Leaves(h, q)' <=> Leaves(h, q)
            /\ Released(h, q)' <=> Released(h, q)
  BY <1>a, UeSame
<1>t. /\ \A h \in Gnb : last[h] \in Nat /\ teid[h] \in Nat /\ imsiRnti[h] \in Nat
  BY <1>p DEF TypeOK
<1>n. \A h, q :
         /\ ~Released(h, q) /\ ~Released(h, q)' /\ ~Leaves(h, q) /\ ~Leaves(h, q)'
  BY <1>a DEF Released, Leaves
<1>x. Home(g, w) /\ w <= last[g] /\ ~Idle' /\ On(g, w) /\ UeAt(g, w) /\ ~Idle
  BY <1>a, <1>p, <1>u, <1>d1 DEF Home, Contexts, ContextFits
<1>y. \A h \in Gnb, q \in Rnti : /\ St(h, q) # "HANDOVER_LEAVING" /\ St(h, q) # "HANDOVER_PREPARATION"
                               /\ St(h, q) # "HANDOVER_PATH_SWITCH"
  <2>1. \A h \in Gnb, q \in Rnti : St(h, q) # "HANDOVER_PREPARATION"
                /\ St(h, q) # "HANDOVER_PATH_SWITCH"
    BY <1>d, <1>d1 DEF Attached
  <2>2. ASSUME NEW h \in Gnb, NEW q \in Rnti, St(h, q) = "HANDOVER_LEAVING" PROVE FALSE
    <3>1. PICK x \in Gnb, y \in Rnti : LeavingTo(h, q, x, y)
      BY <1>p, <2>2 DEF Leavings
    <3>2. Pending(h, q, x, y)
      BY <3>1 DEF LeavingTo
    <3>3. St(x, y) = "HANDOVER_JOINING" /\ (Home(h, q) \/ Home(x, y))
      BY <1>p, <1>a, <1>z, <3>2, <2>1 DEF Pending, Switched, Id, Rnti
    <3>4. \A i, j : Home(i, j) => i = g /\ j = w
      BY <1>a, <1>d, <1>n DEF Home, UeAt
    <3> QED BY <1>d, <2>2, <3>3, <3>4
  <2> QED BY <2>1, <2>2
<1>o. NoTarget(g, w)
  <2> SUFFICES ASSUME NEW h \in Gnb, NEW q \in Rnti, Linked(h, q, g, w),
                      St(h, q) \in {"HANDOVER_JOINING", "HANDOVER_PATH_SWITCH"}
               PROVE  FALSE
    BY DEF NoTarget
  <2>1. St(h, q) = "HANDOVER_JOINING"
    BY <1>y
  <2>2. PICK x \in Gnb, y \in Rnti : JoiningFrom(h, q, x, y)
    BY <1>p, <2>1 DEF Joinings
  <2>3. x = g /\ y = w
    BY <2>2, LinkedOnce DEF JoiningFrom
  <2> QED BY <1>d, <2>2, <2>3 DEF JoiningFrom
<1>v. leavingLast => teid[t] = 0
  <2> SUFFICES ASSUME leavingLast, teid[t] # 0 PROVE FALSE
    OBVIOUS
  <2>1. PICK v \in Rnti : v = teid[t]
    BY <1>p DEF TypeOK, Rnti
  <2>2. St(t, v) \in {"HANDOVER_JOINING", "HANDOVER_LEAVING"} \cup Attached
    BY <1>p, <2>1 DEF Contexts, ContextFits, Attached, SettingUp, TypeOK, ContextType, St
  <2>3. St(t, v) = "HANDOVER_JOINING"
    BY <1>d, <1>d1, <1>y, <2>2
  <2>4. PICK x \in Gnb, y \in Rnti : JoiningFrom(t, v, x, y)
    BY <1>p, <2>3 DEF Joinings
  <2> QED BY <1>d, <2>4 DEF JoiningFrom
<1>TypeOK. TypeOK'
  BY <1>p, <1>a, <1>c, <1>s, <1>u, <1>n, <1>t, <1>x DEF TypeOK
<1>Messages. Messages'
  BY <1>p, <1>a, <1>m, <1>u DEF Messages
<1>Queues. Queues'
  BY <1>m
<1>Contexts. Contexts'
  <2> SUFFICES ASSUME NEW h \in Gnb, NEW q \in Rnti
               PROVE  teid'[h] <= last'[h] /\ imsiRnti'[h] <= last'[h] /\ ContextFits(h, q)'
    BY DEF Contexts
  <2>1. CASE h = g /\ q = w
    BY <1>p, <1>a, <1>c, <1>u, <1>x, <2>1 DEF Contexts, ContextFits, Attached, SettingUp
  <2>2. CASE h # g \/ q # w
    BY <1>p, <1>a, <1>c, <1>u, <2>2 DEF Contexts, ContextFits, Attached, SettingUp
  <2> QED BY <2>1, <2>2
<1>Leavings. Leavings'
  BY <1>c, <1>y DEF Leavings
<1>OneSource. OneSource'
  <2>0. OneTarget
    BY <1>p DEF OneSource
  <2>1. OneTarget'
    <3> SUFFICES ASSUME NEW x \in Gnb, NEW y \in Gnb, NEW i \in Rnti, NEW v \in Rnti,
                        NEW k \in Gnb, NEW u \in Id, Target(x, i)', Target(y, v)',
                        Linked(x, i, k, u)', Linked(y, v, k, u)'
                 PROVE  x = y /\ i = v
      BY DEF OneTarget
    <3>1. Target(x, i) /\ Linked(x, i, k, u)
      BY <1>c DEF Target
    <3>2. Target(y, v) /\ Linked(y, v, k, u)
      BY <1>c DEF Target
    <3> QED BY <2>0, <3>1, <3>2 DEF OneTarget
  <2>2. \A x, y \in Gnb, i, v \in Rnti : Source(x, i)' /\ Source(y, v)' => x = y /\ i = v
    BY <1>p, <1>a, <1>c, <1>s, <1>u, <1>n, <1>t, <1>x, <1>y DEF OneSource, Source
  <2> QED BY <2>1, <2>2 DEF OneSource
<1>Requests. Requests'
  <2> SUFFICES ASSUME NEW a \in Gnb, NEW b \in Gnb, NEW o \in Id, NEW m \in Id,
                      Sent("request", a, b, o, m)'
               PROVE  RequestMeets(a, b, o, m)'
    BY DEF Requests
  <2>1. a = g /\ b = t /\ o = w /\ m = 0
    BY <1>s
  <2>2. NoTarget(g, w)'
    BY <1>o, <1>c DEF NoTarget
  <2>3. a # b /\ o \in Rnti /\ o <= last'[a] /\ m = 0
    BY <2>1, <1>a, <1>x
  <2>4. \A x, y \in Gnb, q, z \in Id :
           /\ ~Sent("ack", x, y, q, z)'
           /\ Sent("request", x, y, q, z)' => x = a /\ y = b /\ q = o
           /\ ~Sent("failure", x, a, o, z)'
    BY <2>1, <1>s
  <2>5. leavingLast' => teid'[b] = 0
    BY <2>1, <1>v, <1>a
  <2> QED BY <2>1, <2>2, <2>3, <2>4, <2>5, <1>a, <1>c, <1>u, <1>x DEF RequestMeets
<1>Acks. Acks'
  BY <1>s DEF Acks
<1>Failures. Failures'
  BY <1>s DEF Failures
<1>Releases. Releases'
  BY <1>s DEF Releases
<1>Cancels. Cancels'
  BY <1>s DEF Cancels
<1>Joinings. Joinings'
  <2> SUFFICES ASSUME NEW h \in Gnb, NEW q \in Rnti, St(h, q)' = "HANDOVER_JOINING"
               PROVE  \E x \in Gnb, y \in Rnti : JoiningFrom(h, q, x, y)'
    BY DEF Joinings
  <2>1. St(h, q) = "HANDOVER_JOINING" /\ (h # g \/ q # w)
    BY <1>c
  <2>2. PICK x \in Gnb, y \in Rnti : JoiningFrom(h, q, x, y)
    BY <1>p, <2>1 DEF Joinings
  <2>3. Linked(h, q, x, y) /\ (x # g \/ y # w)
    BY <2>1, <2>2, <1>o DEF JoiningFrom, NoTarget
  <2>4. St(x, y) \in {"NONE", "HANDOVER_LEAVING"}
    BY <2>2, <1>y DEF JoiningFrom
  <2> QED BY <2>1, <2>2, <2>3, <2>4, <1>a, <1>c DEF JoiningFrom
<1>Switchings. Switchings'
  BY <1>c, <1>y DEF Switchings
<1>Answers. Answers'
  BY <1>p, <1>a, <1>c, <1>s, <1>u, <1>n, <1>t, <1>x DEF Answers
<1>UeIdle. UeIdle'
  BY <1>p, <1>a, <1>c, <1>s, <1>u, <1>n, <1>t, <1>x DEF UeIdle
<1>UeConnecting. UeConnecting'
  BY <1>p, <1>a, <1>c, <1>s, <1>u, <1>n, <1>t, <1>x, Kinds, Single DEF UeConnecting, SettingUp
<1>UeMoving. UeMoving'
  BY <1>p, <1>a, <1>c, <1>s, <1>u, <1>n, <1>t, <1>x DEF UeMoving, Away
<1>UeConnected. UeConnected'
  BY <1>p, <1>a, <1>c, <1>s, <1>u, <1>n, <1>t, <1>x DEF UeConnected, Away
<1> QED BY <1>p, <1>a, <1>TypeOK, <1>Messages, <1>Queues, <1>Contexts, <1>Leavings, <1>OneSource,
           <1>Requests, <1>Acks, <1>Failures, <1>Releases, <1>Cancels, <1>Joinings, <1>Switchings,
           <1>Answers, <1>UeIdle, <1>UeConnecting, <1>UeMoving, <1>UeConnected DEF IInv, Good

\* The target refuses, and the invariant stays.
LEMMA HandoverRefused ==
    ASSUME Here, NEW s \in Gnb, NEW t \in Gnb, RefuseHandover(s, t)
    PROVE  IInv'
<1>p. /\ TypeOK /\ Messages /\ Queues /\ Contexts /\ Leavings /\ OneSource
      /\ Requests /\ Acks /\ Failures /\ Releases /\ Cancels
      /\ Joinings /\ Switchings /\ Answers
      /\ UeIdle /\ UeConnecting /\ UeMoving /\ UeConnected
      /\ fault = "none" /\ MaxRnti \in Nat /\ NoCell \notin Gnb
      /\ \A q \in Rnti : q \in Nat /\ q \in Id /\ q # 0
  BY HandoverAssumption DEF Here, Good, Rnti, Id
<1>d. /\ x2[s][t] # <<>> /\ Head(x2[s][t]).kind = "request" /\ now = <<>>
  BY DEF RefuseHandover, Arrives, Running
<1>k. PICK r \in Id, z \in Id : /\ Head(x2[s][t]) = Msg("request", r, z) /\ Head(x2[s][t]).old = r
                              /\ Sent("request", s, t, r, z)
  BY <1>p, <1>d, HeadSent
<1>r. RequestMeets(s, t, r, z) /\ s # t /\ r \in Rnti /\ r <= last[s]
  BY <1>p, <1>k DEF Requests, RequestMeets
<1>r1. /\ St(s, r) \in {"NONE", "HANDOVER_PREPARATION"}
       /\ St(s, r) # "NONE" => Peer(s, r) = t
       /\ NoTarget(s, r)
  BY <1>r DEF RequestMeets
<1>r2. /\ \A a, b \in Gnb, q, m \in Id :
             /\ ~Sent("ack", a, b, q, m)
             /\ Sent("request", a, b, q, m) => a = s /\ b = t /\ q = r
             /\ ~Sent("failure", a, s, r, m)
  BY <1>r DEF RequestMeets
<1>a. /\ ue' = ue /\ dl' = dl /\ ul' = ul /\ now = <<>> /\ now' = <<>>
      /\ UNCHANGED <<ctx, last, teid, imsiRnti, s1, leavingLast, fault>>
  BY <1>d DEF RefuseHandover, Here, ueVars, gnbVars
<1>m. /\ x2' \in [Gnb -> [Gnb -> Seq(Message)]] /\ Queues'
      /\ \A kind, from, to, old, new : from \in Gnb /\ to \in Gnb =>
            /\ Sent(kind, from, to, old, new)' =>
                  \/ Sent(kind, from, to, old, new)
                  \/ kind = "failure" /\ from = t /\ to = s /\ old = r /\ new = 0
            /\ Sent(kind, from, to, old, new) =>
                  \/ Sent(kind, from, to, old, new)'
                  \/ kind = "request" /\ from = s /\ to = t /\ old = r /\ new = z
      /\ Sent("failure", t, s, r, 0)'
      /\ \A q \in Id : ~Sent("request", s, t, r, q)'
  <2>1. Msg("failure", r, 0) \in Message
    BY <1>p DEF Msg, Message, Id
  <2>2. Fits("failure", t, s, r)
    BY <1>p, <1>r2 DEF Fits
  <2>3. Replies(s, t, Msg("failure", r, 0))
    BY <1>k DEF RefuseHandover, Replies
  <2>4. Messages /\ Queues
    BY <1>p
  <2>5. s # t
    BY <1>r
  <2> QED BY ONLY s \in Gnb, t \in Gnb, <1>d, <1>k, <2>1, <2>2, <2>3, <2>4, <2>5, MessageAnswered
<1>s. /\ \A from, to \in Gnb, old, new \in Id : ~Sent("request", from, to, old, new)'
      /\ \A kind, from, to, old, new : from \in Gnb /\ to \in Gnb
           /\ kind \in {"ack", "context_release", "cancel"} =>
            (Sent(kind, from, to, old, new)' <=> Sent(kind, from, to, old, new))
      /\ \A from, to, old, new : from \in Gnb /\ to \in Gnb =>
            (Sent("failure", from, to, old, new)' <=>
                 \/ Sent("failure", from, to, old, new)
                 \/ from = t /\ to = s /\ old = r /\ new = 0)
  <2>1. \A from, to \in Gnb, old, new \in Id : ~Sent("request", from, to, old, new)'
    <3> SUFFICES ASSUME NEW from \in Gnb, NEW to \in Gnb, NEW old \in Id, NEW new \in Id,
                        Sent("request", from, to, old, new)'
                 PROVE  FALSE
      OBVIOUS
    <3>1. Sent("request", from, to, old, new)
      BY <1>m
    <3>2. from = s /\ to = t /\ old = r
      BY <3>1, <1>r2
    <3> QED BY <3>2, <1>m
  <2>2. \A kind, from, to, old, new : from \in Gnb /\ to \in Gnb
             /\ kind \in {"ack", "context_release", "cancel"} =>
              (Sent(kind, from, to, old, new)' <=> Sent(kind, from, to, old, new))
    BY <1>m
  <2>3. \A from, to, old, new : from \in Gnb /\ to \in Gnb =>
              (Sent("failure", from, to, old, new)' <=>
                   \/ Sent("failure", from, to, old, new)
                   \/ from = t /\ to = s /\ old = r /\ new = 0)
    BY <1>m
  <2> QED BY ONLY <2>1, <2>2, <2>3
<1>c. \A h, q :
         /\ St(h, q)' = St(h, q) /\ Peer(h, q)' = Peer(h, q)
         /\ Timer(h, q)' = Timer(h, q) /\ Pend(h, q)' = Pend(h, q)
         /\ \A x, y : Linked(h, q, x, y)' <=> Linked(h, q, x, y)
  BY <1>a, ContextsSame
<1>u. /\ Idle' <=> Idle
      /\ \A h, q :
            /\ UeAt(h, q)' <=> UeAt(h, q)
            /\ On(h, q)' <=> On(h, q)
            /\ Home(h, q)' <=> Home(h, q)
            /\ Leaves(h, q)' <=> Leaves(h, q)
            /\ Released(h, q)' <=> Released(h, q)
  BY <1>a, UeSame
<1>t. /\ \A h \in Gnb : last[h] \in Nat /\ teid[h] \in Nat /\ imsiRnti[h] \in Nat
  BY <1>p DEF TypeOK
<1>n. \A h, q :
         /\ ~Released(h, q) /\ ~Released(h, q)' /\ ~Leaves(h, q) /\ ~Leaves(h, q)'
  BY <1>a DEF Released, Leaves
<1>TypeOK. TypeOK'
  BY <1>p, <1>a DEF TypeOK
<1>Messages. Messages'
  BY <1>p, <1>a, <1>m, <1>u DEF Messages
<1>Queues. Queues'
  BY <1>m
<1>Contexts. Contexts'
  BY <1>p, <1>a, <1>c, <1>s, <1>u, <1>n DEF Contexts, ContextFits, Attached, SettingUp
<1>Leavings. Leavings'
  <2> SUFFICES ASSUME NEW h \in Gnb, NEW q \in Rnti, St(h, q)' = "HANDOVER_LEAVING"
               PROVE  \E x \in Gnb, y \in Rnti : LeavingTo(h, q, x, y)'
    BY DEF Leavings
  <2>1. St(h, q) = "HANDOVER_LEAVING" 
    BY <1>c
  <2>2. PICK x \in Gnb, y \in Rnti : LeavingTo(h, q, x, y)
    BY <1>p, <2>1 DEF Leavings
  <2>3. Pending(h, q, x, y)'
    BY <2>2, <1>p, <1>a, <1>c, <1>s, <1>u DEF LeavingTo, Pending, Switched
  <2>4. St(x, y)' \in {"NONE", "HANDOVER_JOINING"} \/ Home(x, y)'
    BY <2>2, <1>p, <1>a, <1>c, <1>s, <1>u DEF LeavingTo
  <2>5. \/ Idle'
        \/ On(h, q)'
        \/ ue'.from = <<h, q>> /\ ue'.cell = x /\ ~ue'.left /\ (ue'.rnti = y \/ St(x, y)' = "NONE")
    BY <2>2, <1>p, <1>a, <1>c, <1>s, <1>u DEF LeavingTo
  <2> QED BY <2>2, <2>3, <2>4, <2>5, <1>a, <1>c DEF LeavingTo
<1>OneSource. OneSource'
  <2> SUFFICES ASSUME NEW h \in Gnb, NEW q \in Rnti
               PROVE  NothingNew(h, q)
    BY <1>p, OneSourceStays
  <2> QED BY <1>p, <1>a, <1>c, <1>s, <1>u, <1>n DEF NothingNew, Source, Target
<1>Requests. Requests'
  BY <1>s DEF Requests
<1>Acks. Acks'
  BY <1>p, <1>a, <1>c, <1>s, <1>u, <1>n DEF Acks, AckMeets
<1>Failures. Failures'
  <2> SUFFICES ASSUME NEW a \in Gnb, NEW b \in Gnb, NEW o \in Id, NEW m \in Id,
                      Sent("failure", a, b, o, m)'
               PROVE  FailureMeets(a, b, o, m)'
    BY DEF Failures
  <2>1. CASE a = t /\ b = s /\ o = r /\ m = 0
    <3>1. NoTarget(b, o)'
      BY <2>1, <1>r1, <1>c DEF NoTarget
    <3> QED BY <2>1, <3>1, <1>a, <1>c, <1>r, <1>r1 DEF FailureMeets
  <2>2. CASE ~(a = t /\ b = s /\ o = r /\ m = 0)
    <3>1. FailureMeets(a, b, o, m)
      BY <2>2, <1>p, <1>s DEF Failures
    <3>2. NoTarget(b, o)'
      BY <3>1, <1>c DEF NoTarget, FailureMeets
    <3> QED BY <3>1, <3>2, <1>p, <1>a, <1>c, <1>s DEF FailureMeets
  <2> QED BY <2>1, <2>2
<1>Releases. Releases'
  BY <1>p, <1>a, <1>c, <1>s, <1>u, <1>n DEF Releases, ReleaseMeets
<1>Cancels. Cancels'
  BY <1>p, <1>a, <1>c, <1>s, <1>u, <1>n DEF Cancels, CancelMeets
<1>Joinings. Joinings'
  BY <1>p, <1>a, <1>c, <1>s, <1>u, <1>n DEF Joinings, JoiningFrom
<1>Switchings. Switchings'
  BY <1>p, <1>a, <1>c, <1>s, <1>u, <1>n DEF Switchings, SwitchingFrom, Switched
<1>Answers. Answers'
  BY <1>p, <1>a, <1>c, <1>s, <1>u, <1>n DEF Answers
<1>UeIdle. UeIdle'
  BY <1>p, <1>a, <1>c, <1>s, <1>u, <1>n DEF UeIdle
<1>UeConnecting. UeConnecting'
  BY <1>p, <1>a, <1>c, <1>s, <1>u, <1>n DEF UeConnecting, SettingUp
<1>UeMoving. UeMoving'
  BY <1>p, <1>a, <1>c, <1>s, <1>u, <1>n DEF UeMoving, Away
<1>UeConnected. UeConnected'
  BY <1>p, <1>a, <1>c, <1>s, <1>u, <1>n, Kinds DEF UeConnected, Away
<1> QED BY <1>p, <1>a, <1>TypeOK, <1>Messages, <1>Queues, <1>Contexts, <1>Leavings, <1>OneSource,
           <1>Requests, <1>Acks, <1>Failures, <1>Releases, <1>Cancels, <1>Joinings, <1>Switchings,
           <1>Answers, <1>UeIdle, <1>UeConnecting, <1>UeMoving, <1>UeConnected DEF IInv, Good

\* The target admits the UE in a new context, and its tunnel is free, and the
\* invariant stays.
LEMMA HandoverAdmitted ==
    ASSUME Here, NEW s \in Gnb, NEW t \in Gnb, AdmitHandover(s, t), teid[t] = 0
    PROVE  IInv'
<1>p. /\ TypeOK /\ Messages /\ Queues /\ Contexts /\ Leavings /\ OneSource
      /\ Requests /\ Acks /\ Failures /\ Releases /\ Cancels
      /\ Joinings /\ Switchings /\ Answers
      /\ UeIdle /\ UeConnecting /\ UeMoving /\ UeConnected
      /\ fault = "none" /\ MaxRnti \in Nat /\ NoCell \notin Gnb
      /\ \A q \in Rnti : q \in Nat /\ q \in Id /\ q # 0
  BY HandoverAssumption DEF Here, Good, Rnti, Id
<1>d. /\ x2[s][t] # <<>> /\ Head(x2[s][t]).kind = "request" /\ now = <<>> /\ last[t] < MaxRnti
  BY DEF AdmitHandover, Arrives, Running
<1>h0. PICK r \in Id, z \in Id : /\ Head(x2[s][t]) = Msg("request", r, z) /\ Head(x2[s][t]).old = r
                              /\ Sent("request", s, t, r, z)
  BY <1>p, <1>d, HeadSent
<1>r. RequestMeets(s, t, r, z) /\ s # t /\ r \in Rnti /\ r <= last[s]
  BY <1>p, <1>h0 DEF Requests, RequestMeets
<1>r1. /\ St(s, r) \in {"NONE", "HANDOVER_PREPARATION"} /\ (St(s, r) # "NONE" => Peer(s, r) = t)
       /\ Idle \/ (On(s, r) /\ St(s, r) = "HANDOVER_PREPARATION")
       /\ s1 = <<>>
  BY <1>r DEF RequestMeets
<1>r2. /\ \A a, b \in Gnb, q, m \in Id :
             /\ ~Sent("ack", a, b, q, m)
             /\ Sent("request", a, b, q, m) => a = s /\ b = t /\ q = r
             /\ ~Sent("failure", a, s, r, m)
  BY <1>r DEF RequestMeets
<1>g. PICK n \in Rnti : n = last[t] + 1
  BY <1>p, <1>d DEF Rnti, TypeOK
<1>b0. last \in [Gnb -> 0 .. MaxRnti] /\ teid \in [Gnb -> 0 .. MaxRnti]
               /\ imsiRnti \in [Gnb -> 0 .. MaxRnti]
  BY <1>p DEF TypeOK
<1>a0. /\ ctx' = [ctx EXCEPT ![t][n] = [st |-> "HANDOVER_JOINING", peer |-> s, peerId |-> r,
                                             timer |-> "joining", pend |-> TRUE]]
       /\ last' = [last EXCEPT ![t] = n] /\ teid' = [teid EXCEPT ![t] = n]
       /\ x2' = Answer(s, t, Msg("ack", r, n))
       /\ UNCHANGED <<imsiRnti, ue, dl, ul, s1, now, leavingLast, fault>>
  BY <1>h0, <1>g DEF AdmitHandover, Here, ueVars
<1>a. /\ ue' = ue /\ dl' = dl /\ ul' = ul /\ now = <<>> /\ now' = <<>>
      /\ UNCHANGED <<imsiRnti, s1, leavingLast, fault>>
  BY <1>d, <1>a0
<1>f0. last[t] \in Nat /\ n = last[t] + 1 /\ n \in Nat /\ n \in 0 .. MaxRnti /\ ~(n <= last[t])
               /\ last[t] <= n
  BY <1>p, <1>g DEF TypeOK, Rnti
<1>f. /\ \A h \in Gnb : h # t => last'[h] = last[h] /\ teid'[h] = teid[h]
      /\ last'[t] = n /\ teid'[t] = n
      /\ last' \in [Gnb -> 0 .. MaxRnti] /\ teid' \in [Gnb -> 0 .. MaxRnti]
  BY ONLY <1>a0, <1>f0, <1>b0, t \in Gnb
<1>g1. St(t, n) = "NONE" /\ \A h \in Gnb, q \in Rnti : q <= last[h] => h # t \/ q # n
  <2>1. St(t, n) # "NONE" => n <= last[t]
    BY <1>p DEF Contexts, ContextFits
  <2> QED BY <1>f0, <2>1
<1>g2. \A h \in Gnb : last[h] \in Nat /\ (\A q \in Nat : q <= last[h] => q <= last'[h])
  <2>1. \A h \in Gnb : last[h] \in Nat
    BY <1>b0
  <2>2. \A q \in Nat : q <= last[t] => q <= n
    BY ONLY <1>f0
  <2> QED BY <2>1, <2>2, <1>f
<1>j. /\ ctx \in [Gnb -> [Rnti -> ContextType]]
      /\ ctx[t][n] \in ContextType
  BY <1>p DEF TypeOK
<1>k. PICK d \in ContextType : d = ctx[t][n]
  BY <1>j
<1>k1. PICK c : c = [st |-> "HANDOVER_JOINING", peer |-> s, peerId |-> r, timer |-> "joining", pend |-> TRUE]
  OBVIOUS
<1>k2. /\ c \in ContextType /\ c.st = "HANDOVER_JOINING" /\ c.timer = "joining"
       /\ c.peer = s /\ c.peerId = r /\ c.pend = TRUE
  BY <1>p, <1>k, <1>k1 DEF ContextType, Id
<1>k3. Guarded(c)
  BY <1>k2 DEF Guarded
<1>b. ctx' = [ctx EXCEPT ![t][n] = [st |-> "HANDOVER_JOINING", peer |-> s, peerId |-> r, timer |-> "joining", pend |-> TRUE]]
  BY <1>a0
<1>e. Put(t, n, c)
  <2>1. c = [st |-> "HANDOVER_JOINING", peer |-> s, peerId |-> r, timer |-> "joining", pend |-> TRUE]
    BY <1>k, <1>k1
  <2> QED BY ONLY t \in Gnb, n \in Rnti, <1>j, <1>b, <2>1 DEF Put
<1>c. /\ ctx' \in [Gnb -> [Rnti -> ContextType]]
      /\ \A h \in Gnb, q \in Rnti : Guarded(ctx'[h][q])
      /\ St(t, n)' = "HANDOVER_JOINING" /\ Timer(t, n)' = "joining" /\ Pend(t, n)' = TRUE
      /\ Peer(t, n)' = s /\ Linked(t, n, s, r)'
      /\ \A x, y : Linked(t, n, x, y)' => x = s /\ y = r
      /\ \A h \in Gnb, q \in Rnti : h # t \/ q # n =>
            /\ St(h, q)' = St(h, q) /\ Peer(h, q)' = Peer(h, q)
            /\ Timer(h, q)' = Timer(h, q) /\ Pend(h, q)' = Pend(h, q)
            /\ \A x, y : Linked(h, q, x, y)' <=> Linked(h, q, x, y)
  <2>1. TypeOK
    BY <1>p
  <2>2. Replaced(t, n, c)
    BY ONLY t \in Gnb, n \in Rnti, <1>k2, <1>k3, <1>e, <2>1, ContextUpdated
  <2> QED BY <1>k2, <2>2 DEF Replaced, OthersStay
<1>m. /\ x2' \in [Gnb -> [Gnb -> Seq(Message)]] /\ Queues'
      /\ \A kind, from, to, old, new : from \in Gnb /\ to \in Gnb =>
            /\ Sent(kind, from, to, old, new)' =>
                  \/ Sent(kind, from, to, old, new)
                  \/ kind = "ack" /\ from = t /\ to = s /\ old = r /\ new = n
            /\ Sent(kind, from, to, old, new) =>
                  \/ Sent(kind, from, to, old, new)'
                  \/ kind = "request" /\ from = s /\ to = t /\ old = r /\ new = z
      /\ Sent("ack", t, s, r, n)'
      /\ \A q \in Id : ~Sent("request", s, t, r, q)'
  <2>1. Msg("ack", r, n) \in Message
    BY <1>p DEF Msg, Message, Id
  <2>2. Fits("ack", t, s, r)
    BY <1>p, <1>r2 DEF Fits
  <2>3. Replies(s, t, Msg("ack", r, n))
    BY <1>a0 DEF Replies
  <2>4. Messages /\ Queues
    BY <1>p
  <2>5. s # t
    BY <1>r
  <2> QED BY ONLY s \in Gnb, t \in Gnb, <1>d, <1>h0, <2>1, <2>2, <2>3, <2>4, <2>5, MessageAnswered
<1>s. /\ \A from, to \in Gnb, old, new \in Id : ~Sent("request", from, to, old, new)'
      /\ \A kind, from, to, old, new : from \in Gnb /\ to \in Gnb
           /\ kind \in {"failure", "context_release", "cancel"} =>
            (Sent(kind, from, to, old, new)' <=> Sent(kind, from, to, old, new))
      /\ \A from, to \in Gnb, old, new \in Id :
            (Sent("ack", from, to, old, new)' <=> from = t /\ to = s /\ old = r /\ new = n)
  <2>1. \A from, to \in Gnb, old, new \in Id : ~Sent("request", from, to, old, new)'
    <3> SUFFICES ASSUME NEW from \in Gnb, NEW to \in Gnb, NEW old \in Id, NEW new \in Id,
                        Sent("request", from, to, old, new)'
                 PROVE  FALSE
      OBVIOUS
    <3>1. Sent("request", from, to, old, new)
      BY <1>m
    <3>2. from = s /\ to = t /\ old = r
      BY <3>1, <1>r2
    <3> QED BY <3>2, <1>m
  <2>2. \A from, to \in Gnb, old, new \in Id :
           (Sent("ack", from, to, old, new)' <=> from = t /\ to = s /\ old = r /\ new = n)
    BY <1>m, <1>r2
  <2> QED BY <1>m, <2>1, <2>2
<1>u. /\ Idle' <=> Idle
      /\ \A h, q :
            /\ UeAt(h, q)' <=> UeAt(h, q)
            /\ On(h, q)' <=> On(h, q)
            /\ Home(h, q)' <=> Home(h, q)
            /\ Leaves(h, q)' <=> Leaves(h, q)
            /\ Released(h, q)' <=> Released(h, q)
  BY <1>a, UeSame
<1>n. \A h, q :
         /\ ~Released(h, q) /\ ~Released(h, q)' /\ ~Leaves(h, q) /\ ~Leaves(h, q)'
  BY <1>a DEF Released, Leaves
<1>o. /\ \A h \in Gnb, q \in Rnti : q <= last[h] =>
            /\ q <= last'[h] /\ (h # t \/ q # n)
            /\ St(h, q)' = St(h, q) /\ Peer(h, q)' = Peer(h, q)
            /\ \A x, y : Linked(h, q, x, y)' <=> Linked(h, q, x, y)
  <2>1. \A h \in Gnb, q \in Rnti : q <= last[h] => q <= last'[h] /\ (h # t \/ q # n)
    BY <1>p, <1>g1, <1>g2
  <2> QED BY <1>c, <2>1
<1>x0. ~Idle => ue.cell \in Gnb /\ ue.rnti <= last[ue.cell]
  BY <1>p DEF UeIdle
<1>w. PICK e, w : e = ue.cell /\ w = ue.rnti
  OBVIOUS
<1>x. /\ e = ue.cell /\ w = ue.rnti /\ e = ue'.cell /\ w = ue'.rnti
      /\ ~Idle => e \in Gnb /\ w <= last'[e]
      /\ ~Idle /\ w \in Rnti => St(e, w)' = St(e, w)
      /\ ~Idle /\ w \in Rnti => \A x, y : Linked(e, w, x, y)' <=> Linked(e, w, x, y)
  <2>1. ue.rnti \in Nat
    BY <1>p DEF TypeOK, UeType
  <2> QED BY <1>a, <1>w, <1>x0, <1>o, <1>g2, <2>1
<1>tt. NoTarget(s, r) /\ \A h \in Gnb, q \in Rnti : Target(h, q) => ~Linked(h, q, s, r)
  <2>1. NoTarget(s, r)
    BY <1>r DEF RequestMeets
  <2> QED BY <2>1 DEF NoTarget, Target
<1>v. \A h, x \in Gnb, q, y \in Rnti :
         St(h, q) = "HANDOVER_LEAVING" /\ Linked(h, q, x, y) => y <= last[x]
  BY <1>p, LinkedOnce DEF Leavings, LeavingTo
<1>TypeOK. TypeOK'
  BY <1>p, <1>a, <1>c, <1>f DEF TypeOK
<1>Messages. Messages'
  BY <1>p, <1>a, <1>m, <1>u DEF Messages
<1>Queues. Queues'
  BY <1>m
<1>Contexts. Contexts'
  <2> SUFFICES ASSUME NEW h \in Gnb, NEW q \in Rnti
               PROVE  teid'[h] <= last'[h] /\ imsiRnti'[h] <= last'[h] /\ ContextFits(h, q)'
    BY DEF Contexts
  <2>1. teid'[h] <= last'[h] /\ imsiRnti'[h] <= last'[h]
    <3>1. imsiRnti[h] <= last[h] /\ imsiRnti[h] \in Nat /\ teid[h] <= last[h] /\ teid[h] \in Nat
      BY <1>p, <1>b0 DEF Contexts, ContextFits
    <3>2. imsiRnti'[h] <= last'[h]
      BY <3>1, <1>a, <1>g2
    <3>3. h # t => teid'[h] <= last'[h]
      BY <3>1, <1>f
    <3>4. n <= n
      BY <1>f0
    <3> QED BY <3>2, <3>3, <3>4, <1>f
  <2>2. St(h, q)' # "NONE" => q <= last'[h]
    <3>1. St(h, q) # "NONE" => q <= last[h]
      BY <1>p DEF Contexts, ContextFits
    <3>2. n <= n
      BY <1>f0
    <3> QED BY <1>c, <1>o, <1>f, <3>1, <3>2
  <2>3. teid'[h] = q => St(h, q)' \notin SettingUp \cup {"NONE", "ATTACH_REQUEST"}
    <3>1. h # t => teid[h] = teid'[h]
      BY <1>f
    <3> QED BY <1>p, <1>c, <1>f, <3>1 DEF Contexts, ContextFits, SettingUp
  <2> QED BY <2>1, <2>2, <2>3, <1>p, <1>c, <1>u DEF Contexts, ContextFits, Attached
<1>Leavings. Leavings'
  <2> SUFFICES ASSUME NEW h \in Gnb, NEW q \in Rnti, St(h, q)' = "HANDOVER_LEAVING"
               PROVE  \E x \in Gnb, y \in Rnti : LeavingTo(h, q, x, y)'
    BY DEF Leavings
  <2>1. St(h, q) = "HANDOVER_LEAVING" /\ (h # t \/ q # n)
    BY <1>c
  <2>2. PICK x \in Gnb, y \in Rnti : LeavingTo(h, q, x, y)
    BY <1>p, <2>1 DEF Leavings
  <2>3. y <= last[x] /\ y <= last'[x] /\ (x # t \/ y # n)
    BY <2>2, <1>o DEF LeavingTo
  <2>4. Pending(h, q, x, y)'
    BY <2>1, <2>2, <2>3, <1>p, <1>a, <1>c, <1>s, <1>u DEF LeavingTo, Pending, Switched
  <2> QED BY <2>1, <2>2, <2>3, <2>4, <1>a, <1>c, <1>u DEF LeavingTo
<1>OneSource. OneSource'
  <2>0. OneTarget
    BY <1>p DEF OneSource
  <2>1. OneTarget'
    <3> SUFFICES ASSUME NEW x \in Gnb, NEW y \in Gnb, NEW i \in Rnti, NEW v \in Rnti,
                        NEW k \in Gnb, NEW u \in Id, Target(x, i)', Target(y, v)',
                        Linked(x, i, k, u)', Linked(y, v, k, u)'
                 PROVE  x = y /\ i = v
      BY DEF OneTarget
    <3> QED BY <2>0, <1>c, <1>tt DEF OneTarget, Target
  <2>2. \A x, y \in Gnb, i, v \in Rnti : Source(x, i)' /\ Source(y, v)' => x = y /\ i = v
    BY <1>p, <1>a, <1>c, <1>s, <1>u, <1>n, <1>f, <1>o DEF OneSource, Source
  <2> QED BY <2>1, <2>2 DEF OneSource
<1>Requests. Requests'
  BY <1>s DEF Requests
<1>Acks. Acks'
  <2>1. AckMeets(t, s, r, n)'
    <3>1. \A x, y \in Gnb, q, z2 \in Id : Sent("ack", x, y, q, z2)' => x = t /\ y = s /\ q = r
                  /\ z2 = n
      BY <1>s
    <3>2. r <= last'[s] /\ n <= last'[t] /\ St(s, r)' = St(s, r) /\ Peer(s, r)' = Peer(s, r)
      BY <1>r, <1>o, <1>f, <1>g1
    <3> QED BY <3>1, <3>2, <1>r, <1>r1, <1>c, <1>u DEF AckMeets
  <2> QED BY <2>1, <1>s DEF Acks
<1>Failures. Failures'
  <2> SUFFICES ASSUME NEW a \in Gnb, NEW b \in Gnb, NEW o \in Id, NEW m \in Id,
                      Sent("failure", a, b, o, m)'
               PROVE  FailureMeets(a, b, o, m)'
    BY DEF Failures
  <2>1. FailureMeets(a, b, o, m) /\ o \in Rnti /\ o <= last[b] /\ NoTarget(b, o) /\ (b # s \/ o # r)
    BY <1>p, <1>s, <1>r2 DEF Failures, FailureMeets
  <2>2. NoTarget(b, o)'
    BY <2>1, <1>c DEF NoTarget
  <2>3. St(b, o)' = "HANDOVER_LEAVING" => \A z1 \in Rnti : Linked(b, o, a, z1)'
                => St(a, z1)' = "NONE"
    BY <2>1, <1>o, <1>v DEF FailureMeets
  <2>4. St(b, o)' = "HANDOVER_LEAVING"
                => \A x \in Gnb, z1 \in Id : ~Sent("context_release", x, b, o, z1)'
    BY <2>1, <1>p, <1>s, <1>o DEF FailureMeets
  <2>5. o <= last'[b] /\ St(b, o)' = St(b, o) /\ Peer(b, o)' = Peer(b, o)
    BY <2>1, <1>o
  <2> QED BY <2>1, <2>2, <2>3, <2>4, <2>5 DEF FailureMeets
<1>Releases. Releases'
  BY <1>p, <1>a, <1>c, <1>s, <1>u, <1>n, <1>f, <1>o DEF Releases, ReleaseMeets
<1>Cancels. Cancels'
  BY <1>p, <1>a, <1>c, <1>s, <1>u, <1>n, <1>f, <1>o DEF Cancels, CancelMeets
<1>Joinings. Joinings'
  <2> SUFFICES ASSUME NEW h \in Gnb, NEW q \in Rnti, St(h, q)' = "HANDOVER_JOINING"
               PROVE  \E x \in Gnb, y \in Rnti : JoiningFrom(h, q, x, y)'
    BY DEF Joinings
  <2>1. CASE h = t /\ q = n
    <3>1. JoiningFrom(t, n, s, r)'
      BY <1>c, <1>m, <1>r, <1>r1, <1>o DEF JoiningFrom
    <3> QED BY <2>1, <3>1, <1>r
  <2>2. CASE h # t \/ q # n
    <3>1. PICK x \in Gnb, y \in Rnti : JoiningFrom(h, q, x, y)
      BY <1>p, <1>c, <2>2 DEF Joinings
    <3>2. St(x, y) # "HANDOVER_PREPARATION"
      BY <3>1, <1>r2, <1>p DEF JoiningFrom
    <3> QED BY <3>1, <3>2, <2>2, <1>a, <1>c, <1>o DEF JoiningFrom
  <2> QED BY <2>1, <2>2
<1>Switchings. Switchings'
  <2> SUFFICES ASSUME NEW h \in Gnb, NEW q \in Rnti, St(h, q)' = "HANDOVER_PATH_SWITCH"
               PROVE  FALSE
    BY DEF Switchings
  <2> QED BY <1>p, <1>c, <1>r1 DEF Switchings, Switched
<1>Answers. Answers'
  BY <1>a, <1>r1 DEF Answers
<1>UeIdle. UeIdle'
  <2>1. CASE Idle
    BY <1>p, <1>a, <1>u, <1>n, <2>1 DEF UeIdle, Idle
  <2>2. CASE ~Idle
    BY <1>p, <1>a, <1>u, <1>n, <1>x, <2>2 DEF UeIdle
  <2> QED BY <2>1, <2>2
<1>UeConnecting. UeConnecting'
  BY <1>p, <1>a, <1>x DEF UeConnecting, SettingUp, Idle
<1>UeMoving. UeMoving'
  <2>1. ue.st = "CONNECTED_HANDOVER" => Away'
    BY <1>p, <1>a, <1>n, <1>o, <1>c, <1>g1 DEF UeMoving, Away
  <2> QED BY <1>p, <1>a, <1>x, <2>1 DEF UeMoving, Idle
<1>UeConnected. UeConnected'
  <2>1. Away => Away'
    BY <1>p, <1>a, <1>n, <1>o, <1>c, <1>g1 DEF Away
  <2> QED BY <1>p, <1>a, <1>n, <1>x, <2>1, Kinds DEF UeConnected, Idle
<1> QED BY <1>p, <1>a, <1>TypeOK, <1>Messages, <1>Queues, <1>Contexts, <1>Leavings, <1>OneSource,
           <1>Requests, <1>Acks, <1>Failures, <1>Releases, <1>Cancels, <1>Joinings, <1>Switchings,
           <1>Answers, <1>UeIdle, <1>UeConnecting, <1>UeMoving, <1>UeConnected DEF IInv, Good

\* The source learns that the target admits the UE, and the invariant stays.
LEMMA HandoverAccepted ==
    ASSUME Here, NEW t \in Gnb, NEW g \in Gnb, RecvHandoverRequestAck(t, g), NEW w \in Rnti,
           w = Head(x2[t][g]).old, St(g, w) # "NONE"
    PROVE  IInv'
<1>p. /\ TypeOK /\ Messages /\ Queues /\ Contexts /\ Leavings /\ OneSource
      /\ Requests /\ Acks /\ Failures /\ Releases /\ Cancels
      /\ Joinings /\ Switchings /\ Answers
      /\ UeIdle /\ UeConnecting /\ UeMoving /\ UeConnected
      /\ fault = "none" /\ MaxRnti \in Nat /\ NoCell \notin Gnb
      /\ \A q \in Rnti : q \in Nat /\ q \in Id /\ q # 0
  BY HandoverAssumption DEF Here, Good, Rnti, Id
<1>d0. Arrives(t, g, "ack") /\ Exists(g, w)
  BY DEF RecvHandoverRequestAck, Exists, St
<1>d. /\ x2[t][g] # <<>> /\ Head(x2[t][g]).kind = "ack" /\ now = <<>> /\ Exists(g, w)
  BY <1>d0 DEF Arrives, Running
<1>h0. PICK n \in Id : Head(x2[t][g]) = Msg("ack", w, n) /\ Head(x2[t][g]).new = n
               /\ Sent("ack", t, g, w, n)
  BY <1>p, <1>d, HeadSent
<1>r0. AckMeets(t, g, w, n)
  BY <1>p, <1>h0 DEF Acks
<1>r. /\ t # g /\ n \in Rnti /\ n <= last[t] /\ w <= last[g]
      /\ St(g, w) = "HANDOVER_PREPARATION" /\ Peer(g, w) = t
      /\ \/ St(t, n) = "HANDOVER_JOINING" /\ Linked(t, n, g, w)
         \/ St(t, n) = "NONE" /\ Sent("failure", t, g, w, 0)
  BY <1>d, <1>r0 DEF AckMeets
<1>r2. \A a, b \in Gnb, q, m \in Id : Sent("ack", a, b, q, m) => a = t /\ b = g /\ q = w /\ m = n
  BY <1>r0 DEF AckMeets
<1>d1. /\ ue.st = "CONNECTED_NORMALLY" /\ ~ue.left /\ ue.cell = g /\ ue.rnti = w
       /\ UeAt(g, w) /\ On(g, w) /\ ~Idle
       /\ \A h \in Gnb, q \in Rnti : St(h, q) \in Attached => h = g /\ q = w
  BY <1>d, <1>r, UeThere DEF Here, Attached
<1>d2. /\ dl = <<>> /\ ul = <<>>
  BY <1>p, <1>d, <1>r, <1>d1 DEF UeConnected, Released
<1>a0. /\ ctx' = [ctx EXCEPT ![g][w] = Commanded(@, n)]
       /\ dl' = Append(dl, [kind |-> "handover", cell |-> t, rnti |-> n])
       /\ x2' = Take(t, g)
       /\ UNCHANGED <<last, teid, imsiRnti, ue, ul, s1, now, leavingLast, fault>>
  <2>1. w = Head(x2[t][g]).old /\ n = Head(x2[t][g]).new
    BY <1>h0
  <2>2. /\ ctx' = [ctx EXCEPT ![g][w] = Commanded(@, n)]
        /\ dl' = Append(dl, [kind |-> "handover", cell |-> t, rnti |-> n])
        /\ x2' = Take(t, g)
        /\ UNCHANGED <<last, teid, imsiRnti, ue, ul, s1, now, failures, fault>>
    BY <1>d, <1>d1, <2>1 DEF RecvHandoverRequestAck
  <2> QED BY <2>1, <2>2, <1>d1 DEF Here
<1>a. /\ ue' = ue /\ dl' = <<Command(t, n)>> /\ ul' = <<>> /\ dl = <<>> /\ ul = <<>> /\ now = <<>>
           /\ now' = <<>>
      /\ ue.st = "CONNECTED_NORMALLY" /\ St(g, w) = "HANDOVER_PREPARATION" /\ g = ue.cell
           /\ w = ue.rnti
      /\ UNCHANGED <<last, teid, imsiRnti, s1, leavingLast, fault>>
  BY <1>a0, <1>d, <1>d1, <1>d2, <1>r, Single DEF Command
<1>g. ~Pend(g, w) /\ ctx[g][w].peer = t
  BY <1>p, <1>r DEF Contexts, ContextFits, Peer
<1>j. /\ ctx \in [Gnb -> [Rnti -> ContextType]]
      /\ ctx[g][w] \in ContextType
  BY <1>p DEF TypeOK
<1>k. PICK d \in ContextType : d = ctx[g][w]
  BY <1>j
<1>k1. PICK c : c = Commanded(d, n)
  OBVIOUS
<1>k2. /\ c \in ContextType /\ c.st = "HANDOVER_LEAVING" /\ c.timer = "leaving"
       /\ c.peer = t /\ c.peerId = n /\ c.pend = d.pend
  <2>1. n \in Id
    BY <1>h0
  <2>2. d.peer = t
    BY <1>k, <1>g
  <2> QED BY ONLY <2>1, <2>2, <1>k1, CommandedContext
<1>k3. Guarded(c)
  BY <1>k2 DEF Guarded
<1>b. ctx' = [ctx EXCEPT ![g][w] = Commanded(@, n)]
  BY <1>a0
<1>e. Put(g, w, c)
  <2>1. c = Commanded(ctx[g][w], n)
    BY <1>k, <1>k1
  <2> QED BY ONLY g \in Gnb, w \in Rnti, <1>j, <1>b, <2>1 DEF Put
<1>c. /\ ctx' \in [Gnb -> [Rnti -> ContextType]]
      /\ \A h \in Gnb, q \in Rnti : Guarded(ctx'[h][q])
      /\ St(g, w)' = "HANDOVER_LEAVING" /\ Timer(g, w)' = "leaving" /\ Pend(g, w)' = Pend(g, w)
      /\ Peer(g, w)' = t /\ Linked(g, w, t, n)'
      /\ \A x, y : Linked(g, w, x, y)' => x = t /\ y = n
      /\ \A h \in Gnb, q \in Rnti : h # g \/ q # w =>
            /\ St(h, q)' = St(h, q) /\ Peer(h, q)' = Peer(h, q)
            /\ Timer(h, q)' = Timer(h, q) /\ Pend(h, q)' = Pend(h, q)
            /\ \A x, y : Linked(h, q, x, y)' <=> Linked(h, q, x, y)
  <2>1. TypeOK
    BY <1>p
  <2>2. Replaced(g, w, c)
    BY ONLY g \in Gnb, w \in Rnti, <1>k2, <1>k3, <1>e, <2>1, ContextUpdated
  <2>3. d.pend = Pend(g, w)
    BY <1>k DEF Pend
  <2> QED BY <1>k2, <2>2, <2>3 DEF Replaced, OthersStay
<1>m. /\ x2' \in [Gnb -> [Gnb -> Seq(Message)]] /\ Queues'
      /\ \A from, to \in Gnb, old, new \in Id : ~Sent("ack", from, to, old, new)'
      /\ \A kind, from, to, old, new : from \in Gnb /\ to \in Gnb /\ kind # "ack" =>
            (Sent(kind, from, to, old, new)' <=> Sent(kind, from, to, old, new))
  <2>1. Takes(t, g) /\ Messages /\ Queues
    BY <1>p, <1>a0 DEF Takes
  <2>4. Taken("ack", t, g, w, n)
    BY ONLY t \in Gnb, g \in Gnb, <1>d, <1>h0, <2>1, MessageTaken
  <2>2. /\ x2' \in [Gnb -> [Gnb -> Seq(Message)]]
        /\ Queues'
        /\ \A kind, from, to, old, new : from \in Gnb /\ to \in Gnb =>
              /\ Sent(kind, from, to, old, new)' => Sent(kind, from, to, old, new)
              /\ Sent(kind, from, to, old, new) =>
                    \/ Sent(kind, from, to, old, new)'
                    \/ kind = "ack" /\ from = t /\ to = g /\ old = w /\ new = n
        /\ \A q \in Id : ~Sent("ack", t, g, w, q)'
    BY <2>4 DEF Taken
  <2>3. \A from, to \in Gnb, old, new \in Id : ~Sent("ack", from, to, old, new)'
    <3> SUFFICES ASSUME NEW from \in Gnb, NEW to \in Gnb, NEW old \in Id, NEW new \in Id,
                        Sent("ack", from, to, old, new)'
                 PROVE  FALSE
      OBVIOUS
    <3>1. from = t /\ to = g /\ old = w
      BY <2>2, <1>r2
    <3> QED BY <3>1, <2>2
  <2> QED BY <2>2, <2>3
<1>s. /\ \A from, to \in Gnb, old, new \in Id : ~Sent("ack", from, to, old, new)'
           /\ ~Sent("request", from, to, old, new)'
      /\ \A kind, from, to, old, new : from \in Gnb /\ to \in Gnb /\ kind # "ack" =>
            (Sent(kind, from, to, old, new)' <=> Sent(kind, from, to, old, new))
  <2> SUFFICES ASSUME NEW from \in Gnb, NEW to \in Gnb, NEW old \in Id, NEW new \in Id,
                      Sent("request", from, to, old, new)'
               PROVE  FALSE
    BY <1>m
  <2>1. Sent("request", from, to, old, new)
    BY <1>m
  <2>2. RequestMeets(from, to, old, new)
    BY <2>1, <1>p DEF Requests
  <2> QED BY <2>2, <1>h0, <1>p DEF RequestMeets
<1>u. /\ Idle' <=> Idle
      /\ \A h, q :
            /\ UeAt(h, q)' <=> UeAt(h, q)
            /\ On(h, q)' <=> On(h, q)
            /\ Home(h, q)' <=> Home(h, q)
            /\ Leaves(h, q)' <=> Leaves(h, q)
            /\ Released(h, q)' <=> Released(h, q)
  BY <1>a, UeSame
<1>n. \A h, q :
         /\ ~Released(h, q) /\ ~Released(h, q)' /\ ~Leaves(h, q) /\ ~Leaves(h, q)'
  BY <1>a DEF Released, Leaves
<1>t. /\ \A h \in Gnb : last[h] \in Nat /\ teid[h] \in Nat /\ imsiRnti[h] \in Nat
  BY <1>p DEF TypeOK
<1>x. Home(g, w) /\ w <= last[g] /\ ~Idle' /\ On(g, w) /\ UeAt(g, w) /\ ~Idle
  BY <1>r, <1>u, <1>d1 DEF Home
<1>y. \A h \in Gnb, q \in Rnti : /\ St(h, q) # "HANDOVER_LEAVING" /\ St(h, q) # "HANDOVER_PATH_SWITCH"
                               /\ (St(h, q) = "HANDOVER_PREPARATION" => h = g /\ q = w)
  BY <1>p, <1>r, <1>d1 DEF Attached, OneSource, Source
<1>v. /\ Sent("failure", t, g, w, 0) => St(t, n) = "NONE"
      /\ \A a \in Gnb, m \in Id : Sent("failure", a, g, w, m) => a = t /\ m = 0 /\ NoTarget(g, w)
      /\ \A a \in Gnb, m \in Id : ~Sent("context_release", a, g, w, m)
  BY <1>p, <1>r DEF Failures, FailureMeets, Releases, ReleaseMeets, NoTarget, Id
<1>o. t # g \/ n # w
  BY <1>r
<1>TypeOK. TypeOK'
  BY <1>p, <1>a, <1>c, Single DEF TypeOK
<1>Messages. Messages'
  BY <1>p, <1>a, <1>m, <1>u, <1>r DEF Messages
<1>Queues. Queues'
  BY <1>m
<1>Contexts. Contexts'
  <2> SUFFICES ASSUME NEW h \in Gnb, NEW q \in Rnti
               PROVE  teid'[h] <= last'[h] /\ imsiRnti'[h] <= last'[h] /\ ContextFits(h, q)'
    BY DEF Contexts
  <2>1. CASE h = g /\ q = w
    BY <1>p, <1>a, <1>c, <1>u, <1>x, <2>1 DEF Contexts, ContextFits, Attached, SettingUp
  <2>2. CASE h # g \/ q # w
    BY <1>p, <1>a, <1>c, <1>u, <2>2 DEF Contexts, ContextFits, Attached, SettingUp
  <2> QED BY <2>1, <2>2
<1>Leavings. Leavings'
  <2>1. LeavingTo(g, w, t, n)'
    <3>1. Pending(g, w, t, n)'
      BY <1>r, <1>c, <1>s, <1>u, <1>x, <1>o DEF Pending, Id
    <3> QED BY <3>1, <1>r, <1>a, <1>c, <1>u, <1>x, <1>o DEF LeavingTo
  <2>2. \A h \in Gnb, q \in Rnti : St(h, q)' = "HANDOVER_LEAVING" => h = g /\ q = w
    BY <1>c, <1>y
  <2> QED BY <2>1, <2>2, <1>r DEF Leavings
<1>OneSource. OneSource'
  <2> SUFFICES ASSUME NEW h \in Gnb, NEW q \in Rnti
               PROVE  NothingNew(h, q)
    BY <1>p, OneSourceStays
  <2> QED BY <1>p, <1>a, <1>c, <1>s, <1>u, <1>n, <1>t, <1>x, <1>y DEF NothingNew, Source, Target
<1>Requests. Requests'
  BY <1>s DEF Requests
<1>Acks. Acks'
  BY <1>s DEF Acks
<1>Failures. Failures'
  <2> SUFFICES ASSUME NEW a \in Gnb, NEW b \in Gnb, NEW o \in Id, NEW m \in Id,
                      Sent("failure", a, b, o, m)'
               PROVE  FailureMeets(a, b, o, m)'
    BY DEF Failures
  <2>0. Sent("failure", a, b, o, m) /\ FailureMeets(a, b, o, m)
    BY <1>p, <1>s DEF Failures
  <2>1. NoTarget(b, o)'
    BY <2>0, <1>c, <1>r DEF FailureMeets, NoTarget
  <2>2. CASE b = g /\ o = w
    <3>1. a = t /\ m = 0 /\ St(t, n) = "NONE"
      BY <2>0, <2>2, <1>v
    <3>2. \A z \in Rnti : Linked(b, o, a, z)' => St(a, z)' = "NONE"
      BY <2>2, <3>1, <1>c, <1>o
    <3>3. \A x \in Gnb, z \in Id : ~Sent("context_release", x, b, o, z)'
      BY <2>2, <1>v, <1>s
    <3> QED BY <2>0, <2>1, <2>2, <3>1, <3>2, <3>3, <1>a, <1>c, <1>r DEF FailureMeets
  <2>3. CASE b # g \/ o # w
    BY <2>0, <2>1, <2>3, <1>a, <1>c, <1>y DEF FailureMeets
  <2> QED BY <2>2, <2>3
<1>Releases. Releases'
  <2> SUFFICES ASSUME NEW a \in Gnb, NEW b \in Gnb, NEW o \in Id, NEW m \in Id,
                      Sent("context_release", a, b, o, m)'
               PROVE  ReleaseMeets(a, b, o, m)'
    BY DEF Releases
  <2>1. Sent("context_release", a, b, o, m) /\ ReleaseMeets(a, b, o, m)
    BY <1>p, <1>a, <1>c, <1>s, <1>u, <1>n, <1>t, <1>x, <1>v DEF Releases
  <2>2. a # b /\ o \in Rnti /\ o <= last'[b] /\ m \in Rnti /\ m <= last'[a]
    BY <2>1, <1>p, <1>a, <1>c, <1>s, <1>u, <1>n, <1>t, <1>x, <1>v DEF ReleaseMeets
  <2>3. /\ St(b, o)' \in {"NONE", "HANDOVER_LEAVING"}
        /\ St(b, o)' # "NONE" => Linked(b, o, a, m)'
    BY <2>1, <1>p, <1>a, <1>c, <1>s, <1>u, <1>n, <1>t, <1>x, <1>v DEF ReleaseMeets
  <2>4. /\ Idle' \/ On(a, m)'
        /\ \/ St(a, m)' \in {"CONNECTED_NORMALLY", "CONNECTION_RECONFIGURATION"}
           \/ Idle' /\ St(a, m)' = "NONE"
    <3>1. ~Idle /\ a \in Gnb /\ m \in Rnti
      BY <2>1, <1>x DEF ReleaseMeets
    <3>2. On(a, m) /\ St(a, m) \in {"CONNECTED_NORMALLY", "CONNECTION_RECONFIGURATION"}
      BY <2>1, <3>1 DEF ReleaseMeets
    <3>3. a # g \/ m # w
      BY <3>2, <1>a
    <3>4. St(a, m)' = St(a, m) /\ On(a, m)'
      BY <3>1, <3>2, <3>3, <1>c, <1>u
    <3> QED BY <3>2, <3>4
  <2> QED BY <2>2, <2>3, <2>4 DEF ReleaseMeets
<1>Cancels. Cancels'
  <2> SUFFICES ASSUME NEW a \in Gnb, NEW b \in Gnb, NEW o \in Id, NEW m \in Id,
                      Sent("cancel", a, b, o, m)'
               PROVE  CancelMeets(a, b, o, m)'
    BY DEF Cancels
  <2>1. Sent("cancel", a, b, o, m) /\ CancelMeets(a, b, o, m)
    BY <1>p, <1>a, <1>c, <1>s, <1>u, <1>n, <1>t, <1>x, <1>y DEF Cancels
  <2>2. a # b /\ m \in Rnti /\ m <= last'[b] /\ ~leavingLast'
    BY <2>1, <1>p, <1>a, <1>c, <1>s, <1>u, <1>n, <1>t, <1>x, <1>y DEF CancelMeets
  <2>3. Idle' \/ Released(a, o)'
    BY <2>1, <1>p, <1>a, <1>c, <1>s, <1>u, <1>n, <1>t, <1>x, <1>y DEF CancelMeets
  <2>4. St(b, m)' \in {"NONE", "HANDOVER_JOINING"} \/ Home(b, m)'
    BY <2>1, <1>p, <1>a, <1>c, <1>s, <1>u, <1>n, <1>t, <1>x, <1>y DEF CancelMeets
  <2> QED BY <2>2, <2>3, <2>4 DEF CancelMeets
<1>Joinings. Joinings'
  <2> SUFFICES ASSUME NEW h \in Gnb, NEW q \in Rnti, St(h, q)' = "HANDOVER_JOINING"
               PROVE  \E x \in Gnb, y \in Rnti : JoiningFrom(h, q, x, y)'
    BY DEF Joinings
  <2>1. St(h, q) = "HANDOVER_JOINING" /\ (h # g \/ q # w)
    BY <1>c
  <2>2. PICK x \in Gnb, y \in Rnti : JoiningFrom(h, q, x, y)
    BY <1>p, <2>1 DEF Joinings
  <2>3. CASE x = g /\ y = w
    <3>1. h = t /\ q = n /\ Timer(h, q) = "joining"
      BY <2>2, <2>3, <1>r, <1>r2, <1>p DEF JoiningFrom
    <3> QED BY <2>1, <2>2, <2>3, <3>1, <1>a, <1>c DEF JoiningFrom
  <2>4. CASE x # g \/ y # w
    BY <2>1, <2>2, <2>4, <1>a, <1>c, <1>y DEF JoiningFrom
  <2> QED BY <2>3, <2>4
<1>Switchings. Switchings'
  BY <1>c, <1>y DEF Switchings
<1>Answers. Answers'
  <2> SUFFICES ASSUME NEW k \in {"switched", "attached"}, NEW h \in Gnb,
                      s1' = <<[kind |-> k, gnb |-> h]>>
               PROVE  /\ imsiRnti'[h] \in Rnti
                      /\ \/ St(h, imsiRnti[h])' = IF k = "switched" THEN "HANDOVER_PATH_SWITCH"
                                                   ELSE "ATTACH_REQUEST"
                         \/ St(h, imsiRnti[h])' = "NONE" /\ Idle'
    BY DEF Answers
  <2>1. /\ imsiRnti[h] \in Rnti
        /\ \/ St(h, imsiRnti[h]) = IF k = "switched" THEN "HANDOVER_PATH_SWITCH" ELSE "ATTACH_REQUEST"
           \/ St(h, imsiRnti[h]) = "NONE" /\ Idle
    BY <1>p, <1>a DEF Answers
  <2>2. h # g \/ imsiRnti[h] # w
    BY <2>1, <1>a
  <2>3. St(h, imsiRnti[h])' = St(h, imsiRnti[h])
    BY <2>1, <2>2, <1>a, <1>c
  <2> QED BY <2>1, <2>3, <1>a, <1>u
<1>UeIdle. UeIdle'
  BY <1>p, <1>a, <1>c, <1>s, <1>u, <1>n, <1>t, <1>x, <1>y DEF UeIdle
<1>UeConnecting. UeConnecting'
  BY <1>p, <1>a, <1>c, <1>s, <1>u, <1>n, <1>t, <1>x, <1>y DEF UeConnecting, SettingUp
<1>UeMoving. UeMoving'
  BY <1>p, <1>a, <1>c, <1>s, <1>u, <1>n, <1>t, <1>x, <1>y DEF UeMoving, Away
<1>UeConnected. UeConnected'
  <2>1. ~Idle' /\ ue'.st = "CONNECTED_NORMALLY" /\ ue'.cell = g /\ ue'.rnti = w
    BY <1>a, <1>x
  <2> QED BY <2>1, <1>a, <1>c, <1>r DEF UeConnected
<1> QED BY <1>p, <1>a, <1>TypeOK, <1>Messages, <1>Queues, <1>Contexts, <1>Leavings, <1>OneSource,
           <1>Requests, <1>Acks, <1>Failures, <1>Releases, <1>Cancels, <1>Joinings, <1>Switchings,
           <1>Answers, <1>UeIdle, <1>UeConnecting, <1>UeMoving, <1>UeConnected DEF IInv, Good

\* A failure finds no context, and the invariant stays.
LEMMA FailureIgnored ==
    ASSUME Here, NEW t \in Gnb, NEW g \in Gnb, RecvHandoverPreparationFailure(t, g), NEW w \in Id,
           w = Head(x2[t][g]).old, ~Exists(g, w)
    PROVE  IInv'
<1>p. /\ TypeOK /\ Messages /\ Queues /\ Contexts /\ Leavings /\ OneSource
      /\ Requests /\ Acks /\ Failures /\ Releases /\ Cancels
      /\ Joinings /\ Switchings /\ Answers
      /\ UeIdle /\ UeConnecting /\ UeMoving /\ UeConnected
      /\ fault = "none" /\ MaxRnti \in Nat /\ NoCell \notin Gnb
      /\ \A q \in Rnti : q \in Nat /\ q \in Id /\ q # 0
  BY HandoverAssumption DEF Here, Good, Rnti, Id
<1>d. /\ x2[t][g] # <<>> /\ Head(x2[t][g]).kind = "failure" /\ now = <<>>
  BY DEF RecvHandoverPreparationFailure, Arrives, Running
<1>h0. PICK n \in Id : Head(x2[t][g]) = Msg("failure", w, n) /\ Head(x2[t][g]).new = n
               /\ Sent("failure", t, g, w, n)
  BY <1>p, <1>d, HeadSent
<1>r. FailureMeets(t, g, w, n) /\ w \in Rnti
  BY <1>p, <1>h0 DEF Failures, FailureMeets
<1>r1. /\ St(g, w) = "NONE" /\ n = 0
  BY <1>r DEF Exists, St, FailureMeets
<1>a0. /\ ctx' = ctx /\ last' = last /\ teid' = teid /\ imsiRnti' = imsiRnti /\ dl' = dl
            /\ now' = now
       /\ x2' = Take(t, g) /\ ue' = ue /\ ul' = ul /\ s1' = s1 /\ leavingLast' = leavingLast
            /\ fault' = fault
  BY <1>r1 DEF RecvHandoverPreparationFailure, Here, gnbVars, Exists, St
<1>a. /\ ue' = ue /\ dl' = dl /\ ul' = ul /\ now = <<>> /\ now' = <<>>
      /\ UNCHANGED <<ctx, last, teid, imsiRnti, s1, leavingLast, fault>>
  BY <1>d, <1>a0
<1>m. /\ x2' \in [Gnb -> [Gnb -> Seq(Message)]] /\ Queues'
      /\ \A kind, from, to, old, new : from \in Gnb /\ to \in Gnb =>
            /\ Sent(kind, from, to, old, new)' => Sent(kind, from, to, old, new)
            /\ Sent(kind, from, to, old, new) =>
                  \/ Sent(kind, from, to, old, new)'
                  \/ kind = "failure" /\ from = t /\ to = g /\ old = w /\ new = n
      /\ \A q \in Id : ~Sent("failure", t, g, w, q)'
      /\ \A q \in Id : ~Sent("ack", t, g, w, q)'
  <2>1. Takes(t, g) /\ Messages /\ Queues
    BY <1>p, <1>a0 DEF Takes
  <2>2. Taken("failure", t, g, w, n)
    BY ONLY t \in Gnb, g \in Gnb, <1>d, <1>h0, <2>1, MessageTaken
  <2> QED BY <2>2 DEF Taken
<1>s. \A kind, from, to, old, new : from \in Gnb /\ to \in Gnb /\ kind # "failure" =>
         (Sent(kind, from, to, old, new)' <=> Sent(kind, from, to, old, new))
  BY <1>m
<1>s1. \A kind, from, to, old, new : from \in Gnb /\ to \in Gnb =>
         (Sent(kind, from, to, old, new)' => Sent(kind, from, to, old, new))
  BY <1>m
<1>c. \A h, q :
         /\ St(h, q)' = St(h, q) /\ Peer(h, q)' = Peer(h, q)
         /\ Timer(h, q)' = Timer(h, q) /\ Pend(h, q)' = Pend(h, q)
         /\ \A x, y : Linked(h, q, x, y)' <=> Linked(h, q, x, y)
  BY <1>a, ContextsSame
<1>u. /\ Idle' <=> Idle
      /\ \A h, q :
            /\ UeAt(h, q)' <=> UeAt(h, q)
            /\ On(h, q)' <=> On(h, q)
            /\ Home(h, q)' <=> Home(h, q)
            /\ Leaves(h, q)' <=> Leaves(h, q)
            /\ Released(h, q)' <=> Released(h, q)
  BY <1>a, UeSame
<1>t. /\ \A h \in Gnb : last[h] \in Nat /\ teid[h] \in Nat /\ imsiRnti[h] \in Nat
  BY <1>p DEF TypeOK
<1>n. \A h, q :
         /\ ~Released(h, q) /\ ~Released(h, q)' /\ ~Leaves(h, q) /\ ~Leaves(h, q)'
  BY <1>a DEF Released, Leaves
<1>TypeOK. TypeOK'
  BY <1>p, <1>a DEF TypeOK
<1>Messages. Messages'
  BY <1>p, <1>a, <1>m, <1>u DEF Messages
<1>Queues. Queues'
  BY <1>m
<1>Contexts. Contexts'
  BY <1>p, <1>a, <1>c, <1>s, <1>u, <1>n DEF Contexts, ContextFits, Attached, SettingUp
<1>Leavings. Leavings'
  <2> SUFFICES ASSUME NEW h \in Gnb, NEW q \in Rnti, St(h, q)' = "HANDOVER_LEAVING"
               PROVE  \E x \in Gnb, y \in Rnti : LeavingTo(h, q, x, y)'
    BY DEF Leavings
  <2>1. St(h, q) = "HANDOVER_LEAVING" /\ (h # g \/ q # w)
    BY <1>c, <1>r1
  <2>2. PICK x \in Gnb, y \in Rnti : LeavingTo(h, q, x, y)
    BY <1>p, <2>1 DEF Leavings
  <2>3. Pending(h, q, x, y)'
    <3>1. Sent("failure", x, h, q, 0) => Sent("failure", x, h, q, 0)'
      BY <2>1, <1>m
    <3>2. Sent("context_release", x, h, q, y) => Sent("context_release", x, h, q, y)'
      BY <2>1, <1>m
    <3> QED BY <2>2, <3>1, <3>2, <1>a, <1>c, <1>u DEF LeavingTo, Pending, Switched
  <2>4. St(x, y)' \in {"NONE", "HANDOVER_JOINING"} \/ Home(x, y)'
    BY <2>2, <1>p, <1>a, <1>c, <1>s, <1>u DEF LeavingTo
  <2>5. \/ Idle'
        \/ On(h, q)'
        \/ ue'.from = <<h, q>> /\ ue'.cell = x /\ ~ue'.left /\ (ue'.rnti = y \/ St(x, y)' = "NONE")
    BY <2>2, <1>p, <1>a, <1>c, <1>s, <1>u DEF LeavingTo
  <2> QED BY <2>2, <2>3, <2>4, <2>5, <1>a, <1>c DEF LeavingTo
<1>OneSource. OneSource'
  <2> SUFFICES ASSUME NEW h \in Gnb, NEW q \in Rnti
               PROVE  NothingNew(h, q)
    BY <1>p, OneSourceStays
  <2> QED BY <1>p, <1>a, <1>c, <1>s, <1>u, <1>n DEF NothingNew, Source, Target
<1>Requests. Requests'
  <2> SUFFICES ASSUME NEW a \in Gnb, NEW b \in Gnb, NEW o \in Id, NEW m \in Id,
                      Sent("request", a, b, o, m)'
               PROVE  RequestMeets(a, b, o, m)'
    BY DEF Requests
  <2>1. Sent("request", a, b, o, m) /\ RequestMeets(a, b, o, m)
    BY <1>p, <1>a, <1>c, <1>s, <1>u DEF Requests
  <2>2. a # b /\ o \in Rnti /\ o <= last'[a] /\ m = 0
    BY <2>1, <1>p, <1>a, <1>c, <1>s, <1>u DEF RequestMeets
  <2>3. /\ St(a, o)' \in {"NONE", "HANDOVER_PREPARATION"}
        /\ St(a, o)' # "NONE" => Peer(a, o)' = b
    BY <2>1, <1>p, <1>a, <1>c, <1>s, <1>u DEF RequestMeets
  <2>4. Idle' \/ (On(a, o)' /\ St(a, o)' = "HANDOVER_PREPARATION")
    BY <2>1, <1>p, <1>a, <1>c, <1>s, <1>u DEF RequestMeets
  <2>5. s1' = <<>> /\ (leavingLast' => teid'[b] = 0)
    BY <2>1, <1>p, <1>a, <1>c, <1>s, <1>u DEF RequestMeets
  <2>6. \A x, y \in Gnb, q, z \in Id :
           /\ ~Sent("ack", x, y, q, z)'
           /\ Sent("request", x, y, q, z)' => x = a /\ y = b /\ q = o
           /\ ~Sent("failure", x, a, o, z)'
    BY <2>1, <1>s1 DEF RequestMeets
  <2>7. NoTarget(a, o)'
    BY <2>1, <1>p, <1>a, <1>c, <1>s, <1>u DEF RequestMeets, NoTarget
  <2> QED BY <2>2, <2>3, <2>4, <2>5, <2>6, <2>7 DEF RequestMeets
<1>Acks. Acks'
  <2> SUFFICES ASSUME NEW a \in Gnb, NEW b \in Gnb, NEW o \in Id, NEW m \in Id,
                      Sent("ack", a, b, o, m)'
               PROVE  AckMeets(a, b, o, m)'
    BY DEF Acks
  <2>1. Sent("ack", a, b, o, m) /\ AckMeets(a, b, o, m)
    BY <1>p, <1>a, <1>c, <1>s, <1>u DEF Acks
  <2>2. a # b /\ o \in Rnti /\ o <= last'[b] /\ m \in Rnti /\ m <= last'[a]
    BY <2>1, <1>p, <1>a, <1>c, <1>s, <1>u DEF AckMeets
  <2>3. /\ St(b, o)' \in {"NONE", "HANDOVER_PREPARATION"}
        /\ St(b, o)' # "NONE" => Peer(b, o)' = a
    BY <2>1, <1>p, <1>a, <1>c, <1>s, <1>u DEF AckMeets
  <2>4. Idle' \/ (On(b, o)' /\ St(b, o)' = "HANDOVER_PREPARATION")
    BY <2>1, <1>p, <1>a, <1>c, <1>s, <1>u DEF AckMeets
  <2>5. \/ St(a, m)' = "HANDOVER_JOINING" /\ Linked(a, m, b, o)'
        \/ St(a, m)' = "NONE" /\ Sent("failure", a, b, o, 0)'
    <3>1. ~(a = t /\ b = g /\ o = w)
      BY <1>m
    <3>2. Sent("failure", a, b, o, 0) => Sent("failure", a, b, o, 0)'
      BY <3>1, <1>m
    <3> QED BY <2>1, <3>2, <1>c DEF AckMeets
  <2>6. \A x, y \in Gnb, q, z \in Id :
           Sent("ack", x, y, q, z)' => x = a /\ y = b /\ q = o /\ z = m
    BY <2>1, <1>p, <1>a, <1>c, <1>s, <1>u DEF AckMeets
  <2> QED BY <2>2, <2>3, <2>4, <2>5, <2>6 DEF AckMeets
<1>Failures. Failures'
  <2> SUFFICES ASSUME NEW a \in Gnb, NEW b \in Gnb, NEW o \in Id, NEW m \in Id,
                      Sent("failure", a, b, o, m)'
               PROVE  FailureMeets(a, b, o, m)'
    BY DEF Failures
  <2>1. Sent("failure", a, b, o, m) /\ FailureMeets(a, b, o, m)
    BY <1>p, <1>a, <1>c, <1>s, <1>u, <1>m DEF Failures
  <2>2. a # b /\ o \in Rnti /\ o <= last'[b] /\ m = 0
    BY <2>1, <1>p, <1>a, <1>c, <1>s, <1>u, <1>m DEF FailureMeets
  <2>3. /\ St(b, o)' \in {"NONE", "HANDOVER_PREPARATION", "HANDOVER_LEAVING"}
        /\ St(b, o)' # "NONE" => Peer(b, o)' = a
    BY <2>1, <1>p, <1>a, <1>c, <1>s, <1>u, <1>m DEF FailureMeets
  <2>4. St(b, o)' = "HANDOVER_LEAVING" => \A z \in Rnti : Linked(b, o, a, z)' => St(a, z)' = "NONE"
    BY <2>1, <1>p, <1>a, <1>c, <1>s, <1>u, <1>m DEF FailureMeets
  <2>5. St(b, o)' = "HANDOVER_LEAVING"
                => \A x \in Gnb, z \in Id : ~Sent("context_release", x, b, o, z)'
    BY <2>1, <1>p, <1>a, <1>c, <1>s, <1>u, <1>m DEF FailureMeets
  <2>6. NoTarget(b, o)'
    BY <2>1, <1>p, <1>a, <1>c, <1>s, <1>u, <1>m DEF FailureMeets, NoTarget
  <2> QED BY <2>2, <2>3, <2>4, <2>5, <2>6 DEF FailureMeets
<1>Releases. Releases'
  BY <1>p, <1>a, <1>c, <1>s, <1>u, <1>n DEF Releases, ReleaseMeets
<1>Cancels. Cancels'
  BY <1>p, <1>a, <1>c, <1>s, <1>u, <1>n DEF Cancels, CancelMeets
<1>Joinings. Joinings'
  <2> SUFFICES ASSUME NEW h \in Gnb, NEW q \in Rnti, St(h, q)' = "HANDOVER_JOINING"
               PROVE  \E x \in Gnb, y \in Rnti : JoiningFrom(h, q, x, y)'
    BY DEF Joinings
  <2>1. St(h, q) = "HANDOVER_JOINING" 
    BY <1>c
  <2>2. PICK x \in Gnb, y \in Rnti : JoiningFrom(h, q, x, y)
    BY <1>p, <2>1 DEF Joinings
  <2> QED BY <2>1, <2>2, <1>p, <1>a, <1>c, <1>s DEF JoiningFrom
<1>Switchings. Switchings'
  BY <1>p, <1>a, <1>c DEF Switchings, SwitchingFrom, Switched
<1>Answers. Answers'
  BY <1>p, <1>a, <1>c, <1>s, <1>u, <1>n DEF Answers
<1>UeIdle. UeIdle'
  BY <1>p, <1>a, <1>c, <1>s, <1>u, <1>n DEF UeIdle
<1>UeConnecting. UeConnecting'
  BY <1>p, <1>a, <1>c, <1>s, <1>u, <1>n DEF UeConnecting, SettingUp
<1>UeMoving. UeMoving'
  BY <1>p, <1>a, <1>c, <1>s, <1>u, <1>n DEF UeMoving, Away
<1>UeConnected. UeConnected'
  BY <1>p, <1>a, <1>c, <1>s, <1>u, <1>n DEF UeConnected, Away
<1> QED BY <1>p, <1>a, <1>TypeOK, <1>Messages, <1>Queues, <1>Contexts, <1>Leavings, <1>OneSource,
           <1>Requests, <1>Acks, <1>Failures, <1>Releases, <1>Cancels, <1>Joinings, <1>Switchings,
           <1>Answers, <1>UeIdle, <1>UeConnecting, <1>UeMoving, <1>UeConnected DEF IInv, Good

\* A failure finds the source preparing, and the invariant stays.
LEMMA PreparationFailed ==
    ASSUME Here, NEW t \in Gnb, NEW g \in Gnb, RecvHandoverPreparationFailure(t, g),
           NEW w \in Rnti, w = Head(x2[t][g]).old, St(g, w) = "HANDOVER_PREPARATION"
    PROVE  IInv'
<1>p. /\ TypeOK /\ Messages /\ Queues /\ Contexts /\ Leavings /\ OneSource
      /\ Requests /\ Acks /\ Failures /\ Releases /\ Cancels
      /\ Joinings /\ Switchings /\ Answers
      /\ UeIdle /\ UeConnecting /\ UeMoving /\ UeConnected
      /\ fault = "none" /\ MaxRnti \in Nat /\ NoCell \notin Gnb
      /\ \A q \in Rnti : q \in Nat /\ q \in Id /\ q # 0
  BY HandoverAssumption DEF Here, Good, Rnti, Id
<1>d. /\ x2[t][g] # <<>> /\ Head(x2[t][g]).kind = "failure" /\ now = <<>>
  BY DEF RecvHandoverPreparationFailure, Arrives, Running
<1>h0. PICK n \in Id : Head(x2[t][g]) = Msg("failure", w, n) /\ Head(x2[t][g]).new = n
               /\ Sent("failure", t, g, w, n)
  BY <1>p, <1>d, HeadSent
<1>r. FailureMeets(t, g, w, n)
  BY <1>p, <1>h0 DEF Failures
<1>r1. /\ t # g /\ w <= last[g] /\ n = 0 /\ Peer(g, w) = t
       /\ NoTarget(g, w)
  BY <1>r DEF FailureMeets
<1>d1. /\ ue.st = "CONNECTED_NORMALLY" /\ ~ue.left /\ ue.cell = g /\ ue.rnti = w
       /\ UeAt(g, w) /\ On(g, w) /\ ~Idle
       /\ \A h \in Gnb, q \in Rnti : St(h, q) \in Attached => h = g /\ q = w
  BY <1>d, UeThere DEF Here, Attached
<1>d2. /\ dl = <<>> /\ ul = <<>>
  BY <1>p, <1>d, <1>d1 DEF UeConnected, Released
<1>g. ~Pend(g, w)
  BY <1>p DEF Contexts, ContextFits
<1>a0. /\ ctx' = [ctx EXCEPT ![g][w] = Connected(@)] /\ dl' = dl /\ now' = now
       /\ last' = last /\ teid' = teid /\ imsiRnti' = imsiRnti
       /\ x2' = Take(t, g) /\ ue' = ue /\ ul' = ul /\ s1' = s1 /\ leavingLast' = leavingLast
            /\ fault' = fault
  BY <1>g DEF RecvHandoverPreparationFailure, FailurePrepares, Reconfigures, Here, Exists, St, Pend
<1>a. /\ ue' = ue /\ dl' = <<>> /\ ul' = <<>> /\ dl = <<>> /\ ul = <<>> /\ now = <<>> /\ now' = <<>>
      /\ ue.st = "CONNECTED_NORMALLY" /\ St(g, w) = "HANDOVER_PREPARATION" /\ g = ue.cell
           /\ w = ue.rnti
      /\ UNCHANGED <<last, teid, imsiRnti, s1, leavingLast, fault>>
  BY <1>a0, <1>d, <1>d1, <1>d2
<1>j. /\ ctx \in [Gnb -> [Rnti -> ContextType]]
      /\ ctx[g][w] \in ContextType
  BY <1>p DEF TypeOK
<1>k. PICK d \in ContextType : d = ctx[g][w]
  BY <1>j
<1>k1. PICK c : c = Connected(d)
  OBVIOUS
<1>k2. /\ c \in ContextType /\ c.st = "CONNECTED_NORMALLY" /\ c.timer = "none"
       /\ c.peer = d.peer /\ c.peerId = d.peerId /\ c.pend = FALSE
  BY <1>g, <1>k, <1>k1, ConnectedContext DEF Pend
<1>k3. Guarded(c)
  BY <1>k2 DEF Guarded
<1>b. ctx' = [ctx EXCEPT ![g][w] = Connected(@)]
  BY <1>a0
<1>e. Put(g, w, c)
  <2>1. c = Connected(ctx[g][w])
    BY <1>k, <1>k1
  <2> QED BY ONLY g \in Gnb, w \in Rnti, <1>j, <1>b, <2>1 DEF Put
<1>c. /\ ctx' \in [Gnb -> [Rnti -> ContextType]]
      /\ \A h \in Gnb, q \in Rnti : Guarded(ctx'[h][q])
      /\ St(g, w)' = "CONNECTED_NORMALLY" /\ Timer(g, w)' = "none" /\ Pend(g, w)' = FALSE
      /\ \A h \in Gnb, q \in Rnti :
            /\ h # g \/ q # w => /\ St(h, q)' = St(h, q) /\ Timer(h, q)' = Timer(h, q)
                                 /\ Pend(h, q)' = Pend(h, q)
            /\ Peer(h, q)' = Peer(h, q)
            /\ \A x, y : Linked(h, q, x, y)' <=> Linked(h, q, x, y)
  <2>1. c.peer = ctx[g][w].peer /\ c.peerId = ctx[g][w].peerId
    BY <1>k, <1>k2
  <2>2. c.pend = FALSE
    BY <1>k, <1>k2 DEF Pend
  <2>3. TypeOK
    BY <1>p
  <2>4. Changed(g, w, c)
    BY ONLY g \in Gnb, w \in Rnti, <1>k2, <1>k3, <1>e, <2>1, <2>3, ContextChanged
  <2> QED BY <1>k2, <2>2, <2>4 DEF Changed
<1>m. /\ x2' \in [Gnb -> [Gnb -> Seq(Message)]] /\ Queues'
      /\ \A kind, from, to, old, new : from \in Gnb /\ to \in Gnb =>
            /\ Sent(kind, from, to, old, new)' => Sent(kind, from, to, old, new)
            /\ Sent(kind, from, to, old, new) =>
                  \/ Sent(kind, from, to, old, new)'
                  \/ kind = "failure" /\ from = t /\ to = g /\ old = w /\ new = n
      /\ \A q \in Id : ~Sent("failure", t, g, w, q)'
      /\ \A q \in Id : ~Sent("ack", t, g, w, q)'
  <2>1. Takes(t, g) /\ Messages /\ Queues
    BY <1>p, <1>a0 DEF Takes
  <2>2. Taken("failure", t, g, w, n)
    BY ONLY t \in Gnb, g \in Gnb, <1>d, <1>h0, <2>1, MessageTaken
  <2> QED BY <2>2 DEF Taken
<1>s. \A kind, from, to, old, new : from \in Gnb /\ to \in Gnb /\ kind # "failure" =>
         (Sent(kind, from, to, old, new)' <=> Sent(kind, from, to, old, new))
  BY <1>m
<1>s1. \A kind, from, to, old, new : from \in Gnb /\ to \in Gnb =>
         (Sent(kind, from, to, old, new)' => Sent(kind, from, to, old, new))
  BY <1>m
<1>u. /\ Idle' <=> Idle
      /\ \A h, q :
            /\ UeAt(h, q)' <=> UeAt(h, q)
            /\ On(h, q)' <=> On(h, q)
            /\ Home(h, q)' <=> Home(h, q)
            /\ Leaves(h, q)' <=> Leaves(h, q)
            /\ Released(h, q)' <=> Released(h, q)
  BY <1>a, UeSame
<1>n. \A h, q :
         /\ ~Released(h, q) /\ ~Released(h, q)' /\ ~Leaves(h, q) /\ ~Leaves(h, q)'
  BY <1>a DEF Released, Leaves
<1>t. /\ \A h \in Gnb : last[h] \in Nat /\ teid[h] \in Nat /\ imsiRnti[h] \in Nat
  BY <1>p DEF TypeOK
<1>x. Home(g, w) /\ w <= last[g] /\ ~Idle' /\ On(g, w) /\ UeAt(g, w) /\ ~Idle
  BY <1>r1, <1>u, <1>d1 DEF Home
<1>y. \A h \in Gnb, q \in Rnti : /\ St(h, q) # "HANDOVER_LEAVING" /\ St(h, q) # "HANDOVER_PATH_SWITCH"
                               /\ (St(h, q) = "HANDOVER_PREPARATION" => h = g /\ q = w)
  BY <1>p, <1>a, <1>d1 DEF Attached, OneSource, Source
<1>v. /\ \A from, to \in Gnb, old, new \in Id : ~Sent("ack", from, to, old, new)'
           /\ ~Sent("request", from, to, old, new)'
  <2>1. ASSUME NEW from \in Gnb, NEW to \in Gnb, NEW old \in Id, NEW new \in Id,
               Sent("ack", from, to, old, new)'
       PROVE  FALSE
    <3>1. Sent("ack", from, to, old, new)
      BY <2>1, <1>s
    <3>2. AckMeets(from, to, old, new)
      BY <3>1, <1>p DEF Acks
    <3>3. to = g /\ old = w /\ from = t
      BY <3>2, <1>p, <1>x, <1>y, <1>r1 DEF AckMeets
    <3> QED BY <3>3, <2>1, <1>m
  <2>2. ASSUME NEW from \in Gnb, NEW to \in Gnb, NEW old \in Id, NEW new \in Id,
               Sent("request", from, to, old, new)'
       PROVE  FALSE
    <3>1. Sent("request", from, to, old, new)
      BY <2>2, <1>s
    <3>2. RequestMeets(from, to, old, new)
      BY <3>1, <1>p DEF Requests
    <3>3. from = g /\ old = w
      BY <3>2, <1>p, <1>x, <1>y DEF RequestMeets
    <3> QED BY <3>3, <3>2, <1>h0 DEF RequestMeets
  <2> QED BY <2>1, <2>2
<1>TypeOK. TypeOK'
  BY <1>p, <1>a, <1>c, Single DEF TypeOK
<1>Messages. Messages'
  BY <1>p, <1>a, <1>m, <1>u DEF Messages
<1>Queues. Queues'
  BY <1>m
<1>Contexts. Contexts'
  <2> SUFFICES ASSUME NEW h \in Gnb, NEW q \in Rnti
               PROVE  teid'[h] <= last'[h] /\ imsiRnti'[h] <= last'[h] /\ ContextFits(h, q)'
    BY DEF Contexts
  <2>1. CASE h = g /\ q = w
    BY <1>p, <1>a, <1>c, <1>u, <1>x, <2>1 DEF Contexts, ContextFits, Attached, SettingUp
  <2>2. CASE h # g \/ q # w
    BY <1>p, <1>a, <1>c, <1>u, <2>2 DEF Contexts, ContextFits, Attached, SettingUp
  <2> QED BY <2>1, <2>2
<1>Leavings. Leavings'
  BY <1>c, <1>y DEF Leavings
<1>OneSource. OneSource'
  <2> SUFFICES ASSUME NEW h \in Gnb, NEW q \in Rnti
               PROVE  NothingNew(h, q)
    BY <1>p, OneSourceStays
  <2> QED BY <1>p, <1>a, <1>c, <1>s, <1>u, <1>n, <1>t, <1>x, <1>y DEF NothingNew, Source, Target
<1>Requests. Requests'
  BY <1>v DEF Requests
<1>Acks. Acks'
  BY <1>v DEF Acks
<1>Failures. Failures'
  <2> SUFFICES ASSUME NEW a \in Gnb, NEW b \in Gnb, NEW o \in Id, NEW m \in Id,
                      Sent("failure", a, b, o, m)'
               PROVE  FailureMeets(a, b, o, m)'
    BY DEF Failures
  <2>1. Sent("failure", a, b, o, m) /\ FailureMeets(a, b, o, m)
    BY <1>p, <1>s1 DEF Failures
  <2>2. b # g \/ o # w
    <3>1. b = g /\ o = w => a = t
      BY <2>1, <1>r1, <1>a DEF FailureMeets
    <3> QED BY <3>1, <1>m
  <2>3. NoTarget(b, o)'
    BY <2>1, <1>c, <1>r1 DEF FailureMeets, NoTarget
  <2> QED BY <2>1, <2>2, <2>3, <1>a, <1>c, <1>y DEF FailureMeets
<1>Releases. Releases'
  BY <1>p, <1>a, <1>c, <1>s, <1>u, <1>n, <1>t, <1>x, <1>y DEF Releases, ReleaseMeets
<1>Cancels. Cancels'
  BY <1>p, <1>a, <1>c, <1>s, <1>u, <1>n, <1>t, <1>x, <1>y DEF Cancels, CancelMeets
<1>Joinings. Joinings'
  <2> SUFFICES ASSUME NEW h \in Gnb, NEW q \in Rnti, St(h, q)' = "HANDOVER_JOINING"
               PROVE  \E x \in Gnb, y \in Rnti : JoiningFrom(h, q, x, y)'
    BY DEF Joinings
  <2>1. St(h, q) = "HANDOVER_JOINING" /\ (h # g \/ q # w)
    BY <1>c
  <2>2. PICK x \in Gnb, y \in Rnti : JoiningFrom(h, q, x, y)
    BY <1>p, <2>1 DEF Joinings
  <2>3. x # g \/ y # w
    BY <2>1, <2>2, <1>r1 DEF NoTarget, JoiningFrom
  <2> QED BY <2>1, <2>2, <2>3, <1>p, <1>a, <1>c, <1>y DEF JoiningFrom
<1>Switchings. Switchings'
  <2> SUFFICES ASSUME NEW h \in Gnb, NEW q \in Rnti, St(h, q)' = "HANDOVER_PATH_SWITCH"
               PROVE  /\ Switched(h)' /\ imsiRnti'[h] = q
                      /\ \E x \in Gnb, y \in Rnti : SwitchingFrom(h, q, x, y)'
    BY DEF Switchings
  <2>1. St(h, q) = "HANDOVER_PATH_SWITCH" /\ (h # g \/ q # w)
    BY <1>c
  <2>2. PICK x \in Gnb, y \in Rnti : SwitchingFrom(h, q, x, y)
    BY <1>p, <2>1 DEF Switchings
  <2>3. Switched(h) /\ imsiRnti[h] = q
    BY <1>p, <2>1 DEF Switchings
  <2>4. SwitchingFrom(h, q, x, y)'
    BY <2>1, <2>2, <1>p, <1>a, <1>c, <1>x DEF SwitchingFrom
  <2> QED BY <2>3, <2>4, <1>p, <1>a DEF Switched
<1>Answers. Answers'
  BY <1>p, <1>a, <1>c, <1>s, <1>u, <1>n, <1>t, <1>x, <1>y DEF Answers
<1>UeIdle. UeIdle'
  BY <1>p, <1>a, <1>c, <1>s, <1>u, <1>n, <1>t, <1>x, <1>y DEF UeIdle
<1>UeConnecting. UeConnecting'
  BY <1>p, <1>a, <1>c, <1>s, <1>u, <1>n, <1>t, <1>x, <1>y,  <1>x, Kinds, Single DEF UeConnecting,
     SettingUp
<1>UeMoving. UeMoving'
  BY <1>p, <1>a, <1>c, <1>s, <1>u, <1>n, <1>t, <1>x, <1>y DEF UeMoving, Away
<1>UeConnected. UeConnected'
  BY <1>p, <1>a, <1>c, <1>s, <1>u, <1>n, <1>t, <1>x, <1>y DEF UeConnected, Away
<1> QED BY <1>p, <1>a, <1>TypeOK, <1>Messages, <1>Queues, <1>Contexts, <1>Leavings, <1>OneSource,
           <1>Requests, <1>Acks, <1>Failures, <1>Releases, <1>Cancels, <1>Joinings, <1>Switchings,
           <1>Answers, <1>UeIdle, <1>UeConnecting, <1>UeMoving, <1>UeConnected DEF IInv, Good

\* A failure finds the source leaving: the UE is released, and the invariant stays.
LEMMA UeReleased ==
    ASSUME Here, NEW t \in Gnb, NEW g \in Gnb, RecvHandoverPreparationFailure(t, g),
           NEW w \in Rnti, w = Head(x2[t][g]).old, St(g, w) = "HANDOVER_LEAVING"
    PROVE  IInv'
<1>p. /\ TypeOK /\ Messages /\ Queues /\ Contexts /\ Leavings /\ OneSource
      /\ Requests /\ Acks /\ Failures /\ Releases /\ Cancels
      /\ Joinings /\ Switchings /\ Answers
      /\ UeIdle /\ UeConnecting /\ UeMoving /\ UeConnected
      /\ fault = "none" /\ MaxRnti \in Nat /\ NoCell \notin Gnb
      /\ \A q \in Rnti : q \in Nat /\ q \in Id /\ q # 0
  BY HandoverAssumption DEF Here, Good, Rnti, Id
<1>d. /\ x2[t][g] # <<>> /\ Head(x2[t][g]).kind = "failure" /\ now = <<>>
  BY DEF RecvHandoverPreparationFailure, Arrives, Running
<1>h0. PICK n \in Id : Head(x2[t][g]) = Msg("failure", w, n) /\ Head(x2[t][g]).new = n
               /\ Sent("failure", t, g, w, n)
  BY <1>p, <1>d, HeadSent
<1>r. FailureMeets(t, g, w, n)
  BY <1>p, <1>h0 DEF Failures
<1>r1. /\ t # g /\ w <= last[g] /\ n = 0 /\ Peer(g, w) = t
       /\ NoTarget(g, w)
  BY <1>r DEF FailureMeets
<1>d1. PICK p \in Gnb, l \in Rnti : LeavingTo(g, w, p, l)
  BY <1>p DEF Leavings
<1>a0. /\ RemoveUe(g, w) /\ dl' = dl
            /\ now' = Append(now, [kind |-> "release", cell |-> g, rnti |-> w])
       /\ x2' = Take(t, g) /\ ue' = ue /\ ul' = ul /\ s1' = s1 /\ leavingLast' = leavingLast
            /\ fault' = fault
  BY DEF RecvHandoverPreparationFailure, FailureLeaves, SendRrcConnectionRelease, Here, Exists, St
<1>c0. Removed(g, w)
  BY <1>p, <1>a0, ContextRemoved
<1>c. /\ ctx' \in [Gnb -> [Rnti -> ContextType]]
      /\ \A h \in Gnb, q \in Rnti : Guarded(ctx'[h][q])
      /\ St(g, w)' = "NONE" /\ Timer(g, w)' = "none" /\ ~Pend(g, w)'
      /\ \A h \in Gnb, q \in Rnti : h # g \/ q # w =>
            /\ St(h, q)' = St(h, q) /\ Peer(h, q)' = Peer(h, q)
            /\ Timer(h, q)' = Timer(h, q) /\ Pend(h, q)' = Pend(h, q)
            /\ \A x, y : Linked(h, q, x, y)' <=> Linked(h, q, x, y)
  BY <1>c0 DEF Removed, OthersStay
<1>tz. /\ \A h \in Gnb : /\ teid'[h] \in Nat /\ (teid[h] = 0 => teid'[h] = 0) /\ teid'[h] <= last[h]
                           /\ \A q \in Rnti : teid'[h] = q => teid[h] = q /\ (h # g \/ q # w)
  <2>1. \A h \in Gnb : last[h] \in Nat /\ teid[h] \in Nat /\ teid[h] <= last[h] /\ teid'[h] \in Nat
    BY <1>p, <1>c0 DEF TypeOK, Contexts, Removed
  <2>2. \A h \in Gnb : \/ teid'[h] = teid[h] /\ ~(h = g /\ teid[h] = w)
                       \/ h = g /\ teid[h] = w /\ teid'[h] = 0
    BY <1>c0 DEF Removed
  <2>3. \A h \in Gnb : 0 <= last[h]
    BY <2>1
  <2>4. w # 0 /\ \A q \in Rnti : q # 0
    BY <1>p
  <2> QED BY ONLY <2>1, <2>2, <2>3, <2>4, g \in Gnb, w \in Rnti
<1>a. /\ ue' = ue /\ dl' = dl /\ ul' = ul /\ now = <<>>
           /\ now' = <<[kind |-> "release", cell |-> g, rnti |-> w]>>
      /\ St(g, w) = "HANDOVER_LEAVING"
      /\ UNCHANGED <<last, imsiRnti, s1, leavingLast, fault>>
  BY <1>a0, <1>c0, <1>d, Single DEF Removed
<1>m. /\ x2' \in [Gnb -> [Gnb -> Seq(Message)]] /\ Queues'
      /\ \A kind, from, to, old, new : from \in Gnb /\ to \in Gnb =>
            /\ Sent(kind, from, to, old, new)' => Sent(kind, from, to, old, new)
            /\ Sent(kind, from, to, old, new) =>
                  \/ Sent(kind, from, to, old, new)'
                  \/ kind = "failure" /\ from = t /\ to = g /\ old = w /\ new = n
      /\ \A q \in Id : ~Sent("failure", t, g, w, q)'
      /\ \A q \in Id : ~Sent("ack", t, g, w, q)'
  <2>1. Takes(t, g) /\ Messages /\ Queues
    BY <1>p, <1>a0 DEF Takes
  <2>2. Taken("failure", t, g, w, n)
    BY ONLY t \in Gnb, g \in Gnb, <1>d, <1>h0, <2>1, MessageTaken
  <2> QED BY <2>2 DEF Taken
<1>s. \A kind, from, to, old, new : from \in Gnb /\ to \in Gnb /\ kind # "failure" =>
         (Sent(kind, from, to, old, new)' <=> Sent(kind, from, to, old, new))
  BY <1>m
<1>s1. \A kind, from, to, old, new : from \in Gnb /\ to \in Gnb =>
         (Sent(kind, from, to, old, new)' => Sent(kind, from, to, old, new))
  BY <1>m
<1>t. /\ \A h \in Gnb : last[h] \in Nat /\ teid[h] \in Nat /\ imsiRnti[h] \in Nat
  BY <1>p DEF TypeOK
<1>n. \A h, q :
         /\ ~Released(h, q) /\ ~Leaves(h, q) /\ ~Leaves(h, q)'
         /\ Released(h, q)' <=> h = g /\ q = w
  BY <1>a, Single DEF Released, Leaves
<1>u. /\ Idle' <=> Idle
      /\ \A h, q :
            /\ UeAt(h, q)' <=> UeAt(h, q)
            /\ On(h, q)' <=> On(h, q)
            /\ Home(h, q)' <=> Home(h, q)
  BY <1>a, <1>n DEF Idle, UeAt, On, Home
<1>w. Released(g, w)' /\ w \in Id
  BY <1>p, <1>n
<1>x. Idle \/ On(g, w) \/ (ue.from = <<g, w>> /\ ~ue.left)
  BY <1>d1 DEF LeavingTo
<1>y. \A h \in Gnb, q \in Rnti : /\ St(h, q) # "HANDOVER_PREPARATION"
                               /\ (St(h, q) = "HANDOVER_LEAVING" => h = g /\ q = w)
  BY <1>p, <1>a DEF OneSource, Source
<1>TypeOK. TypeOK'
  BY <1>p, <1>a, <1>c0 DEF TypeOK, Removed
<1>Messages. Messages'
  BY <1>p, <1>a, <1>m, <1>w DEF Messages
<1>Queues. Queues'
  BY <1>m
<1>Contexts. Contexts'
  <2> SUFFICES ASSUME NEW h \in Gnb, NEW q \in Rnti
               PROVE  teid'[h] <= last'[h] /\ imsiRnti'[h] <= last'[h] /\ ContextFits(h, q)'
    BY DEF Contexts
  <2>0. teid'[h] <= last'[h] /\ imsiRnti'[h] <= last'[h]
    BY <1>p, <1>c0, <1>tz DEF Contexts, Removed
  <2>1. CASE h = g /\ q = w
    BY <2>0, <1>tz, <1>c, <2>1 DEF ContextFits, Attached
  <2>2. CASE h # g \/ q # w
    <3>1. teid'[h] = q => teid[h] = q
      BY <1>tz
    <3>2. q <= last[h] => q <= last'[h]
      BY <1>c0 DEF Removed
    <3> QED BY <2>0, <3>1, <3>2, <1>p, <1>c, <1>u, <2>2 DEF Contexts, ContextFits
  <2> QED BY <2>1, <2>2
<1>Leavings. Leavings'
  BY <1>c, <1>y DEF Leavings
<1>OneSource. OneSource'
  <2> SUFFICES ASSUME NEW h \in Gnb, NEW q \in Rnti
               PROVE  NothingNew(h, q)
    BY <1>p, OneSourceStays
  <2> QED BY <1>p, <1>a, <1>c, <1>s, <1>u, <1>t, <1>x, <1>n DEF NothingNew, Source, Target
<1>Requests. Requests'
  <2> SUFFICES ASSUME NEW a \in Gnb, NEW b \in Gnb, NEW o \in Id, NEW m \in Id,
                      Sent("request", a, b, o, m)'
               PROVE  RequestMeets(a, b, o, m)'
    BY DEF Requests
  <2>1. Sent("request", a, b, o, m) /\ RequestMeets(a, b, o, m)
    BY <1>p, <1>a, <1>c, <1>s, <1>u, <1>t, <1>x, <1>n, <1>tz DEF Requests
  <2>2. a # b /\ o \in Rnti /\ o <= last'[a] /\ m = 0
    BY <2>1, <1>p, <1>a, <1>c, <1>s, <1>u, <1>t, <1>x, <1>n, <1>tz DEF RequestMeets
  <2>3. /\ St(a, o)' \in {"NONE", "HANDOVER_PREPARATION"}
        /\ St(a, o)' # "NONE" => Peer(a, o)' = b
    BY <2>1, <1>p, <1>a, <1>c, <1>s, <1>u, <1>t, <1>x, <1>n, <1>tz DEF RequestMeets
  <2>4. Idle' \/ (On(a, o)' /\ St(a, o)' = "HANDOVER_PREPARATION")
    BY <2>1, <1>p, <1>a, <1>c, <1>s, <1>u, <1>t, <1>x, <1>n, <1>tz DEF RequestMeets
  <2>5. s1' = <<>> /\ (leavingLast' => teid'[b] = 0)
    BY <2>1, <1>p, <1>a, <1>c, <1>s, <1>u, <1>t, <1>x, <1>n, <1>tz DEF RequestMeets
  <2>6. \A x, y \in Gnb, q, z \in Id :
           /\ ~Sent("ack", x, y, q, z)'
           /\ Sent("request", x, y, q, z)' => x = a /\ y = b /\ q = o
           /\ ~Sent("failure", x, a, o, z)'
    <3>1. /\ \A x, y \in Gnb, q, z0 \in Id : ~Sent("ack", x, y, q, z0)
          /\ \A x, y \in Gnb, q, z0 \in Id : Sent("request", x, y, q, z0) => x = a /\ y = b /\ q = o
          /\ \A x \in Gnb, z0 \in Id : ~Sent("failure", x, a, o, z0)
      BY <2>1 DEF RequestMeets
    <3> QED BY <3>1, <1>s1
  <2>7. NoTarget(a, o)'
    BY <2>1, <1>c DEF RequestMeets, NoTarget
  <2> QED BY <2>2, <2>3, <2>4, <2>5, <2>6, <2>7 DEF RequestMeets
<1>Acks. Acks'
  <2> SUFFICES ASSUME NEW a \in Gnb, NEW b \in Gnb, NEW o \in Id, NEW m \in Id,
                      Sent("ack", a, b, o, m)'
               PROVE  AckMeets(a, b, o, m)'
    BY DEF Acks
  <2>1. Sent("ack", a, b, o, m) /\ AckMeets(a, b, o, m)
    BY <1>p, <1>a, <1>c, <1>s, <1>u, <1>t, <1>x, <1>n, <1>y DEF Acks
  <2>2. a # b /\ o \in Rnti /\ o <= last'[b] /\ m \in Rnti /\ m <= last'[a]
    BY <2>1, <1>p, <1>a, <1>c, <1>s, <1>u, <1>t, <1>x, <1>n, <1>y DEF AckMeets
  <2>3. /\ St(b, o)' \in {"NONE", "HANDOVER_PREPARATION"}
        /\ St(b, o)' # "NONE" => Peer(b, o)' = a
    BY <2>1, <1>p, <1>a, <1>c, <1>s, <1>u, <1>t, <1>x, <1>n, <1>y DEF AckMeets
  <2>4. Idle' \/ (On(b, o)' /\ St(b, o)' = "HANDOVER_PREPARATION")
    BY <2>1, <1>p, <1>a, <1>c, <1>s, <1>u, <1>t, <1>x, <1>n, <1>y DEF AckMeets
  <2>5. \/ St(a, m)' = "HANDOVER_JOINING" /\ Linked(a, m, b, o)'
        \/ St(a, m)' = "NONE" /\ Sent("failure", a, b, o, 0)'
    BY <2>1, <1>p, <1>a, <1>c, <1>s, <1>u, <1>t, <1>x, <1>n, <1>y, <1>m DEF AckMeets
  <2>6. \A x, y \in Gnb, q, z \in Id :
           Sent("ack", x, y, q, z)' => x = a /\ y = b /\ q = o /\ z = m
    BY <2>1, <1>p, <1>a, <1>c, <1>s, <1>u, <1>t, <1>x, <1>n, <1>y DEF AckMeets
  <2> QED BY <2>2, <2>3, <2>4, <2>5, <2>6 DEF AckMeets
<1>Failures. Failures'
  <2> SUFFICES ASSUME NEW a \in Gnb, NEW b \in Gnb, NEW o \in Id, NEW m \in Id,
                      Sent("failure", a, b, o, m)'
               PROVE  FailureMeets(a, b, o, m)'
    BY DEF Failures
  <2>1. Sent("failure", a, b, o, m) /\ FailureMeets(a, b, o, m)
    BY <1>p, <1>a, <1>c, <1>s, <1>u, <1>t, <1>x, <1>n, <1>s1 DEF Failures
  <2>2. a # b /\ o \in Rnti /\ o <= last'[b] /\ m = 0
    BY <2>1, <1>p, <1>a, <1>c, <1>s, <1>u, <1>t, <1>x, <1>n, <1>s1 DEF FailureMeets
  <2>3. /\ St(b, o)' \in {"NONE", "HANDOVER_PREPARATION", "HANDOVER_LEAVING"}
        /\ St(b, o)' # "NONE" => Peer(b, o)' = a
    BY <2>1, <1>p, <1>a, <1>c, <1>s, <1>u, <1>t, <1>x, <1>n, <1>s1 DEF FailureMeets
  <2>4. St(b, o)' = "HANDOVER_LEAVING" => \A z \in Rnti : Linked(b, o, a, z)' => St(a, z)' = "NONE"
    BY <2>1, <1>p, <1>a, <1>c, <1>s, <1>u, <1>t, <1>x, <1>n, <1>s1 DEF FailureMeets
  <2>5. St(b, o)' = "HANDOVER_LEAVING"
                => \A x \in Gnb, z \in Id : ~Sent("context_release", x, b, o, z)'
    BY <2>1, <1>p, <1>a, <1>c, <1>s, <1>u, <1>t, <1>x, <1>n, <1>s1 DEF FailureMeets
  <2>6. NoTarget(b, o)'
    BY <2>1, <1>p, <1>a, <1>c, <1>s, <1>u, <1>t, <1>x, <1>n, <1>s1 DEF FailureMeets, NoTarget
  <2> QED BY <2>2, <2>3, <2>4, <2>5, <2>6 DEF FailureMeets
<1>Releases. Releases'
  BY <1>p, <1>a, <1>c, <1>s, <1>u, <1>t, <1>x, <1>n DEF Releases, ReleaseMeets
<1>Cancels. Cancels'
  BY <1>p, <1>a, <1>c, <1>s, <1>u, <1>t, <1>x, <1>n DEF Cancels, CancelMeets
<1>Joinings. Joinings'
  <2> SUFFICES ASSUME NEW h \in Gnb, NEW q \in Rnti, St(h, q)' = "HANDOVER_JOINING"
               PROVE  \E x \in Gnb, y \in Rnti : JoiningFrom(h, q, x, y)'
    BY DEF Joinings
  <2>1. St(h, q) = "HANDOVER_JOINING" /\ (h # g \/ q # w)
    BY <1>c
  <2>2. PICK x \in Gnb, y \in Rnti : JoiningFrom(h, q, x, y)
    BY <1>p, <2>1 DEF Joinings
  <2> QED BY <2>1, <2>2, <1>p, <1>a, <1>c, <1>s, <1>x DEF JoiningFrom
<1>Switchings. Switchings'
  <2> SUFFICES ASSUME NEW h \in Gnb, NEW q \in Rnti, St(h, q)' = "HANDOVER_PATH_SWITCH"
               PROVE  /\ Switched(h)' /\ imsiRnti'[h] = q
                      /\ \E x \in Gnb, y \in Rnti : SwitchingFrom(h, q, x, y)'
    BY DEF Switchings
  <2>1. St(h, q) = "HANDOVER_PATH_SWITCH" /\ (h # g \/ q # w)
    BY <1>c
  <2>2. PICK x \in Gnb, y \in Rnti : SwitchingFrom(h, q, x, y)
    BY <1>p, <2>1 DEF Switchings
  <2>3. Switched(h) /\ imsiRnti[h] = q
    BY <1>p, <2>1 DEF Switchings
  <2>4. SwitchingFrom(h, q, x, y)'
    BY <2>1, <2>2, <1>p, <1>a, <1>c, <1>x DEF SwitchingFrom
  <2> QED BY <2>3, <2>4, <1>p, <1>a DEF Switched
<1>Answers. Answers'
  BY <1>p, <1>a, <1>c, <1>s, <1>u, <1>t, <1>x, <1>n DEF Answers
<1>UeIdle. UeIdle'
  BY <1>p, <1>a, <1>c, <1>c0, <1>n, <1>u, <1>x, <1>r1, <1>w DEF UeIdle, Removed
<1>UeConnecting. UeConnecting'
  <2>0. PICK e, v : e = ue.cell /\ v = ue.rnti
    OBVIOUS
  <2>1. CASE e = g /\ v = w
    BY <2>0, <2>1, <1>p, <1>a, <1>c, <1>s, <1>u, <1>t, <1>x, <1>n, Kinds, Single DEF UeConnecting,
       SettingUp
  <2>2. CASE ~(e = g /\ v = w)
    BY <2>0, <2>2, <1>p, <1>a, <1>c, <1>s, <1>u, <1>t, <1>x, <1>n, Kinds, Single DEF UeConnecting,
       SettingUp, UeIdle, Idle
  <2> QED BY <2>1, <2>2
<1>UeMoving. UeMoving'
  <2>0. PICK e, v : e = ue.cell /\ v = ue.rnti
    OBVIOUS
  <2>1. CASE e = g /\ v = w
    BY <2>0, <2>1, <1>p, <1>a, <1>c, <1>s, <1>u, <1>t, <1>x, <1>n, <1>w, <1>y DEF UeMoving, Away
  <2>2. CASE ~(e = g /\ v = w)
    BY <2>0, <2>2, <1>p, <1>a, <1>c, <1>s, <1>u, <1>t, <1>x, <1>n, <1>w, <1>y DEF UeMoving, Away,
       UeIdle, Idle
  <2> QED BY <2>1, <2>2
<1>UeConnected. UeConnected'
  <2>0. PICK e, v : e = ue.cell /\ v = ue.rnti
    OBVIOUS
  <2>1. CASE e = g /\ v = w
    BY <2>0, <2>1, <1>p, <1>a, <1>c, <1>s, <1>u, <1>t, <1>x, <1>n, <1>w, <1>y,
       Kinds DEF UeConnected, Away
  <2>2. CASE ~(e = g /\ v = w)
    BY <2>0, <2>2, <1>p, <1>a, <1>c, <1>s, <1>u, <1>t, <1>x, <1>n, <1>w, <1>y,
       Kinds DEF UeConnected, Away, UeIdle, Idle
  <2> QED BY <2>1, <2>2
<1> QED BY <1>p, <1>a, <1>TypeOK, <1>Messages, <1>Queues, <1>Contexts, <1>Leavings, <1>OneSource,
           <1>Requests, <1>Acks, <1>Failures, <1>Releases, <1>Cancels, <1>Joinings, <1>Switchings,
           <1>Answers, <1>UeIdle, <1>UeConnecting, <1>UeMoving, <1>UeConnected DEF IInv, Good

\* The core has switched the path: the source is told, and the invariant stays.
LEMMA PathSwitched ==
    ASSUME Here, RecvPathSwitchAck, NEW g \in Gnb, NEW w \in Rnti, g = Head(s1).gnb,
           w = imsiRnti[g], St(g, w) = "HANDOVER_PATH_SWITCH"
    PROVE  IInv'
<1>p. /\ TypeOK /\ Messages /\ Queues /\ Contexts /\ Leavings /\ OneSource
      /\ Requests /\ Acks /\ Failures /\ Releases /\ Cancels
      /\ Joinings /\ Switchings /\ Answers
      /\ UeIdle /\ UeConnecting /\ UeMoving /\ UeConnected
      /\ fault = "none" /\ MaxRnti \in Nat /\ NoCell \notin Gnb
      /\ \A q \in Rnti : q \in Nat /\ q \in Id /\ q # 0
  BY HandoverAssumption DEF Here, Good, Rnti, Id
<1>d. now = <<>> /\ s1 = <<[kind |-> "switched", gnb |-> g]>>
  <2>1. now = <<>> /\ s1 # <<>> /\ Head(s1).kind = "switched" /\ Head(s1).gnb = g
    BY DEF RecvPathSwitchAck, Running
  <2>2. PICK k \in {"switched", "attached"}, h \in Gnb : s1 = <<[kind |-> k, gnb |-> h]>>
    BY <1>p, <2>1 DEF Messages
  <2>3. Head(s1).kind = k /\ Head(s1).gnb = h
    BY <2>2, Single
  <2> QED BY <2>1, <2>2, <2>3
<1>d1. /\ ue.st = "CONNECTED_NORMALLY" /\ ~ue.left /\ ue.cell = g /\ ue.rnti = w
       /\ UeAt(g, w) /\ On(g, w) /\ ~Idle
       /\ \A h \in Gnb, q \in Rnti : St(h, q) \in Attached => h = g /\ q = w
  BY <1>d, UeThere DEF Here, Attached
<1>d2. dl = <<>> /\ ul = <<>>
  BY <1>p, <1>d, <1>d1 DEF UeConnected, Released
<1>g0. PICK s \in Gnb, r \in Rnti : SwitchingFrom(g, w, s, r)
  BY <1>p DEF Switchings
<1>g. /\ Linked(g, w, s, r) /\ s # g /\ r <= last[s] /\ w <= last[g] /\ Pend(g, w)
      /\ St(s, r) \in {"NONE", "HANDOVER_LEAVING"}
      /\ St(s, r) = "HANDOVER_LEAVING" => Linked(s, r, g, w)
  BY <1>p, <1>g0 DEF SwitchingFrom, Contexts, ContextFits
<1>a0. /\ ctx' = [ctx EXCEPT ![g][w] = Connected(@)]
       /\ dl' = Append(dl, [kind |-> "reconf"]) /\ s1' = Tail(s1)
       /\ Adds(g, s, Msg("context_release", r, w))
       /\ UNCHANGED <<last, teid, imsiRnti, ue, ul, now, leavingLast, fault>>
  <2>1. Exists(g, w) /\ ctx[g][w].st = "HANDOVER_PATH_SWITCH" /\ ctx[g][w].peer = s
                /\ ctx[g][w].peerId = r /\ ctx[g][w].pend
    BY <1>g DEF Exists, St, Linked, Pend
  <2> QED BY <1>d, <1>d1, <2>1 DEF RecvPathSwitchAck, Here, Reconfigures, Adds
<1>a. /\ dl' = <<Reconf>> /\ ul' = <<>> /\ dl = <<>> /\ ul = <<>>
      /\ ue' = ue /\ now = <<>> /\ now' = <<>> /\ g = ue.cell /\ w = ue.rnti
           /\ ue.st = "CONNECTED_NORMALLY"
      /\ St(g, w) = "HANDOVER_PATH_SWITCH" /\ imsiRnti[g] = w
      /\ s1 = <<[kind |-> "switched", gnb |-> g]>> /\ s1' = <<>> /\ s1 # <<>>
      /\ UNCHANGED <<last, teid, imsiRnti, leavingLast, fault>>
  BY <1>a0, <1>d, <1>d1, <1>d2, Single DEF Reconf
<1>j. /\ ctx \in [Gnb -> [Rnti -> ContextType]]
      /\ ctx[g][w] \in ContextType
  BY <1>p DEF TypeOK
<1>k. PICK d \in ContextType : d = ctx[g][w]
  BY <1>j
<1>k1. PICK c : c = Connected(d)
  OBVIOUS
<1>k2. /\ c \in ContextType /\ c.st = "CONNECTION_RECONFIGURATION" /\ c.timer = "none"
       /\ c.peer = d.peer /\ c.peerId = d.peerId /\ c.pend = FALSE
  <2>1. d.pend
    BY <1>g, <1>k DEF Pend
  <2> QED BY ONLY <2>1, <1>k1, ConnectedContext
<1>k3. Guarded(c)
  BY <1>k2 DEF Guarded
<1>b. ctx' = [ctx EXCEPT ![g][w] = Connected(@)]
  BY <1>a0
<1>e. Put(g, w, c)
  <2>1. c = Connected(ctx[g][w])
    BY <1>k, <1>k1
  <2> QED BY ONLY g \in Gnb, w \in Rnti, <1>j, <1>b, <2>1 DEF Put
<1>c. /\ ctx' \in [Gnb -> [Rnti -> ContextType]]
      /\ \A h \in Gnb, q \in Rnti : Guarded(ctx'[h][q])
      /\ St(g, w)' = "CONNECTION_RECONFIGURATION" /\ Timer(g, w)' = "none" /\ Pend(g, w)' = FALSE
      /\ \A h \in Gnb, q \in Rnti :
            /\ h # g \/ q # w => /\ St(h, q)' = St(h, q) /\ Timer(h, q)' = Timer(h, q)
                                 /\ Pend(h, q)' = Pend(h, q)
            /\ Peer(h, q)' = Peer(h, q)
            /\ \A x, y : Linked(h, q, x, y)' <=> Linked(h, q, x, y)
  <2>1. c.peer = ctx[g][w].peer /\ c.peerId = ctx[g][w].peerId
    BY <1>k, <1>k2
  <2>2. c.pend = FALSE
    BY <1>k, <1>k2 DEF Pend
  <2>3. TypeOK
    BY <1>p
  <2>4. Changed(g, w, c)
    BY ONLY g \in Gnb, w \in Rnti, <1>k2, <1>k3, <1>e, <2>1, <2>3, ContextChanged
  <2> QED BY <1>k2, <2>2, <2>4 DEF Changed
<1>m. /\ x2' \in [Gnb -> [Gnb -> Seq(Message)]] /\ Queues'
      /\ \A kind, from, to, old, new : from \in Gnb /\ to \in Gnb =>
            (Sent(kind, from, to, old, new)' <=>
                 \/ Sent(kind, from, to, old, new)
                 \/ kind = "context_release" /\ from = g /\ to = s /\ old = r /\ new = w)
  <2>1. Msg("context_release", r, w) \in Message
    BY <1>p DEF Msg, Message, Id
  <2>2. Fits("context_release", g, s, r)
    BY DEF Fits
  <2>3. Messages /\ Queues
    BY <1>p
  <2> QED BY ONLY g \in Gnb, s \in Gnb, <1>a0, <2>1, <2>2, <2>3, MessageAdded
<1>s. \A kind, from, to, old, new : from \in Gnb /\ to \in Gnb /\ kind # "context_release" =>
         (Sent(kind, from, to, old, new)' <=> Sent(kind, from, to, old, new))
  BY <1>m
<1>u. /\ Idle' <=> Idle
      /\ \A h, q :
            /\ UeAt(h, q)' <=> UeAt(h, q)
            /\ On(h, q)' <=> On(h, q)
            /\ Home(h, q)' <=> Home(h, q)
            /\ Leaves(h, q)' <=> Leaves(h, q)
            /\ Released(h, q)' <=> Released(h, q)
  BY <1>a, UeSame
<1>t. /\ \A h \in Gnb : last[h] \in Nat /\ teid[h] \in Nat /\ imsiRnti[h] \in Nat
  BY <1>p DEF TypeOK
<1>n. \A h, q :
         /\ ~Released(h, q) /\ ~Released(h, q)' /\ ~Leaves(h, q) /\ ~Leaves(h, q)'
  BY <1>a DEF Released, Leaves
<1>x. St(g, w) = "HANDOVER_PATH_SWITCH" /\ ~Idle /\ ~Idle' /\ On(g, w) /\ UeAt(g, w) /\ Home(g, w)
              /\ w <= last[g]
  BY <1>a, <1>d1, <1>p, <1>u, <1>g DEF Home
<1>y. \A h \in Gnb, q \in Rnti : /\ St(h, q) # "HANDOVER_PREPARATION"
                               /\ (St(h, q) = "HANDOVER_PATH_SWITCH" => h = g /\ q = w)
  BY <1>d1 DEF Attached
<1>z. /\ Switched(g) /\ \A h \in Gnb : Switched(h) => h = g
      /\ \A a, b \in Gnb, o, m \in Id : /\ ~Sent("request", a, b, o, m)
                                     /\ ~Sent("ack", a, b, o, m)
                                          /\ ~Sent("context_release", a, b, o, m)
                                     /\ (Sent("failure", a, b, o, m) => b # s \/ o # r)
  <2>1. Switched(g) /\ \A h \in Gnb : Switched(h) => h = g
    BY <1>a, Single DEF Switched
  <2>2. ASSUME NEW a \in Gnb, NEW b \in Gnb, NEW o \in Id, NEW m \in Id
       PROVE  /\ ~Sent("request", a, b, o, m)
              /\ ~Sent("ack", a, b, o, m) /\ ~Sent("context_release", a, b, o, m)
              /\ (Sent("failure", a, b, o, m) => b # s \/ o # r)
    <3>1. ~Sent("request", a, b, o, m)
      BY <1>p, <1>a DEF Requests, RequestMeets
    <3>2. ~Sent("ack", a, b, o, m)
      BY <1>p, <1>x, <1>y DEF Acks, AckMeets
    <3>3. ~Sent("context_release", a, b, o, m)
      <4>1. SUFFICES ASSUME Sent("context_release", a, b, o, m)
                     PROVE  FALSE
        OBVIOUS
      <4>2. ReleaseMeets(a, b, o, m)
        BY <4>1, <1>p DEF Releases
      <4>3. UeAt(a, m)
        BY <4>2, <1>x DEF ReleaseMeets, On
      <4>4. a = g /\ m = w
        BY <4>3, <1>d1 DEF UeAt
      <4> QED BY <4>2, <4>4, <1>x DEF ReleaseMeets
    <3>4. Sent("failure", a, b, o, m) => b # s \/ o # r
      BY <1>p, <1>g, <1>a DEF Failures, FailureMeets, NoTarget
    <3> QED BY <3>1, <3>2, <3>3, <3>4
  <2> QED BY <2>1, <2>2
<1>z1. /\ Switched(g) /\ \A h \in Gnb : Switched(h) => h = g
       /\ ~Sent("failure", g, s, r, 0)
  BY <1>z, <1>p DEF Id
<1>TypeOK. TypeOK'
  BY <1>p, <1>a, <1>c, Single DEF TypeOK
<1>Messages. Messages'
  BY <1>p, <1>a, <1>m, <1>u DEF Messages
<1>Queues. Queues'
  BY <1>m
<1>Contexts. Contexts'
  <2> SUFFICES ASSUME NEW h \in Gnb, NEW q \in Rnti
               PROVE  teid'[h] <= last'[h] /\ imsiRnti'[h] <= last'[h] /\ ContextFits(h, q)'
    BY DEF Contexts
  <2>1. CASE h = g /\ q = w
    BY <1>p, <1>a, <1>c, <1>u, <1>x, <2>1 DEF Contexts, ContextFits, Attached, SettingUp
  <2>2. CASE h # g \/ q # w
    BY <1>p, <1>a, <1>c, <1>u, <2>2 DEF Contexts, ContextFits, Attached, SettingUp
  <2> QED BY <2>1, <2>2
<1>Leavings. Leavings'
  <2> SUFFICES ASSUME NEW h \in Gnb, NEW q \in Rnti, St(h, q)' = "HANDOVER_LEAVING"
               PROVE  \E x \in Gnb, y \in Rnti : LeavingTo(h, q, x, y)'
    BY DEF Leavings
  <2>1. St(h, q) = "HANDOVER_LEAVING" /\ (h # g \/ q # w)
    BY <1>c, <1>x
  <2>2. PICK x \in Gnb, y \in Rnti : LeavingTo(h, q, x, y)
    BY <1>p, <2>1 DEF Leavings
  <2>3. Pending(h, q, x, y)'
    <3>1. CASE x = g /\ y = w
      <4>1. Linked(g, w, h, q) \/ Sent("failure", g, h, q, 0) \/ Sent("context_release", g, h, q, w)
        BY <2>2, <3>1, <1>x DEF LeavingTo, Pending
      <4>2. CASE Linked(g, w, h, q)
        <5>1. h = s /\ q = r
          BY <4>2, <1>g, LinkedOnce
        <5>2. Sent("context_release", g, s, r, w)'
          BY <1>m
        <5> QED BY <3>1, <5>1, <5>2 DEF Pending
      <4>3. CASE Sent("failure", g, h, q, 0)
        <5>1. Sent("failure", g, h, q, 0)'
          BY <4>3, <1>s
        <5> QED BY <3>1, <5>1 DEF Pending
      <4>4. CASE Sent("context_release", g, h, q, w)
        BY <4>4, <1>z, <1>p
      <4> QED BY <4>1, <4>2, <4>3, <4>4
    <3>2. CASE x # g \/ y # w
      <4>1. ~(Switched(x) /\ imsiRnti[x] = y)
        BY <3>2, <1>z, <1>a
      <4>2. ~Sent("context_release", x, h, q, y)
        BY <1>z, <1>p
      <4>3. Sent("failure", x, h, q, 0)' <=> Sent("failure", x, h, q, 0)
        BY <1>s
      <4> QED BY <2>1, <2>2, <3>2, <4>1, <4>2, <4>3, <1>c, <1>u, <1>y DEF LeavingTo, Pending
    <3> QED BY <3>1, <3>2
  <2>4. St(x, y)' \in {"NONE", "HANDOVER_JOINING"} \/ Home(x, y)'
    BY <2>2, <1>p, <1>a, <1>c, <1>u, <1>x DEF LeavingTo
  <2>5. \/ Idle'
        \/ On(h, q)'
        \/ ue'.from = <<h, q>> /\ ue'.cell = x /\ ~ue'.left /\ (ue'.rnti = y \/ St(x, y)' = "NONE")
    BY <2>2, <1>p, <1>a, <1>c, <1>u, <1>x DEF LeavingTo
  <2> QED BY <2>1, <2>2, <2>3, <2>4, <2>5, <1>a, <1>c DEF LeavingTo
<1>OneSource. OneSource'
  <2> SUFFICES ASSUME NEW h \in Gnb, NEW q \in Rnti
               PROVE  NothingNew(h, q)
    BY <1>p, OneSourceStays
  <2> QED BY <1>p, <1>a, <1>c, <1>s, <1>u, <1>n, <1>t, <1>x, <1>y DEF NothingNew, Source, Target
<1>Requests. Requests'
  BY <1>z, <1>s DEF Requests
<1>Acks. Acks'
  BY <1>z, <1>s DEF Acks
<1>Failures. Failures'
  <2> SUFFICES ASSUME NEW a \in Gnb, NEW b \in Gnb, NEW o \in Id, NEW m \in Id,
                      Sent("failure", a, b, o, m)'
               PROVE  FailureMeets(a, b, o, m)'
    BY DEF Failures
  <2>1. Sent("failure", a, b, o, m) /\ FailureMeets(a, b, o, m) /\ (b # s \/ o # r)
    BY <1>p, <1>s, <1>z DEF Failures
  <2>2. NoTarget(b, o)'
    BY <2>1, <1>c, <1>x DEF FailureMeets, NoTarget
  <2>3. \A x \in Gnb, v \in Id : ~Sent("context_release", x, b, o, v)'
    BY <2>1, <1>m, <1>z
  <2>4. b # g \/ o # w
    BY <2>1, <1>x DEF FailureMeets
  <2>5. St(b, o) = "HANDOVER_LEAVING" => \A v \in Rnti : Linked(b, o, a, v) => St(a, v)' = "NONE"
    BY <2>1, <1>c, <1>x DEF FailureMeets
  <2> QED BY <2>1, <2>2, <2>3, <2>4, <2>5, <1>a, <1>c DEF FailureMeets
<1>Releases. Releases'
  <2>1. ReleaseMeets(g, s, r, w)'
    BY <1>p, <1>a, <1>g, <1>c, <1>u, <1>x DEF ReleaseMeets
  <2>2. ASSUME NEW a \in Gnb, NEW b \in Gnb, NEW o \in Id, NEW m \in Id,
               Sent("context_release", a, b, o, m)'
       PROVE  a = g /\ b = s /\ o = r /\ m = w
    BY <2>2, <1>m, <1>z
  <2> QED BY <2>1, <2>2 DEF Releases
<1>Cancels. Cancels'
  BY <1>p, <1>a, <1>c, <1>s, <1>u, <1>n, <1>t, <1>x, <1>y DEF Cancels, CancelMeets
<1>Joinings. Joinings'
  <2> SUFFICES ASSUME NEW h \in Gnb, NEW q \in Rnti, St(h, q)' = "HANDOVER_JOINING"
               PROVE  \E x \in Gnb, y \in Rnti : JoiningFrom(h, q, x, y)'
    BY DEF Joinings
  <2>1. St(h, q) = "HANDOVER_JOINING" /\ (h # g \/ q # w)
    BY <1>c
  <2>2. PICK x \in Gnb, y \in Rnti : JoiningFrom(h, q, x, y)
    BY <1>p, <2>1 DEF Joinings
  <2> QED BY <2>1, <2>2, <1>p, <1>a, <1>c, <1>s, <1>x DEF JoiningFrom
<1>Switchings. Switchings'
  BY <1>c, <1>y DEF Switchings
<1>Answers. Answers'
  BY <1>p, <1>a, <1>c, <1>s, <1>u, <1>n, <1>t, <1>x, <1>y DEF Answers
<1>UeIdle. UeIdle'
  BY <1>p, <1>a, <1>c, <1>s, <1>u, <1>n, <1>t, <1>x, <1>y DEF UeIdle
<1>UeConnecting. UeConnecting'
  BY <1>p, <1>a, <1>c, <1>s, <1>u, <1>n, <1>t, <1>x, <1>y,  <1>x, Kinds, Single DEF UeConnecting,
     SettingUp
<1>UeMoving. UeMoving'
  BY <1>p, <1>a, <1>c, <1>s, <1>u, <1>n, <1>t, <1>x, <1>y DEF UeMoving, Away
<1>UeConnected. UeConnected'
  BY <1>p, <1>a, <1>c, <1>s, <1>u, <1>n, <1>t, <1>x, <1>y DEF UeConnected, Away
<1> QED BY <1>p, <1>a, <1>TypeOK, <1>Messages, <1>Queues, <1>Contexts, <1>Leavings, <1>OneSource,
           <1>Requests, <1>Acks, <1>Failures, <1>Releases, <1>Cancels, <1>Joinings, <1>Switchings,
           <1>Answers, <1>UeIdle, <1>UeConnecting, <1>UeMoving, <1>UeConnected DEF IInv, Good

\* A context release finds no context, and the invariant stays.
LEMMA ReleaseIgnored ==
    ASSUME Here, NEW t \in Gnb, NEW g \in Gnb, RecvUeContextRelease(t, g), NEW w \in Id,
           w = Head(x2[t][g]).old, ~Exists(g, w)
    PROVE  IInv'
<1>p. /\ TypeOK /\ Messages /\ Queues /\ Contexts /\ Leavings /\ OneSource
      /\ Requests /\ Acks /\ Failures /\ Releases /\ Cancels
      /\ Joinings /\ Switchings /\ Answers
      /\ UeIdle /\ UeConnecting /\ UeMoving /\ UeConnected
      /\ fault = "none" /\ MaxRnti \in Nat /\ NoCell \notin Gnb
      /\ \A q \in Rnti : q \in Nat /\ q \in Id /\ q # 0
  BY HandoverAssumption DEF Here, Good, Rnti, Id
<1>d. /\ x2[t][g] # <<>> /\ Head(x2[t][g]).kind = "context_release" /\ now = <<>>
  BY DEF RecvUeContextRelease, Arrives, Running
<1>h0. PICK n \in Id : Head(x2[t][g]) = Msg("context_release", w, n) /\ Head(x2[t][g]).new = n
               /\ Sent("context_release", t, g, w, n)
  BY <1>p, <1>d, HeadSent
<1>r. ReleaseMeets(t, g, w, n) /\ w \in Rnti
  BY <1>p, <1>h0 DEF Releases, ReleaseMeets
<1>r1. /\ St(g, w) = "NONE"
  BY <1>r DEF Exists, St
<1>a0. /\ ctx' = ctx /\ last' = last /\ teid' = teid /\ imsiRnti' = imsiRnti /\ dl' = dl
            /\ now' = now
       /\ x2' = Take(t, g) /\ ue' = ue /\ ul' = ul /\ s1' = s1 /\ leavingLast' = leavingLast
            /\ fault' = fault
  BY <1>r1 DEF RecvUeContextRelease, Here, gnbVars, ueVars, Exists, St
<1>a. /\ ue' = ue /\ dl' = dl /\ ul' = ul /\ now = <<>> /\ now' = <<>>
      /\ UNCHANGED <<ctx, last, teid, imsiRnti, s1, leavingLast, fault>>
  BY <1>d, <1>a0
<1>m. /\ x2' \in [Gnb -> [Gnb -> Seq(Message)]] /\ Queues'
      /\ \A kind, from, to, old, new : from \in Gnb /\ to \in Gnb =>
            /\ Sent(kind, from, to, old, new)' => Sent(kind, from, to, old, new)
            /\ Sent(kind, from, to, old, new) =>
                  \/ Sent(kind, from, to, old, new)'
                  \/ kind = "context_release" /\ from = t /\ to = g /\ old = w /\ new = n
  <2>1. Takes(t, g) /\ Messages /\ Queues
    BY <1>p, <1>a0 DEF Takes
  <2>2. Taken("context_release", t, g, w, n)
    BY ONLY t \in Gnb, g \in Gnb, <1>d, <1>h0, <2>1, MessageTaken
  <2> QED BY <2>2 DEF Taken
<1>s. \A kind, from, to, old, new : from \in Gnb /\ to \in Gnb /\ kind # "context_release" =>
         (Sent(kind, from, to, old, new)' <=> Sent(kind, from, to, old, new))
  BY <1>m
<1>s1. \A kind, from, to, old, new : from \in Gnb /\ to \in Gnb =>
         (Sent(kind, from, to, old, new)' => Sent(kind, from, to, old, new))
  BY <1>m
<1>c. \A h, q :
         /\ St(h, q)' = St(h, q) /\ Peer(h, q)' = Peer(h, q)
         /\ Timer(h, q)' = Timer(h, q) /\ Pend(h, q)' = Pend(h, q)
         /\ \A x, y : Linked(h, q, x, y)' <=> Linked(h, q, x, y)
  BY <1>a, ContextsSame
<1>u. /\ Idle' <=> Idle
      /\ \A h, q :
            /\ UeAt(h, q)' <=> UeAt(h, q)
            /\ On(h, q)' <=> On(h, q)
            /\ Home(h, q)' <=> Home(h, q)
            /\ Leaves(h, q)' <=> Leaves(h, q)
            /\ Released(h, q)' <=> Released(h, q)
  BY <1>a, UeSame
<1>t. /\ \A h \in Gnb : last[h] \in Nat /\ teid[h] \in Nat /\ imsiRnti[h] \in Nat
  BY <1>p DEF TypeOK
<1>n. \A h, q :
         /\ ~Released(h, q) /\ ~Released(h, q)' /\ ~Leaves(h, q) /\ ~Leaves(h, q)'
  BY <1>a DEF Released, Leaves
<1>TypeOK. TypeOK'
  BY <1>p, <1>a DEF TypeOK
<1>Messages. Messages'
  BY <1>p, <1>a, <1>m, <1>u DEF Messages
<1>Queues. Queues'
  BY <1>m
<1>Contexts. Contexts'
  BY <1>p, <1>a, <1>c, <1>s, <1>u, <1>n DEF Contexts, ContextFits, Attached, SettingUp
<1>Leavings. Leavings'
  <2> SUFFICES ASSUME NEW h \in Gnb, NEW q \in Rnti, St(h, q)' = "HANDOVER_LEAVING"
               PROVE  \E x \in Gnb, y \in Rnti : LeavingTo(h, q, x, y)'
    BY DEF Leavings
  <2>1. St(h, q) = "HANDOVER_LEAVING" /\ (h # g \/ q # w)
    BY <1>c, <1>r1
  <2>2. PICK x \in Gnb, y \in Rnti : LeavingTo(h, q, x, y)
    BY <1>p, <2>1 DEF Leavings
  <2>3. Pending(h, q, x, y)'
    <3>1. Sent("failure", x, h, q, 0) => Sent("failure", x, h, q, 0)'
      BY <2>1, <1>m
    <3>2. Sent("context_release", x, h, q, y) => Sent("context_release", x, h, q, y)'
      BY <2>1, <1>m
    <3> QED BY <2>2, <3>1, <3>2, <1>a, <1>c, <1>u DEF LeavingTo, Pending, Switched
  <2>4. St(x, y)' \in {"NONE", "HANDOVER_JOINING"} \/ Home(x, y)'
    BY <2>2, <1>p, <1>a, <1>c, <1>s, <1>u DEF LeavingTo
  <2>5. \/ Idle'
        \/ On(h, q)'
        \/ ue'.from = <<h, q>> /\ ue'.cell = x /\ ~ue'.left /\ (ue'.rnti = y \/ St(x, y)' = "NONE")
    BY <2>2, <1>p, <1>a, <1>c, <1>s, <1>u DEF LeavingTo
  <2> QED BY <2>2, <2>3, <2>4, <2>5, <1>a, <1>c DEF LeavingTo
<1>OneSource. OneSource'
  <2> SUFFICES ASSUME NEW h \in Gnb, NEW q \in Rnti
               PROVE  NothingNew(h, q)
    BY <1>p, OneSourceStays
  <2> QED BY <1>p, <1>a, <1>c, <1>s, <1>u, <1>n DEF NothingNew, Source, Target
<1>Requests. Requests'
  BY <1>p, <1>a, <1>c, <1>s, <1>u, <1>n DEF Requests, RequestMeets, NoTarget
<1>Acks. Acks'
  BY <1>p, <1>a, <1>c, <1>s, <1>u, <1>n DEF Acks, AckMeets
<1>Failures. Failures'
  <2> SUFFICES ASSUME NEW a \in Gnb, NEW b \in Gnb, NEW o \in Id, NEW m \in Id,
                      Sent("failure", a, b, o, m)'
               PROVE  FailureMeets(a, b, o, m)'
    BY DEF Failures
  <2>1. Sent("failure", a, b, o, m) /\ FailureMeets(a, b, o, m)
    BY <1>p, <1>a, <1>c, <1>s, <1>s1, <1>u DEF Failures
  <2>2. a # b /\ o \in Rnti /\ o <= last'[b] /\ m = 0
    BY <2>1, <1>p, <1>a, <1>c, <1>s, <1>s1, <1>u DEF FailureMeets
  <2>3. /\ St(b, o)' \in {"NONE", "HANDOVER_PREPARATION", "HANDOVER_LEAVING"}
        /\ St(b, o)' # "NONE" => Peer(b, o)' = a
    BY <2>1, <1>p, <1>a, <1>c, <1>s, <1>s1, <1>u DEF FailureMeets
  <2>4. St(b, o)' = "HANDOVER_LEAVING" => \A z \in Rnti : Linked(b, o, a, z)' => St(a, z)' = "NONE"
    BY <2>1, <1>p, <1>a, <1>c, <1>s, <1>s1, <1>u DEF FailureMeets
  <2>5. St(b, o)' = "HANDOVER_LEAVING"
                => \A x \in Gnb, z \in Id : ~Sent("context_release", x, b, o, z)'
    BY <2>1, <1>p, <1>a, <1>c, <1>s, <1>s1, <1>u DEF FailureMeets
  <2>6. NoTarget(b, o)'
    BY <2>1, <1>p, <1>a, <1>c, <1>s, <1>s1, <1>u DEF FailureMeets, NoTarget
  <2> QED BY <2>2, <2>3, <2>4, <2>5, <2>6 DEF FailureMeets
<1>Releases. Releases'
  <2> SUFFICES ASSUME NEW a \in Gnb, NEW b \in Gnb, NEW o \in Id, NEW m \in Id,
                      Sent("context_release", a, b, o, m)'
               PROVE  ReleaseMeets(a, b, o, m)'
    BY DEF Releases
  <2>1. Sent("context_release", a, b, o, m) /\ ReleaseMeets(a, b, o, m)
    BY <1>p, <1>a, <1>c, <1>s1, <1>u DEF Releases
  <2>2. a # b /\ o \in Rnti /\ o <= last'[b] /\ m \in Rnti /\ m <= last'[a]
    BY <2>1, <1>p, <1>a, <1>c, <1>s1, <1>u DEF ReleaseMeets
  <2>3. /\ St(b, o)' \in {"NONE", "HANDOVER_LEAVING"}
        /\ St(b, o)' # "NONE" => Linked(b, o, a, m)'
    BY <2>1, <1>p, <1>a, <1>c, <1>s1, <1>u DEF ReleaseMeets
  <2>4. /\ Idle' \/ On(a, m)'
        /\ \/ St(a, m)' \in {"CONNECTED_NORMALLY", "CONNECTION_RECONFIGURATION"}
           \/ Idle' /\ St(a, m)' = "NONE"
    BY <2>1, <1>p, <1>a, <1>c, <1>s1, <1>u DEF ReleaseMeets
  <2> QED BY <2>2, <2>3, <2>4 DEF ReleaseMeets
<1>Cancels. Cancels'
  BY <1>p, <1>a, <1>c, <1>s, <1>u, <1>n DEF Cancels, CancelMeets
<1>Joinings. Joinings'
  <2> SUFFICES ASSUME NEW h \in Gnb, NEW q \in Rnti, St(h, q)' = "HANDOVER_JOINING"
               PROVE  \E x \in Gnb, y \in Rnti : JoiningFrom(h, q, x, y)'
    BY DEF Joinings
  <2>1. St(h, q) = "HANDOVER_JOINING" 
    BY <1>c
  <2>2. PICK x \in Gnb, y \in Rnti : JoiningFrom(h, q, x, y)
    BY <1>p, <2>1 DEF Joinings
  <2> QED BY <2>1, <2>2, <1>p, <1>a, <1>c, <1>s DEF JoiningFrom
<1>Switchings. Switchings'
  BY <1>p, <1>a, <1>c DEF Switchings, SwitchingFrom, Switched
<1>Answers. Answers'
  BY <1>p, <1>a, <1>c, <1>s, <1>u, <1>n DEF Answers
<1>UeIdle. UeIdle'
  BY <1>p, <1>a, <1>c, <1>s, <1>u, <1>n DEF UeIdle
<1>UeConnecting. UeConnecting'
  BY <1>p, <1>a, <1>c, <1>s, <1>u, <1>n DEF UeConnecting, SettingUp
<1>UeMoving. UeMoving'
  BY <1>p, <1>a, <1>c, <1>s, <1>u, <1>n DEF UeMoving, Away
<1>UeConnected. UeConnected'
  BY <1>p, <1>a, <1>c, <1>s, <1>u, <1>n DEF UeConnected, Away
<1> QED BY <1>p, <1>a, <1>TypeOK, <1>Messages, <1>Queues, <1>Contexts, <1>Leavings, <1>OneSource,
           <1>Requests, <1>Acks, <1>Failures, <1>Releases, <1>Cancels, <1>Joinings, <1>Switchings,
           <1>Answers, <1>UeIdle, <1>UeConnecting, <1>UeMoving, <1>UeConnected DEF IInv, Good

\* A context release ends the source, and the invariant stays.
LEMMA SourceReleased ==
    ASSUME Here, NEW t \in Gnb, NEW g \in Gnb, RecvUeContextRelease(t, g), NEW w \in Rnti,
           w = Head(x2[t][g]).old, St(g, w) = "HANDOVER_LEAVING"
    PROVE  IInv'
<1>p. /\ TypeOK /\ Messages /\ Queues /\ Contexts /\ Leavings /\ OneSource
      /\ Requests /\ Acks /\ Failures /\ Releases /\ Cancels
      /\ Joinings /\ Switchings /\ Answers
      /\ UeIdle /\ UeConnecting /\ UeMoving /\ UeConnected
      /\ fault = "none" /\ MaxRnti \in Nat /\ NoCell \notin Gnb
      /\ \A q \in Rnti : q \in Nat /\ q \in Id /\ q # 0
  BY HandoverAssumption DEF Here, Good, Rnti, Id
<1>d. /\ x2[t][g] # <<>> /\ Head(x2[t][g]).kind = "context_release" /\ now = <<>>
  BY DEF RecvUeContextRelease, Arrives, Running
<1>h0. PICK n \in Id : Head(x2[t][g]) = Msg("context_release", w, n) /\ Head(x2[t][g]).new = n
               /\ Sent("context_release", t, g, w, n)
  BY <1>p, <1>d, HeadSent
<1>r. ReleaseMeets(t, g, w, n)
  BY <1>p, <1>h0 DEF Releases
<1>r1. /\ t # g /\ n \in Rnti /\ Linked(g, w, t, n) /\ (Idle \/ On(t, n))
       /\ \/ St(t, n) \in {"CONNECTED_NORMALLY", "CONNECTION_RECONFIGURATION"}
          \/ Idle /\ St(t, n) = "NONE"
  BY <1>r DEF ReleaseMeets
<1>a0. /\ RemoveUe(g, w) /\ dl' = dl /\ now' = now
       /\ x2' = Take(t, g) /\ ue' = ue /\ ul' = ul /\ s1' = s1 /\ leavingLast' = leavingLast
            /\ fault' = fault
  BY DEF RecvUeContextRelease, Here, Exists, St, ueVars
<1>c0. Removed(g, w)
  BY <1>p, <1>a0, ContextRemoved
<1>c. /\ ctx' \in [Gnb -> [Rnti -> ContextType]]
      /\ \A h \in Gnb, q \in Rnti : Guarded(ctx'[h][q])
      /\ St(g, w)' = "NONE" /\ Timer(g, w)' = "none" /\ ~Pend(g, w)'
      /\ \A h \in Gnb, q \in Rnti : h # g \/ q # w =>
            /\ St(h, q)' = St(h, q) /\ Peer(h, q)' = Peer(h, q)
            /\ Timer(h, q)' = Timer(h, q) /\ Pend(h, q)' = Pend(h, q)
            /\ \A x, y : Linked(h, q, x, y)' <=> Linked(h, q, x, y)
  BY <1>c0 DEF Removed, OthersStay
<1>tz. /\ \A h \in Gnb : /\ teid'[h] \in Nat /\ (teid[h] = 0 => teid'[h] = 0) /\ teid'[h] <= last[h]
                           /\ \A q \in Rnti : teid'[h] = q => teid[h] = q /\ (h # g \/ q # w)
  <2>1. \A h \in Gnb : last[h] \in Nat /\ teid[h] \in Nat /\ teid[h] <= last[h] /\ teid'[h] \in Nat
    BY <1>p, <1>c0 DEF TypeOK, Contexts, Removed
  <2>2. \A h \in Gnb : \/ teid'[h] = teid[h] /\ ~(h = g /\ teid[h] = w)
                       \/ h = g /\ teid[h] = w /\ teid'[h] = 0
    BY <1>c0 DEF Removed
  <2>3. \A h \in Gnb : 0 <= last[h]
    BY <2>1
  <2>4. w # 0 /\ \A q \in Rnti : q # 0
    BY <1>p
  <2> QED BY ONLY <2>1, <2>2, <2>3, <2>4, g \in Gnb, w \in Rnti
<1>a. /\ ue' = ue /\ dl' = dl /\ ul' = ul /\ now = <<>> /\ now' = <<>>
      /\ St(g, w) = "HANDOVER_LEAVING"
      /\ UNCHANGED <<last, imsiRnti, s1, leavingLast, fault>>
  BY <1>a0, <1>c0, <1>d DEF Removed
<1>m. /\ x2' \in [Gnb -> [Gnb -> Seq(Message)]] /\ Queues'
      /\ \A kind, from, to, old, new : from \in Gnb /\ to \in Gnb =>
            /\ Sent(kind, from, to, old, new)' => Sent(kind, from, to, old, new)
            /\ Sent(kind, from, to, old, new) =>
                  \/ Sent(kind, from, to, old, new)'
                  \/ kind = "context_release" /\ from = t /\ to = g /\ old = w /\ new = n
  <2>1. Takes(t, g) /\ Messages /\ Queues
    BY <1>p, <1>a0 DEF Takes
  <2>2. Taken("context_release", t, g, w, n)
    BY ONLY t \in Gnb, g \in Gnb, <1>d, <1>h0, <2>1, MessageTaken
  <2> QED BY <2>2 DEF Taken
<1>s. \A kind, from, to, old, new : from \in Gnb /\ to \in Gnb /\ kind # "context_release" =>
         (Sent(kind, from, to, old, new)' <=> Sent(kind, from, to, old, new))
  BY <1>m
<1>s1. \A kind, from, to, old, new : from \in Gnb /\ to \in Gnb =>
         (Sent(kind, from, to, old, new)' => Sent(kind, from, to, old, new))
  BY <1>m
<1>u. /\ Idle' <=> Idle
      /\ \A h, q :
            /\ UeAt(h, q)' <=> UeAt(h, q)
            /\ On(h, q)' <=> On(h, q)
            /\ Home(h, q)' <=> Home(h, q)
            /\ Leaves(h, q)' <=> Leaves(h, q)
            /\ Released(h, q)' <=> Released(h, q)
  BY <1>a, UeSame
<1>n. \A h, q :
         /\ ~Released(h, q) /\ ~Released(h, q)' /\ ~Leaves(h, q) /\ ~Leaves(h, q)'
  BY <1>a DEF Released, Leaves
<1>t. /\ \A h \in Gnb : last[h] \in Nat /\ teid[h] \in Nat /\ imsiRnti[h] \in Nat
  BY <1>p DEF TypeOK
<1>x. St(g, w) = "HANDOVER_LEAVING" /\ (~Idle => On(t, n) /\ ue.cell = t /\ ue.rnti = n
              /\ St(t, n) \in Attached)
  BY <1>a, <1>r1 DEF On, UeAt, Attached
<1>y. \A h \in Gnb, q \in Rnti : /\ St(h, q) # "HANDOVER_PREPARATION"
                               /\ (St(h, q) = "HANDOVER_LEAVING" => h = g /\ q = w)
  BY <1>p, <1>a DEF OneSource, Source
<1>v. ue.st # "CONNECTED_HANDOVER" /\ ue.st # "IDLE_CONNECTING"
  <2>1. CASE Idle
    BY <2>1 DEF Idle
  <2>2. CASE ~Idle
    BY <1>p, <1>x, <2>2, <1>r1 DEF UeMoving, UeIdle, On, Attached
  <2> QED BY <2>1, <2>2
<1>TypeOK. TypeOK'
  BY <1>p, <1>a, <1>c0 DEF TypeOK, Removed
<1>Messages. Messages'
  BY <1>p, <1>a, <1>m, <1>u DEF Messages
<1>Queues. Queues'
  BY <1>m
<1>Contexts. Contexts'
  <2> SUFFICES ASSUME NEW h \in Gnb, NEW q \in Rnti
               PROVE  teid'[h] <= last'[h] /\ imsiRnti'[h] <= last'[h] /\ ContextFits(h, q)'
    BY DEF Contexts
  <2>0. teid'[h] <= last'[h] /\ imsiRnti'[h] <= last'[h]
    BY <1>p, <1>c0, <1>tz DEF Contexts, Removed
  <2>1. CASE h = g /\ q = w
    BY <2>0, <1>tz, <1>c, <2>1 DEF ContextFits, Attached
  <2>2. CASE h # g \/ q # w
    <3>1. teid'[h] = q => teid[h] = q
      BY <1>tz
    <3>2. q <= last[h] => q <= last'[h]
      BY <1>c0 DEF Removed
    <3> QED BY <2>0, <3>1, <3>2, <1>p, <1>c, <1>u, <2>2 DEF Contexts, ContextFits
  <2> QED BY <2>1, <2>2
<1>Leavings. Leavings'
  BY <1>c, <1>y DEF Leavings
<1>OneSource. OneSource'
  <2> SUFFICES ASSUME NEW h \in Gnb, NEW q \in Rnti
               PROVE  NothingNew(h, q)
    BY <1>p, OneSourceStays
  <2> QED BY <1>p, <1>a, <1>c, <1>s, <1>u, <1>t, <1>x, <1>n DEF NothingNew, Source, Target
<1>Requests. Requests'
  <2> SUFFICES ASSUME NEW a \in Gnb, NEW b \in Gnb, NEW o \in Id, NEW m \in Id,
                      Sent("request", a, b, o, m)'
               PROVE  RequestMeets(a, b, o, m)'
    BY DEF Requests
  <2>1. Sent("request", a, b, o, m) /\ RequestMeets(a, b, o, m)
    BY <1>p, <1>a, <1>c, <1>s, <1>u, <1>t, <1>x, <1>n, <1>tz DEF Requests
  <2>2. a # b /\ o \in Rnti /\ o <= last'[a] /\ m = 0
    BY <2>1, <1>p, <1>a, <1>c, <1>s, <1>u, <1>t, <1>x, <1>n, <1>tz DEF RequestMeets
  <2>3. /\ St(a, o)' \in {"NONE", "HANDOVER_PREPARATION"}
        /\ St(a, o)' # "NONE" => Peer(a, o)' = b
    BY <2>1, <1>p, <1>a, <1>c, <1>s, <1>u, <1>t, <1>x, <1>n, <1>tz DEF RequestMeets
  <2>4. Idle' \/ (On(a, o)' /\ St(a, o)' = "HANDOVER_PREPARATION")
    BY <2>1, <1>p, <1>a, <1>c, <1>s, <1>u, <1>t, <1>x, <1>n, <1>tz DEF RequestMeets
  <2>5. s1' = <<>> /\ (leavingLast' => teid'[b] = 0)
    BY <2>1, <1>p, <1>a, <1>c, <1>s, <1>u, <1>t, <1>x, <1>n, <1>tz DEF RequestMeets
  <2>6. \A x, y \in Gnb, q, z \in Id :
           /\ ~Sent("ack", x, y, q, z)'
           /\ Sent("request", x, y, q, z)' => x = a /\ y = b /\ q = o
           /\ ~Sent("failure", x, a, o, z)'
    <3>1. /\ \A x, y \in Gnb, q, z0 \in Id : ~Sent("ack", x, y, q, z0)
          /\ \A x, y \in Gnb, q, z0 \in Id : Sent("request", x, y, q, z0) => x = a /\ y = b /\ q = o
          /\ \A x \in Gnb, z0 \in Id : ~Sent("failure", x, a, o, z0)
      BY <2>1 DEF RequestMeets
    <3> QED BY <3>1, <1>s1
  <2>7. NoTarget(a, o)'
    BY <2>1, <1>c DEF RequestMeets, NoTarget
  <2> QED BY <2>2, <2>3, <2>4, <2>5, <2>6, <2>7 DEF RequestMeets
<1>Acks. Acks'
  <2> SUFFICES ASSUME NEW a \in Gnb, NEW b \in Gnb, NEW o \in Id, NEW m \in Id,
                      Sent("ack", a, b, o, m)'
               PROVE  AckMeets(a, b, o, m)'
    BY DEF Acks
  <2>1. Sent("ack", a, b, o, m) /\ AckMeets(a, b, o, m)
    BY <1>p, <1>a, <1>c, <1>s, <1>u, <1>t, <1>x, <1>n, <1>y DEF Acks
  <2>2. a # b /\ o \in Rnti /\ o <= last'[b] /\ m \in Rnti /\ m <= last'[a]
    BY <2>1, <1>p, <1>a, <1>c, <1>s, <1>u, <1>t, <1>x, <1>n, <1>y DEF AckMeets
  <2>3. /\ St(b, o)' \in {"NONE", "HANDOVER_PREPARATION"}
        /\ St(b, o)' # "NONE" => Peer(b, o)' = a
    BY <2>1, <1>p, <1>a, <1>c, <1>s, <1>u, <1>t, <1>x, <1>n, <1>y DEF AckMeets
  <2>4. Idle' \/ (On(b, o)' /\ St(b, o)' = "HANDOVER_PREPARATION")
    BY <2>1, <1>p, <1>a, <1>c, <1>s, <1>u, <1>t, <1>x, <1>n, <1>y DEF AckMeets
  <2>5. \/ St(a, m)' = "HANDOVER_JOINING" /\ Linked(a, m, b, o)'
        \/ St(a, m)' = "NONE" /\ Sent("failure", a, b, o, 0)'
    BY <2>1, <1>p, <1>a, <1>c, <1>s, <1>u, <1>t, <1>x, <1>n, <1>y DEF AckMeets
  <2>6. \A x, y \in Gnb, q, z \in Id :
           Sent("ack", x, y, q, z)' => x = a /\ y = b /\ q = o /\ z = m
    BY <2>1, <1>p, <1>a, <1>c, <1>s, <1>u, <1>t, <1>x, <1>n, <1>y DEF AckMeets
  <2> QED BY <2>2, <2>3, <2>4, <2>5, <2>6 DEF AckMeets
<1>Failures. Failures'
  <2> SUFFICES ASSUME NEW a \in Gnb, NEW b \in Gnb, NEW o \in Id, NEW m \in Id,
                      Sent("failure", a, b, o, m)'
               PROVE  FailureMeets(a, b, o, m)'
    BY DEF Failures
  <2>1. Sent("failure", a, b, o, m) /\ FailureMeets(a, b, o, m)
    BY <1>p, <1>a, <1>c, <1>s, <1>u, <1>t, <1>x, <1>n, <1>s1 DEF Failures
  <2>2. a # b /\ o \in Rnti /\ o <= last'[b] /\ m = 0
    BY <2>1, <1>p, <1>a, <1>c, <1>s, <1>u, <1>t, <1>x, <1>n, <1>s1 DEF FailureMeets
  <2>3. /\ St(b, o)' \in {"NONE", "HANDOVER_PREPARATION", "HANDOVER_LEAVING"}
        /\ St(b, o)' # "NONE" => Peer(b, o)' = a
    BY <2>1, <1>p, <1>a, <1>c, <1>s, <1>u, <1>t, <1>x, <1>n, <1>s1 DEF FailureMeets
  <2>4. St(b, o)' = "HANDOVER_LEAVING" => \A z \in Rnti : Linked(b, o, a, z)' => St(a, z)' = "NONE"
    BY <2>1, <1>p, <1>a, <1>c, <1>s, <1>u, <1>t, <1>x, <1>n, <1>s1 DEF FailureMeets
  <2>5. St(b, o)' = "HANDOVER_LEAVING"
                => \A x \in Gnb, z \in Id : ~Sent("context_release", x, b, o, z)'
    BY <2>1, <1>p, <1>a, <1>c, <1>s, <1>u, <1>t, <1>x, <1>n, <1>s1 DEF FailureMeets
  <2>6. NoTarget(b, o)'
    BY <2>1, <1>p, <1>a, <1>c, <1>s, <1>u, <1>t, <1>x, <1>n, <1>s1 DEF FailureMeets, NoTarget
  <2> QED BY <2>2, <2>3, <2>4, <2>5, <2>6 DEF FailureMeets
<1>Releases. Releases'
  <2> SUFFICES ASSUME NEW a \in Gnb, NEW b \in Gnb, NEW o \in Id, NEW m \in Id,
                      Sent("context_release", a, b, o, m)'
               PROVE  ReleaseMeets(a, b, o, m)'
    BY DEF Releases
  <2>1. Sent("context_release", a, b, o, m) /\ ReleaseMeets(a, b, o, m)
    BY <1>p, <1>a, <1>c, <1>s1, <1>u, <1>x DEF Releases
  <2>2. a # b /\ o \in Rnti /\ o <= last'[b] /\ m \in Rnti /\ m <= last'[a]
    BY <2>1, <1>p, <1>a, <1>c, <1>s1, <1>u, <1>x DEF ReleaseMeets
  <2>3. /\ St(b, o)' \in {"NONE", "HANDOVER_LEAVING"}
        /\ St(b, o)' # "NONE" => Linked(b, o, a, m)'
    BY <2>1, <1>p, <1>a, <1>c, <1>s1, <1>u, <1>x DEF ReleaseMeets
  <2>4. /\ Idle' \/ On(a, m)'
        /\ \/ St(a, m)' \in {"CONNECTED_NORMALLY", "CONNECTION_RECONFIGURATION"}
           \/ Idle' /\ St(a, m)' = "NONE"
    BY <2>1, <1>p, <1>a, <1>c, <1>s1, <1>u, <1>x DEF ReleaseMeets
  <2> QED BY <2>2, <2>3, <2>4 DEF ReleaseMeets
<1>Cancels. Cancels'
  BY <1>p, <1>a, <1>c, <1>s, <1>u, <1>t, <1>x, <1>n DEF Cancels, CancelMeets
<1>Joinings. Joinings'
  <2> SUFFICES ASSUME NEW h \in Gnb, NEW q \in Rnti, St(h, q)' = "HANDOVER_JOINING"
               PROVE  \E x \in Gnb, y \in Rnti : JoiningFrom(h, q, x, y)'
    BY DEF Joinings
  <2>1. St(h, q) = "HANDOVER_JOINING" /\ (h # g \/ q # w)
    BY <1>c
  <2>2. PICK x \in Gnb, y \in Rnti : JoiningFrom(h, q, x, y)
    BY <1>p, <2>1 DEF Joinings
  <2>3. x # g \/ y # w
    BY <2>1, <2>2, <1>r1, LinkedOnce, <1>x DEF JoiningFrom
  <2> QED BY <2>3, <2>1, <2>2, <1>p, <1>a, <1>c, <1>s, <1>x DEF JoiningFrom
<1>Switchings. Switchings'
  <2> SUFFICES ASSUME NEW h \in Gnb, NEW q \in Rnti, St(h, q)' = "HANDOVER_PATH_SWITCH"
               PROVE  /\ Switched(h)' /\ imsiRnti'[h] = q
                      /\ \E x \in Gnb, y \in Rnti : SwitchingFrom(h, q, x, y)'
    BY DEF Switchings
  <2>1. St(h, q) = "HANDOVER_PATH_SWITCH" /\ (h # g \/ q # w)
    BY <1>c
  <2>2. PICK x \in Gnb, y \in Rnti : SwitchingFrom(h, q, x, y)
    BY <1>p, <2>1 DEF Switchings
  <2>3. Switched(h) /\ imsiRnti[h] = q
    BY <1>p, <2>1 DEF Switchings
  <2>4. SwitchingFrom(h, q, x, y)'
    BY <2>1, <2>2, <1>p, <1>a, <1>c, <1>x DEF SwitchingFrom
  <2> QED BY <2>3, <2>4, <1>p, <1>a DEF Switched
<1>Answers. Answers'
  BY <1>p, <1>a, <1>c, <1>s, <1>u, <1>t, <1>x, <1>n DEF Answers
<1>UeIdle. UeIdle'
  BY <1>p, <1>a, <1>c, <1>s, <1>u, <1>t, <1>x, <1>n DEF UeIdle
<1>UeConnecting. UeConnecting'
  BY <1>v, <1>a DEF UeConnecting
<1>UeMoving. UeMoving'
  BY <1>v, <1>a DEF UeMoving
<1>UeConnected. UeConnected'
  <2>1. CASE Idle
    BY <2>1, <1>a DEF UeConnected, Idle
  <2>2. CASE ~Idle
    <3>1. ue.cell = t /\ ue.rnti = n /\ St(t, n)' = St(t, n)
                  /\ St(t, n) \in {"CONNECTED_NORMALLY", "CONNECTION_RECONFIGURATION"}
      BY <2>2, <1>x, <1>r1, <1>c
    <3>2. PICK e, v : e = ue.cell /\ v = ue.rnti /\ e = t /\ v = n
      BY <3>1
    <3> QED BY <3>1, <3>2, <1>p, <1>a, <1>n DEF UeConnected
  <2> QED BY <2>1, <2>2
<1> QED BY <1>p, <1>a, <1>TypeOK, <1>Messages, <1>Queues, <1>Contexts, <1>Leavings, <1>OneSource,
           <1>Requests, <1>Acks, <1>Failures, <1>Releases, <1>Cancels, <1>Joinings, <1>Switchings,
           <1>Answers, <1>UeIdle, <1>UeConnecting, <1>UeMoving, <1>UeConnected DEF IInv, Good

\* The target waits no longer, and the invariant stays.
LEMMA JoiningExpires ==
    ASSUME Here, NEW g \in Gnb, NEW w \in Rnti, JoiningTimeout(g, w)
    PROVE  IInv'
<1>p. /\ TypeOK /\ Messages /\ Queues /\ Contexts /\ Leavings /\ OneSource
      /\ Requests /\ Acks /\ Failures /\ Releases /\ Cancels
      /\ Joinings /\ Switchings /\ Answers
      /\ UeIdle /\ UeConnecting /\ UeMoving /\ UeConnected
      /\ fault = "none" /\ MaxRnti \in Nat /\ NoCell \notin Gnb
      /\ \A q \in Rnti : q \in Nat /\ q \in Id /\ q # 0
  BY HandoverAssumption DEF Here, Good, Rnti, Id
<1>d. /\ now = <<>> /\ Timer(g, w) = "joining" /\ St(g, w) = "HANDOVER_JOINING"
  <2>1. Guarded(ctx[g][w]) /\ ctx[g][w].timer = "joining" /\ now = <<>>
    BY <1>p DEF JoiningTimeout, TypeOK, Running
  <2> QED BY <2>1 DEF Guarded, St, Timer
<1>g0. PICK s \in Gnb, r \in Rnti : JoiningFrom(g, w, s, r)
  BY <1>p, <1>d DEF Joinings
<1>g. /\ Linked(g, w, s, r) /\ s # g /\ r <= last[s]
      /\ St(s, r) \in {"NONE", "HANDOVER_PREPARATION", "HANDOVER_LEAVING"}
      /\ St(s, r) = "HANDOVER_PREPARATION" => Sent("ack", g, s, r, w)
      /\ St(s, r) = "HANDOVER_LEAVING" => Linked(s, r, g, w)
  BY <1>g0 DEF JoiningFrom
<1>a0. /\ RemoveUe(g, w) /\ Adds(g, s, Msg("failure", r, 0))
       /\ dl' = dl /\ now' = now /\ ue' = ue /\ ul' = ul /\ s1' = s1 /\ leavingLast' = leavingLast
            /\ fault' = fault
  <2>1. ctx[g][w].st = "HANDOVER_JOINING" /\ ctx[g][w].peer = s /\ ctx[g][w].peerId = r
    BY <1>g, <1>d DEF St, Linked
  <2> QED BY <2>1 DEF JoiningTimeout, Here, Adds, ueVars
<1>c0. Removed(g, w)
  BY <1>p, <1>a0, ContextRemoved
<1>c. /\ ctx' \in [Gnb -> [Rnti -> ContextType]]
      /\ \A h \in Gnb, q \in Rnti : Guarded(ctx'[h][q])
      /\ St(g, w)' = "NONE" /\ Timer(g, w)' = "none" /\ ~Pend(g, w)'
      /\ \A h \in Gnb, q \in Rnti : h # g \/ q # w =>
            /\ St(h, q)' = St(h, q) /\ Peer(h, q)' = Peer(h, q)
            /\ Timer(h, q)' = Timer(h, q) /\ Pend(h, q)' = Pend(h, q)
            /\ \A x, y : Linked(h, q, x, y)' <=> Linked(h, q, x, y)
  BY <1>c0 DEF Removed, OthersStay
<1>tz. /\ \A h \in Gnb : /\ teid'[h] \in Nat /\ (teid[h] = 0 => teid'[h] = 0) /\ teid'[h] <= last[h]
                           /\ \A q \in Rnti : teid'[h] = q => teid[h] = q /\ (h # g \/ q # w)
  <2>1. \A h \in Gnb : last[h] \in Nat /\ teid[h] \in Nat /\ teid[h] <= last[h] /\ teid'[h] \in Nat
    BY <1>p, <1>c0 DEF TypeOK, Contexts, Removed
  <2>2. \A h \in Gnb : \/ teid'[h] = teid[h] /\ ~(h = g /\ teid[h] = w)
                       \/ h = g /\ teid[h] = w /\ teid'[h] = 0
    BY <1>c0 DEF Removed
  <2>3. \A h \in Gnb : 0 <= last[h]
    BY <2>1
  <2>4. w # 0 /\ \A q \in Rnti : q # 0
    BY <1>p
  <2> QED BY ONLY <2>1, <2>2, <2>3, <2>4, g \in Gnb, w \in Rnti
<1>a. /\ ue' = ue /\ dl' = dl /\ ul' = ul /\ now = <<>> /\ now' = <<>>
      /\ St(g, w) = "HANDOVER_JOINING"
      /\ UNCHANGED <<last, imsiRnti, s1, leavingLast, fault>>
  BY <1>a0, <1>c0, <1>d DEF Removed
<1>z. \A a, b \in Gnb, o, m \in Id :
         /\ Sent("request", a, b, o, m) => a # s \/ o # r
         /\ Sent("failure", a, b, o, m) => b # s \/ o # r
         /\ St(s, r) = "HANDOVER_LEAVING" => (Sent("context_release", a, b, o, m) => b # s \/ o # r)
  <2> SUFFICES ASSUME NEW a \in Gnb, NEW b \in Gnb, NEW o \in Id, NEW m \in Id
               PROVE  /\ Sent("request", a, b, o, m) => a # s \/ o # r
                      /\ Sent("failure", a, b, o, m) => b # s \/ o # r
                      /\ St(s, r) = "HANDOVER_LEAVING" => (Sent("context_release", a, b, o, m)
                           => b # s \/ o # r)
    OBVIOUS
  <2>0. ~NoTarget(s, r)
    BY <1>d, <1>g DEF NoTarget
  <2>1. Sent("request", a, b, o, m) => a # s \/ o # r
    BY <1>p, <2>0 DEF Requests, RequestMeets
  <2>2. Sent("failure", a, b, o, m) => b # s \/ o # r
    BY <1>p, <2>0 DEF Failures, FailureMeets
  <2>3. ASSUME St(s, r) = "HANDOVER_LEAVING", Sent("context_release", a, s, r, m) PROVE FALSE
    <3>1. ReleaseMeets(a, s, r, m)
      BY <2>3, <1>p DEF Releases
    <3>2. Linked(s, r, a, m)
      BY <3>1, <2>3 DEF ReleaseMeets
    <3>3. a = g /\ m = w
      BY <3>2, <2>3, <1>g, LinkedOnce
    <3> QED BY <3>1, <3>3, <1>d DEF ReleaseMeets
  <2> QED BY <2>1, <2>2, <2>3
<1>m. /\ x2' \in [Gnb -> [Gnb -> Seq(Message)]] /\ Queues'
      /\ \A kind, from, to, old, new : from \in Gnb /\ to \in Gnb =>
            (Sent(kind, from, to, old, new)' <=>
                 \/ Sent(kind, from, to, old, new)
                 \/ kind = "failure" /\ from = g /\ to = s /\ old = r /\ new = 0)
  <2>1. Msg("failure", r, 0) \in Message
    BY <1>p DEF Msg, Message, Id
  <2>2. Fits("failure", g, s, r)
    BY <1>z, <1>p DEF Fits
  <2>3. Messages /\ Queues
    BY <1>p
  <2> QED BY ONLY g \in Gnb, s \in Gnb, <1>a0, <2>1, <2>2, <2>3, MessageAdded
<1>s. \A kind, from, to, old, new : from \in Gnb /\ to \in Gnb /\ kind # "failure" =>
         (Sent(kind, from, to, old, new)' <=> Sent(kind, from, to, old, new))
  BY <1>m
<1>u. /\ Idle' <=> Idle
      /\ \A h, q :
            /\ UeAt(h, q)' <=> UeAt(h, q)
            /\ On(h, q)' <=> On(h, q)
            /\ Home(h, q)' <=> Home(h, q)
            /\ Leaves(h, q)' <=> Leaves(h, q)
            /\ Released(h, q)' <=> Released(h, q)
  BY <1>a, UeSame
<1>n. \A h, q :
         /\ ~Released(h, q) /\ ~Released(h, q)' /\ ~Leaves(h, q) /\ ~Leaves(h, q)'
  BY <1>a DEF Released, Leaves
<1>t. /\ \A h \in Gnb : last[h] \in Nat /\ teid[h] \in Nat /\ imsiRnti[h] \in Nat
  BY <1>p DEF TypeOK
<1>x. St(g, w) = "HANDOVER_JOINING"
  BY <1>a
<1>v. /\ Sent("failure", g, s, r, 0)' /\ \A x, y : Linked(g, w, x, y) => x = s /\ y = r
      /\ \A from, to \in Gnb, old, new \in Id : Sent("failure", from, to, old, new)
           => Sent("failure", from, to, old, new)'
  BY <1>m, <1>g, LinkedOnce
<1>w. Away => Away'
  BY <1>p, <1>a, <1>c, <1>n, <1>x DEF Away
<1>TypeOK. TypeOK'
  BY <1>p, <1>a, <1>c0 DEF TypeOK, Removed
<1>Messages. Messages'
  BY <1>p, <1>a, <1>m, <1>u DEF Messages
<1>Queues. Queues'
  BY <1>m
<1>Contexts. Contexts'
  <2> SUFFICES ASSUME NEW h \in Gnb, NEW q \in Rnti
               PROVE  teid'[h] <= last'[h] /\ imsiRnti'[h] <= last'[h] /\ ContextFits(h, q)'
    BY DEF Contexts
  <2>0. teid'[h] <= last'[h] /\ imsiRnti'[h] <= last'[h]
    BY <1>p, <1>c0, <1>tz DEF Contexts, Removed
  <2>1. CASE h = g /\ q = w
    BY <2>0, <1>tz, <1>c, <2>1 DEF ContextFits, Attached
  <2>2. CASE h # g \/ q # w
    <3>1. teid'[h] = q => teid[h] = q
      BY <1>tz
    <3>2. q <= last[h] => q <= last'[h]
      BY <1>c0 DEF Removed
    <3> QED BY <2>0, <3>1, <3>2, <1>p, <1>c, <1>u, <2>2 DEF Contexts, ContextFits
  <2> QED BY <2>1, <2>2
<1>Leavings. Leavings'
  <2> SUFFICES ASSUME NEW h \in Gnb, NEW q \in Rnti, St(h, q)' = "HANDOVER_LEAVING"
               PROVE  \E x \in Gnb, y \in Rnti : LeavingTo(h, q, x, y)'
    BY DEF Leavings
  <2>1. St(h, q) = "HANDOVER_LEAVING" /\ (h # g \/ q # w)
    BY <1>c
  <2>2. PICK x \in Gnb, y \in Rnti : LeavingTo(h, q, x, y)
    BY <1>p, <2>1 DEF Leavings
  <2>3. Pending(h, q, x, y)'
    <3>1. CASE x = g /\ y = w
      <4>1. Linked(g, w, h, q) \/ Sent("failure", g, h, q, 0) \/ Sent("context_release", g, h, q, w)
        BY <2>2, <3>1, <1>x DEF LeavingTo, Pending
      <4>2. Linked(g, w, h, q) => Sent("failure", g, h, q, 0)'
        BY <1>g, <1>m, LinkedOnce
      <4>3. Sent("failure", g, h, q, 0)' \/ Sent("context_release", g, h, q, w)'
        BY <4>1, <4>2, <1>m
      <4> QED BY <3>1, <4>3 DEF Pending
    <3>2. CASE x # g \/ y # w
      BY <2>2, <3>2, <1>p, <1>a, <1>c, <1>m, <1>u DEF LeavingTo, Pending, Switched
    <3> QED BY <3>1, <3>2
  <2>4. St(x, y)' \in {"NONE", "HANDOVER_JOINING"} \/ Home(x, y)'
    BY <2>2, <1>p, <1>a, <1>c, <1>u, <1>x DEF LeavingTo
  <2>5. \/ Idle'
        \/ On(h, q)'
        \/ ue'.from = <<h, q>> /\ ue'.cell = x /\ ~ue'.left /\ (ue'.rnti = y \/ St(x, y)' = "NONE")
    BY <2>2, <1>p, <1>a, <1>c, <1>u, <1>x DEF LeavingTo
  <2> QED BY <2>1, <2>2, <2>3, <2>4, <2>5, <1>a, <1>c DEF LeavingTo
<1>OneSource. OneSource'
  <2> SUFFICES ASSUME NEW h \in Gnb, NEW q \in Rnti
               PROVE  NothingNew(h, q)
    BY <1>p, OneSourceStays
  <2> QED BY <1>p, <1>a, <1>c, <1>s, <1>u, <1>t, <1>x, <1>n DEF NothingNew, Source, Target
<1>Requests. Requests'
  <2> SUFFICES ASSUME NEW a \in Gnb, NEW b \in Gnb, NEW o \in Id, NEW m \in Id,
                      Sent("request", a, b, o, m)'
               PROVE  RequestMeets(a, b, o, m)'
    BY DEF Requests
  <2>1. Sent("request", a, b, o, m) /\ RequestMeets(a, b, o, m)
    BY <1>p, <1>a, <1>c, <1>s, <1>u, <1>t, <1>x, <1>n, <1>tz DEF Requests
  <2>2. a # b /\ o \in Rnti /\ o <= last'[a] /\ m = 0
    BY <2>1, <1>p, <1>a, <1>c, <1>s, <1>u, <1>t, <1>x, <1>n, <1>tz DEF RequestMeets
  <2>3. /\ St(a, o)' \in {"NONE", "HANDOVER_PREPARATION"}
        /\ St(a, o)' # "NONE" => Peer(a, o)' = b
    BY <2>1, <1>p, <1>a, <1>c, <1>s, <1>u, <1>t, <1>x, <1>n, <1>tz DEF RequestMeets
  <2>4. Idle' \/ (On(a, o)' /\ St(a, o)' = "HANDOVER_PREPARATION")
    BY <2>1, <1>p, <1>a, <1>c, <1>s, <1>u, <1>t, <1>x, <1>n, <1>tz DEF RequestMeets
  <2>5. s1' = <<>> /\ (leavingLast' => teid'[b] = 0)
    BY <2>1, <1>p, <1>a, <1>c, <1>s, <1>u, <1>t, <1>x, <1>n, <1>tz DEF RequestMeets
  <2>6. \A x, y \in Gnb, q, z \in Id :
           /\ ~Sent("ack", x, y, q, z)'
           /\ Sent("request", x, y, q, z)' => x = a /\ y = b /\ q = o
           /\ ~Sent("failure", x, a, o, z)'
    <3>1. /\ \A x, y \in Gnb, q, z0 \in Id : ~Sent("ack", x, y, q, z0)
          /\ \A x, y \in Gnb, q, z0 \in Id : Sent("request", x, y, q, z0) => x = a /\ y = b /\ q = o
          /\ \A x \in Gnb, z0 \in Id : ~Sent("failure", x, a, o, z0)
      BY <2>1 DEF RequestMeets
    <3>2. \A x \in Gnb, z0 \in Id : ~Sent("failure", x, a, o, z0)'
      BY <3>1, <2>1, <1>m, <1>z
    <3> QED BY <3>1, <3>2, <1>s
  <2>7. NoTarget(a, o)'
    BY <2>1, <1>c DEF RequestMeets, NoTarget
  <2> QED BY <2>2, <2>3, <2>4, <2>5, <2>6, <2>7 DEF RequestMeets
<1>Acks. Acks'
  <2> SUFFICES ASSUME NEW a \in Gnb, NEW b \in Gnb, NEW o \in Id, NEW m \in Id,
                      Sent("ack", a, b, o, m)'
               PROVE  AckMeets(a, b, o, m)'
    BY DEF Acks
  <2>1. Sent("ack", a, b, o, m) /\ AckMeets(a, b, o, m)
    BY <1>p, <1>a, <1>c, <1>s, <1>u, <1>t, <1>x, <1>n DEF Acks
  <2>2. a # b /\ o \in Rnti /\ o <= last'[b] /\ m \in Rnti /\ m <= last'[a]
    BY <2>1, <1>p, <1>a, <1>c, <1>s, <1>u, <1>t, <1>x, <1>n DEF AckMeets
  <2>3. /\ St(b, o)' \in {"NONE", "HANDOVER_PREPARATION"}
        /\ St(b, o)' # "NONE" => Peer(b, o)' = a
    BY <2>1, <1>p, <1>a, <1>c, <1>s, <1>u, <1>t, <1>x, <1>n DEF AckMeets
  <2>4. Idle' \/ (On(b, o)' /\ St(b, o)' = "HANDOVER_PREPARATION")
    BY <2>1, <1>p, <1>a, <1>c, <1>s, <1>u, <1>t, <1>x, <1>n DEF AckMeets
  <2>5. \/ St(a, m)' = "HANDOVER_JOINING" /\ Linked(a, m, b, o)'
        \/ St(a, m)' = "NONE" /\ Sent("failure", a, b, o, 0)'
    <3>1. \/ St(a, m) = "HANDOVER_JOINING" /\ Linked(a, m, b, o)
          \/ St(a, m) = "NONE" /\ Sent("failure", a, b, o, 0)
      BY <2>1 DEF AckMeets
    <3>2. m \in Rnti
      BY <2>1 DEF AckMeets
    <3>3. CASE a = g /\ m = w
      <4>1. b = s /\ o = r
        BY <3>1, <3>3, <1>v, <1>x
      <4> QED BY <3>3, <4>1, <1>v, <1>c
    <3>4. CASE a # g \/ m # w
      <4>1. Sent("failure", a, b, o, 0) => Sent("failure", a, b, o, 0)'
        BY <1>m
      <4> QED BY <3>1, <3>2, <3>4, <4>1, <1>c
    <3> QED BY <3>3, <3>4
  <2>6. \A x, y \in Gnb, q, z \in Id :
           Sent("ack", x, y, q, z)' => x = a /\ y = b /\ q = o /\ z = m
    BY <2>1, <1>p, <1>a, <1>c, <1>s, <1>u, <1>t, <1>x, <1>n DEF AckMeets
  <2> QED BY <2>2, <2>3, <2>4, <2>5, <2>6 DEF AckMeets
<1>Failures. Failures'
  <2> SUFFICES ASSUME NEW a \in Gnb, NEW b \in Gnb, NEW o \in Id, NEW m \in Id,
                      Sent("failure", a, b, o, m)'
               PROVE  FailureMeets(a, b, o, m)'
    BY DEF Failures
  <2>1. CASE a = g /\ b = s /\ o = r /\ m = 0
    <3>1. St(s, r)' = St(s, r) /\ Peer(s, r)' = Peer(s, r) /\ \A x, y : Linked(s, r, x, y)'
                  <=> Linked(s, r, x, y)
      BY <1>c, <1>g
    <3>2. NoTarget(s, r)'
      <4> SUFFICES ASSUME NEW x \in Gnb, NEW y \in Rnti, Target(x, y)', Linked(x, y, s, r)'
                   PROVE  FALSE
        BY DEF NoTarget, Target
      <4>1. (x # g \/ y # w) /\ Target(x, y) /\ Linked(x, y, s, r)
        BY <1>c DEF Target
      <4>2. Target(g, w)
        BY <1>d DEF Target
      <4> QED BY <4>1, <4>2, <1>g, <1>p DEF OneSource, OneTarget
    <3>3. St(s, r) = "HANDOVER_PREPARATION" => Peer(s, r) = g
      BY <1>g, <1>p DEF Acks, AckMeets
    <3>4. St(s, r) = "HANDOVER_LEAVING" => Peer(s, r) = g
      BY <1>g, LinkedOnce
    <3>5. St(s, r) = "HANDOVER_LEAVING" => \A y \in Rnti : Linked(s, r, g, y) => St(g, y)' = "NONE"
      BY <1>g, LinkedOnce, <1>c
    <3>6. St(s, r) = "HANDOVER_LEAVING"
                  => \A x \in Gnb, y \in Id : ~Sent("context_release", x, s, r, y)'
      BY <1>z, <1>s, <1>p
    <3> QED BY <2>1, <3>1, <3>2, <3>3, <3>4, <3>5, <3>6, <1>g, <1>a DEF FailureMeets
  <2>2. CASE ~(a = g /\ b = s /\ o = r /\ m = 0)
    <3>1. Sent("failure", a, b, o, m) /\ FailureMeets(a, b, o, m)
      <4>1. Sent("failure", a, b, o, m)
        BY <2>2, <1>m
      <4> QED BY <4>1, <1>p DEF Failures
    <3>2. NoTarget(b, o)'
      BY <3>1, <1>c DEF FailureMeets, NoTarget
    <3>3. b # g \/ o # w
      BY <3>1, <1>x DEF FailureMeets
    <3> QED BY <3>1, <3>2, <3>3, <1>a, <1>c, <1>s DEF FailureMeets
  <2> QED BY <2>1, <2>2
<1>Releases. Releases'
  BY <1>p, <1>a, <1>c, <1>s, <1>u, <1>t, <1>x, <1>n DEF Releases, ReleaseMeets
<1>Cancels. Cancels'
  BY <1>p, <1>a, <1>c, <1>s, <1>u, <1>t, <1>x, <1>n DEF Cancels, CancelMeets
<1>Joinings. Joinings'
  <2> SUFFICES ASSUME NEW h \in Gnb, NEW q \in Rnti, St(h, q)' = "HANDOVER_JOINING"
               PROVE  \E x \in Gnb, y \in Rnti : JoiningFrom(h, q, x, y)'
    BY DEF Joinings
  <2>1. St(h, q) = "HANDOVER_JOINING" /\ (h # g \/ q # w)
    BY <1>c
  <2>2. PICK x \in Gnb, y \in Rnti : JoiningFrom(h, q, x, y)
    BY <1>p, <2>1 DEF Joinings
  <2> QED BY <2>1, <2>2, <1>p, <1>a, <1>c, <1>s, <1>x DEF JoiningFrom
<1>Switchings. Switchings'
  <2> SUFFICES ASSUME NEW h \in Gnb, NEW q \in Rnti, St(h, q)' = "HANDOVER_PATH_SWITCH"
               PROVE  /\ Switched(h)' /\ imsiRnti'[h] = q
                      /\ \E x \in Gnb, y \in Rnti : SwitchingFrom(h, q, x, y)'
    BY DEF Switchings
  <2>1. St(h, q) = "HANDOVER_PATH_SWITCH" /\ (h # g \/ q # w)
    BY <1>c
  <2>2. PICK x \in Gnb, y \in Rnti : SwitchingFrom(h, q, x, y)
    BY <1>p, <2>1 DEF Switchings
  <2>3. Switched(h) /\ imsiRnti[h] = q
    BY <1>p, <2>1 DEF Switchings
  <2>4. SwitchingFrom(h, q, x, y)'
    BY <2>1, <2>2, <1>p, <1>a, <1>c, <1>x DEF SwitchingFrom
  <2> QED BY <2>3, <2>4, <1>p, <1>a DEF Switched
<1>Answers. Answers'
  BY <1>p, <1>a, <1>c, <1>s, <1>u, <1>t, <1>x, <1>n DEF Answers
<1>UeIdle. UeIdle'
  BY <1>p, <1>a, <1>c, <1>s, <1>u, <1>t, <1>x, <1>n DEF UeIdle
<1>UeConnecting. UeConnecting'
  <2>0. PICK e, v : e = ue.cell /\ v = ue.rnti
    OBVIOUS
  <2>1. CASE e = g /\ v = w
    BY <2>0, <2>1, <1>p, <1>a, <1>c, <1>s, <1>u, <1>t, <1>x, <1>n, Kinds, Single DEF UeConnecting,
       SettingUp
  <2>2. CASE ~(e = g /\ v = w)
    BY <2>0, <2>2, <1>p, <1>a, <1>c, <1>s, <1>u, <1>t, <1>x, <1>n, Kinds, Single DEF UeConnecting,
       SettingUp, UeIdle, Idle
  <2> QED BY <2>1, <2>2
<1>UeMoving. UeMoving'
  <2>0. PICK e, v : e = ue.cell /\ v = ue.rnti
    OBVIOUS
  <2>1. CASE e = g /\ v = w
    BY <2>0, <2>1, <1>p, <1>a, <1>c, <1>s, <1>u, <1>t, <1>x, <1>n, <1>w DEF UeMoving
  <2>2. CASE ~(e = g /\ v = w)
    BY <2>0, <2>2, <1>p, <1>a, <1>c, <1>s, <1>u, <1>t, <1>x, <1>n, <1>w DEF UeMoving, UeIdle, Idle
  <2> QED BY <2>1, <2>2
<1>UeConnected. UeConnected'
  <2>0. PICK e, v : e = ue.cell /\ v = ue.rnti
    OBVIOUS
  <2>1. CASE e = g /\ v = w
    BY <2>0, <2>1, <1>p, <1>a, <1>c, <1>s, <1>u, <1>t, <1>x, <1>n, <1>w, Kinds DEF UeConnected
  <2>2. CASE ~(e = g /\ v = w)
    BY <2>0, <2>2, <1>p, <1>a, <1>c, <1>s, <1>u, <1>t, <1>x, <1>n, <1>w, Kinds DEF UeConnected,
       UeIdle, Idle
  <2> QED BY <2>1, <2>2
<1> QED BY <1>p, <1>a, <1>TypeOK, <1>Messages, <1>Queues, <1>Contexts, <1>Leavings, <1>OneSource,
           <1>Requests, <1>Acks, <1>Failures, <1>Releases, <1>Cancels, <1>Joinings, <1>Switchings,
           <1>Answers, <1>UeIdle, <1>UeConnecting, <1>UeMoving, <1>UeConnected DEF IInv, Good

\* The source waits no longer, and the invariant stays.
LEMMA LeavingExpires ==
    ASSUME Here, NEW g \in Gnb, NEW w \in Rnti, LeavingTimeout(g, w)
    PROVE  IInv'
<1>p. /\ TypeOK /\ Messages /\ Queues /\ Contexts /\ Leavings /\ OneSource
      /\ Requests /\ Acks /\ Failures /\ Releases /\ Cancels
      /\ Joinings /\ Switchings /\ Answers
      /\ UeIdle /\ UeConnecting /\ UeMoving /\ UeConnected
      /\ fault = "none" /\ MaxRnti \in Nat /\ NoCell \notin Gnb
      /\ \A q \in Rnti : q \in Nat /\ q \in Id /\ q # 0
  BY HandoverAssumption DEF Here, Good, Rnti, Id
<1>d. /\ now = <<>> /\ Timer(g, w) = "leaving" /\ St(g, w) = "HANDOVER_LEAVING"
  <2>1. Guarded(ctx[g][w]) /\ ctx[g][w].timer = "leaving" /\ now = <<>>
    BY <1>p DEF LeavingTimeout, TypeOK, Running
  <2> QED BY <2>1 DEF Guarded, St, Timer
<1>d1. PICK p \in Gnb, l \in Rnti : LeavingTo(g, w, p, l)
  BY <1>p, <1>d DEF Leavings
<1>g. /\ Linked(g, w, p, l) /\ p # g /\ l <= last[p]
      /\ Pending(g, w, p, l)
      /\ St(p, l) \in {"NONE", "HANDOVER_JOINING"} \/ Home(p, l)
  BY <1>d1 DEF LeavingTo
<1>a0. /\ RemoveUe(g, w) /\ Adds(g, p, Msg("cancel", w, l))
            /\ now' = Append(now, [kind |-> "release", cell |-> g, rnti |-> w])
       /\ dl' = dl /\ ue' = ue /\ ul' = ul /\ s1' = s1 /\ leavingLast' = leavingLast
            /\ fault' = fault
  <2>1. ctx[g][w].st = "HANDOVER_LEAVING" /\ ctx[g][w].peer = p /\ ctx[g][w].peerId = l
    BY <1>g, <1>d DEF St, Linked
  <2> QED BY <2>1 DEF LeavingTimeout, SendRrcConnectionRelease, Here, Adds, ueVars
<1>v. ~leavingLast
  <2> SUFFICES ASSUME leavingLast PROVE FALSE
    OBVIOUS
  <2>1. ctx[g][w].peer = p
    BY <1>g DEF Linked
  <2>2. s1 = <<>> /\ x2[p][g] = <<>> /\ \A q \in Rnti : Timer(p, q) = "none"
    BY <2>1 DEF LeavingTimeout, TargetDone, Timer
  <2>3. ~Switched(p)
    BY <2>2, Single DEF Switched
  <2>4. \A kind, old, new : ~Sent(kind, p, g, old, new)
    BY <2>2 DEF Sent, In
  <2>5. St(p, l) # "HANDOVER_PATH_SWITCH"
    BY <2>3, <1>p DEF Switchings
  <2>6. St(p, l) # "HANDOVER_JOINING"
    <3>1. Timer(p, l) # "joining"
      BY <2>2
    <3> QED BY <3>1, <1>p DEF Joinings, JoiningFrom
  <2> QED BY <1>g, <2>3, <2>4, <2>5, <2>6 DEF Pending
<1>c0. Removed(g, w)
  BY <1>p, <1>a0, ContextRemoved
<1>c. /\ ctx' \in [Gnb -> [Rnti -> ContextType]]
      /\ \A h \in Gnb, q \in Rnti : Guarded(ctx'[h][q])
      /\ St(g, w)' = "NONE" /\ Timer(g, w)' = "none" /\ ~Pend(g, w)'
      /\ \A h \in Gnb, q \in Rnti : h # g \/ q # w =>
            /\ St(h, q)' = St(h, q) /\ Peer(h, q)' = Peer(h, q)
            /\ Timer(h, q)' = Timer(h, q) /\ Pend(h, q)' = Pend(h, q)
            /\ \A x, y : Linked(h, q, x, y)' <=> Linked(h, q, x, y)
  BY <1>c0 DEF Removed, OthersStay
<1>tz. /\ \A h \in Gnb : /\ teid'[h] \in Nat /\ (teid[h] = 0 => teid'[h] = 0) /\ teid'[h] <= last[h]
                           /\ \A q \in Rnti : teid'[h] = q => teid[h] = q /\ (h # g \/ q # w)
  <2>1. \A h \in Gnb : last[h] \in Nat /\ teid[h] \in Nat /\ teid[h] <= last[h] /\ teid'[h] \in Nat
    BY <1>p, <1>c0 DEF TypeOK, Contexts, Removed
  <2>2. \A h \in Gnb : \/ teid'[h] = teid[h] /\ ~(h = g /\ teid[h] = w)
                       \/ h = g /\ teid[h] = w /\ teid'[h] = 0
    BY <1>c0 DEF Removed
  <2>3. \A h \in Gnb : 0 <= last[h]
    BY <2>1
  <2>4. w # 0 /\ \A q \in Rnti : q # 0
    BY <1>p
  <2> QED BY ONLY <2>1, <2>2, <2>3, <2>4, g \in Gnb, w \in Rnti
<1>a. /\ ue' = ue /\ dl' = dl /\ ul' = ul /\ now = <<>>
           /\ now' = <<[kind |-> "release", cell |-> g, rnti |-> w]>>
      /\ St(g, w) = "HANDOVER_LEAVING" /\ ~leavingLast
      /\ UNCHANGED <<last, imsiRnti, s1, leavingLast, fault>>
  BY <1>a0, <1>c0, <1>d, <1>v, Single DEF Removed
<1>m. /\ x2' \in [Gnb -> [Gnb -> Seq(Message)]] /\ Queues'
      /\ \A kind, from, to, old, new : from \in Gnb /\ to \in Gnb =>
            (Sent(kind, from, to, old, new)' <=>
                 \/ Sent(kind, from, to, old, new)
                 \/ kind = "cancel" /\ from = g /\ to = p /\ old = w /\ new = l)
  <2>1. Msg("cancel", w, l) \in Message
    BY <1>p DEF Msg, Message, Id
  <2>2. Fits("cancel", g, p, w)
    BY DEF Fits
  <2>3. Messages /\ Queues
    BY <1>p
  <2> QED BY ONLY g \in Gnb, p \in Gnb, <1>a0, <2>1, <2>2, <2>3, MessageAdded
<1>s. \A kind, from, to, old, new : from \in Gnb /\ to \in Gnb /\ kind # "cancel" =>
         (Sent(kind, from, to, old, new)' <=> Sent(kind, from, to, old, new))
  BY <1>m
<1>t. /\ \A h \in Gnb : last[h] \in Nat /\ teid[h] \in Nat /\ imsiRnti[h] \in Nat
  BY <1>p DEF TypeOK
<1>n. \A h, q :
         /\ ~Released(h, q) /\ ~Leaves(h, q) /\ ~Leaves(h, q)'
         /\ Released(h, q)' <=> h = g /\ q = w
  BY <1>a, Single DEF Released, Leaves
<1>u. /\ Idle' <=> Idle
      /\ \A h, q :
            /\ UeAt(h, q)' <=> UeAt(h, q)
            /\ On(h, q)' <=> On(h, q)
            /\ Home(h, q)' <=> Home(h, q)
  BY <1>a, <1>n DEF Idle, UeAt, On, Home
<1>w. Released(g, w)' /\ w \in Id /\ w <= last[g]
  BY <1>p, <1>n, <1>d DEF Contexts, ContextFits
<1>x. Idle \/ On(g, w) \/ (ue.from = <<g, w>> /\ ~ue.left)
  BY <1>d1 DEF LeavingTo
<1>y. \A h \in Gnb, q \in Rnti : /\ St(h, q) # "HANDOVER_PREPARATION"
                               /\ (St(h, q) = "HANDOVER_LEAVING" => h = g /\ q = w)
  BY <1>p, <1>a DEF OneSource, Source
<1>TypeOK. TypeOK'
  BY <1>p, <1>a, <1>c0 DEF TypeOK, Removed
<1>Messages. Messages'
  BY <1>p, <1>a, <1>m, <1>w DEF Messages
<1>Queues. Queues'
  BY <1>m
<1>Contexts. Contexts'
  <2> SUFFICES ASSUME NEW h \in Gnb, NEW q \in Rnti
               PROVE  teid'[h] <= last'[h] /\ imsiRnti'[h] <= last'[h] /\ ContextFits(h, q)'
    BY DEF Contexts
  <2>0. teid'[h] <= last'[h] /\ imsiRnti'[h] <= last'[h]
    BY <1>p, <1>c0, <1>tz DEF Contexts, Removed
  <2>1. CASE h = g /\ q = w
    BY <2>0, <1>tz, <1>c, <2>1 DEF ContextFits, Attached
  <2>2. CASE h # g \/ q # w
    <3>1. teid'[h] = q => teid[h] = q
      BY <1>tz
    <3>2. q <= last[h] => q <= last'[h]
      BY <1>c0 DEF Removed
    <3> QED BY <2>0, <3>1, <3>2, <1>p, <1>c, <1>u, <2>2 DEF Contexts, ContextFits
  <2> QED BY <2>1, <2>2
<1>Leavings. Leavings'
  BY <1>c, <1>y DEF Leavings
<1>OneSource. OneSource'
  <2> SUFFICES ASSUME NEW h \in Gnb, NEW q \in Rnti
               PROVE  NothingNew(h, q)
    BY <1>p, OneSourceStays
  <2> QED BY <1>p, <1>a, <1>c, <1>s, <1>u, <1>t, <1>x, <1>n DEF NothingNew, Source, Target
<1>Requests. Requests'
  <2> SUFFICES ASSUME NEW a \in Gnb, NEW b \in Gnb, NEW o \in Id, NEW m \in Id,
                      Sent("request", a, b, o, m)'
               PROVE  RequestMeets(a, b, o, m)'
    BY DEF Requests
  <2>1. Sent("request", a, b, o, m) /\ RequestMeets(a, b, o, m)
    BY <1>p, <1>a, <1>c, <1>s, <1>u, <1>t, <1>x, <1>n, <1>tz DEF Requests
  <2>2. a # b /\ o \in Rnti /\ o <= last'[a] /\ m = 0
    BY <2>1, <1>p, <1>a, <1>c, <1>s, <1>u, <1>t, <1>x, <1>n, <1>tz DEF RequestMeets
  <2>3. /\ St(a, o)' \in {"NONE", "HANDOVER_PREPARATION"}
        /\ St(a, o)' # "NONE" => Peer(a, o)' = b
    BY <2>1, <1>p, <1>a, <1>c, <1>s, <1>u, <1>t, <1>x, <1>n, <1>tz DEF RequestMeets
  <2>4. Idle' \/ (On(a, o)' /\ St(a, o)' = "HANDOVER_PREPARATION")
    BY <2>1, <1>p, <1>a, <1>c, <1>s, <1>u, <1>t, <1>x, <1>n, <1>tz DEF RequestMeets
  <2>5. s1' = <<>> /\ (leavingLast' => teid'[b] = 0)
    BY <2>1, <1>p, <1>a, <1>c, <1>s, <1>u, <1>t, <1>x, <1>n, <1>tz DEF RequestMeets
  <2>6. \A x, y \in Gnb, q, z \in Id :
           /\ ~Sent("ack", x, y, q, z)'
           /\ Sent("request", x, y, q, z)' => x = a /\ y = b /\ q = o
           /\ ~Sent("failure", x, a, o, z)'
    <3>1. /\ \A x, y \in Gnb, q, z0 \in Id : ~Sent("ack", x, y, q, z0)
          /\ \A x, y \in Gnb, q, z0 \in Id : Sent("request", x, y, q, z0) => x = a /\ y = b /\ q = o
          /\ \A x \in Gnb, z0 \in Id : ~Sent("failure", x, a, o, z0)
      BY <2>1 DEF RequestMeets
    <3> QED BY <3>1, <1>s
  <2>7. NoTarget(a, o)'
    BY <2>1, <1>c DEF RequestMeets, NoTarget
  <2> QED BY <2>2, <2>3, <2>4, <2>5, <2>6, <2>7 DEF RequestMeets
<1>Acks. Acks'
  <2> SUFFICES ASSUME NEW a \in Gnb, NEW b \in Gnb, NEW o \in Id, NEW m \in Id,
                      Sent("ack", a, b, o, m)'
               PROVE  AckMeets(a, b, o, m)'
    BY DEF Acks
  <2>1. Sent("ack", a, b, o, m) /\ AckMeets(a, b, o, m)
    BY <1>p, <1>a, <1>c, <1>s, <1>u, <1>t, <1>x, <1>n, <1>y DEF Acks
  <2>2. a # b /\ o \in Rnti /\ o <= last'[b] /\ m \in Rnti /\ m <= last'[a]
    BY <2>1, <1>p, <1>a, <1>c, <1>s, <1>u, <1>t, <1>x, <1>n, <1>y DEF AckMeets
  <2>3. /\ St(b, o)' \in {"NONE", "HANDOVER_PREPARATION"}
        /\ St(b, o)' # "NONE" => Peer(b, o)' = a
    BY <2>1, <1>p, <1>a, <1>c, <1>s, <1>u, <1>t, <1>x, <1>n, <1>y DEF AckMeets
  <2>4. Idle' \/ (On(b, o)' /\ St(b, o)' = "HANDOVER_PREPARATION")
    BY <2>1, <1>p, <1>a, <1>c, <1>s, <1>u, <1>t, <1>x, <1>n, <1>y DEF AckMeets
  <2>5. \/ St(a, m)' = "HANDOVER_JOINING" /\ Linked(a, m, b, o)'
        \/ St(a, m)' = "NONE" /\ Sent("failure", a, b, o, 0)'
    BY <2>1, <1>p, <1>a, <1>c, <1>s, <1>u, <1>t, <1>x, <1>n, <1>y DEF AckMeets
  <2>6. \A x, y \in Gnb, q, z \in Id :
           Sent("ack", x, y, q, z)' => x = a /\ y = b /\ q = o /\ z = m
    BY <2>1, <1>p, <1>a, <1>c, <1>s, <1>u, <1>t, <1>x, <1>n, <1>y DEF AckMeets
  <2> QED BY <2>2, <2>3, <2>4, <2>5, <2>6 DEF AckMeets
<1>Failures. Failures'
  <2> SUFFICES ASSUME NEW a \in Gnb, NEW b \in Gnb, NEW o \in Id, NEW m \in Id,
                      Sent("failure", a, b, o, m)'
               PROVE  FailureMeets(a, b, o, m)'
    BY DEF Failures
  <2>1. Sent("failure", a, b, o, m) /\ FailureMeets(a, b, o, m)
    BY <1>p, <1>a, <1>c, <1>s, <1>u, <1>t, <1>x, <1>n DEF Failures
  <2>2. a # b /\ o \in Rnti /\ o <= last'[b] /\ m = 0
    BY <2>1, <1>p, <1>a, <1>c, <1>s, <1>u, <1>t, <1>x, <1>n DEF FailureMeets
  <2>3. /\ St(b, o)' \in {"NONE", "HANDOVER_PREPARATION", "HANDOVER_LEAVING"}
        /\ St(b, o)' # "NONE" => Peer(b, o)' = a
    BY <2>1, <1>p, <1>a, <1>c, <1>s, <1>u, <1>t, <1>x, <1>n DEF FailureMeets
  <2>4. St(b, o)' = "HANDOVER_LEAVING" => \A z \in Rnti : Linked(b, o, a, z)' => St(a, z)' = "NONE"
    BY <2>1, <1>p, <1>a, <1>c, <1>s, <1>u, <1>t, <1>x, <1>n DEF FailureMeets
  <2>5. St(b, o)' = "HANDOVER_LEAVING"
                => \A x \in Gnb, z \in Id : ~Sent("context_release", x, b, o, z)'
    BY <2>1, <1>p, <1>a, <1>c, <1>s, <1>u, <1>t, <1>x, <1>n DEF FailureMeets
  <2>6. NoTarget(b, o)'
    BY <2>1, <1>p, <1>a, <1>c, <1>s, <1>u, <1>t, <1>x, <1>n DEF FailureMeets, NoTarget
  <2> QED BY <2>2, <2>3, <2>4, <2>5, <2>6 DEF FailureMeets
<1>Releases. Releases'
  BY <1>p, <1>a, <1>c, <1>s, <1>u, <1>t, <1>x, <1>n DEF Releases, ReleaseMeets
<1>Cancels. Cancels'
  <2> SUFFICES ASSUME NEW a \in Gnb, NEW b \in Gnb, NEW o \in Id, NEW m \in Id,
                      Sent("cancel", a, b, o, m)'
               PROVE  CancelMeets(a, b, o, m)'
    BY DEF Cancels
  <2>1. CASE a = g /\ b = p /\ o = w /\ m = l
    <3>1. St(p, l)' \in {"NONE", "HANDOVER_JOINING"} \/ Home(p, l)'
      BY <1>g, <1>c, <1>u
    <3> QED BY <2>1, <3>1, <1>g, <1>w, <1>a DEF CancelMeets
  <2>2. CASE ~(a = g /\ b = p /\ o = w /\ m = l)
    <3>1. CancelMeets(a, b, o, m)
      BY <2>2, <1>m, <1>p DEF Cancels
    <3>2. m \in Rnti /\ Idle'
      BY <3>1, <1>n, <1>u DEF CancelMeets
    <3>3. St(b, m)' \in {"NONE", "HANDOVER_JOINING"} \/ Home(b, m)'
      BY <3>1, <3>2, <1>c, <1>u DEF CancelMeets
    <3> QED BY <3>1, <3>2, <3>3, <1>a DEF CancelMeets
  <2> QED BY <2>1, <2>2
<1>Joinings. Joinings'
  <2> SUFFICES ASSUME NEW h \in Gnb, NEW q \in Rnti, St(h, q)' = "HANDOVER_JOINING"
               PROVE  \E x \in Gnb, y \in Rnti : JoiningFrom(h, q, x, y)'
    BY DEF Joinings
  <2>1. St(h, q) = "HANDOVER_JOINING" /\ (h # g \/ q # w)
    BY <1>c
  <2>2. PICK x \in Gnb, y \in Rnti : JoiningFrom(h, q, x, y)
    BY <1>p, <2>1 DEF Joinings
  <2> QED BY <2>1, <2>2, <1>p, <1>a, <1>c, <1>s, <1>x DEF JoiningFrom
<1>Switchings. Switchings'
  <2> SUFFICES ASSUME NEW h \in Gnb, NEW q \in Rnti, St(h, q)' = "HANDOVER_PATH_SWITCH"
               PROVE  /\ Switched(h)' /\ imsiRnti'[h] = q
                      /\ \E x \in Gnb, y \in Rnti : SwitchingFrom(h, q, x, y)'
    BY DEF Switchings
  <2>1. St(h, q) = "HANDOVER_PATH_SWITCH" /\ (h # g \/ q # w)
    BY <1>c
  <2>2. PICK x \in Gnb, y \in Rnti : SwitchingFrom(h, q, x, y)
    BY <1>p, <2>1 DEF Switchings
  <2>3. Switched(h) /\ imsiRnti[h] = q
    BY <1>p, <2>1 DEF Switchings
  <2>4. SwitchingFrom(h, q, x, y)'
    BY <2>1, <2>2, <1>p, <1>a, <1>c, <1>x DEF SwitchingFrom
  <2> QED BY <2>3, <2>4, <1>p, <1>a DEF Switched
<1>Answers. Answers'
  BY <1>p, <1>a, <1>c, <1>s, <1>u, <1>t, <1>x, <1>n DEF Answers
<1>UeIdle. UeIdle'
  BY <1>p, <1>a, <1>c, <1>c0, <1>n, <1>u, <1>x, <1>w DEF UeIdle, Removed
<1>UeConnecting. UeConnecting'
  <2>0. PICK e, v : e = ue.cell /\ v = ue.rnti
    OBVIOUS
  <2>1. CASE e = g /\ v = w
    BY <2>0, <2>1, <1>p, <1>a, <1>c, <1>s, <1>u, <1>t, <1>x, <1>n, Kinds, Single DEF UeConnecting,
       SettingUp
  <2>2. CASE ~(e = g /\ v = w)
    BY <2>0, <2>2, <1>p, <1>a, <1>c, <1>s, <1>u, <1>t, <1>x, <1>n, Kinds, Single DEF UeConnecting,
       SettingUp, UeIdle, Idle
  <2> QED BY <2>1, <2>2
<1>UeMoving. UeMoving'
  <2>0. PICK e, v : e = ue.cell /\ v = ue.rnti
    OBVIOUS
  <2>1. CASE e = g /\ v = w
    BY <2>0, <2>1, <1>p, <1>a, <1>c, <1>s, <1>u, <1>t, <1>x, <1>n, <1>w, <1>y DEF UeMoving, Away
  <2>2. CASE ~(e = g /\ v = w)
    BY <2>0, <2>2, <1>p, <1>a, <1>c, <1>s, <1>u, <1>t, <1>x, <1>n, <1>w, <1>y DEF UeMoving, Away,
       UeIdle, Idle
  <2> QED BY <2>1, <2>2
<1>UeConnected. UeConnected'
  <2>0. PICK e, v : e = ue.cell /\ v = ue.rnti
    OBVIOUS
  <2>1. CASE e = g /\ v = w
    BY <2>0, <2>1, <1>p, <1>a, <1>c, <1>s, <1>u, <1>t, <1>x, <1>n, <1>w, <1>y,
       Kinds DEF UeConnected, Away
  <2>2. CASE ~(e = g /\ v = w)
    BY <2>0, <2>2, <1>p, <1>a, <1>c, <1>s, <1>u, <1>t, <1>x, <1>n, <1>w, <1>y,
       Kinds DEF UeConnected, Away, UeIdle, Idle
  <2> QED BY <2>1, <2>2
<1> QED BY <1>p, <1>a, <1>TypeOK, <1>Messages, <1>Queues, <1>Contexts, <1>Leavings, <1>OneSource,
           <1>Requests, <1>Acks, <1>Failures, <1>Releases, <1>Cancels, <1>Joinings, <1>Switchings,
           <1>Answers, <1>UeIdle, <1>UeConnecting, <1>UeMoving, <1>UeConnected DEF IInv, Good

\* A cancel finds no context, and the invariant stays.
LEMMA CancelIgnored ==
    ASSUME Here, NEW s \in Gnb, NEW g \in Gnb, RecvHandoverCancel(s, g),
           ~Exists(g, Head(x2[s][g]).new)
    PROVE  IInv'
<1>p. /\ TypeOK /\ Messages /\ Queues /\ Contexts /\ Leavings /\ OneSource
      /\ Requests /\ Acks /\ Failures /\ Releases /\ Cancels
      /\ Joinings /\ Switchings /\ Answers
      /\ UeIdle /\ UeConnecting /\ UeMoving /\ UeConnected
      /\ fault = "none" /\ MaxRnti \in Nat /\ NoCell \notin Gnb
      /\ \A q \in Rnti : q \in Nat /\ q \in Id /\ q # 0
  BY HandoverAssumption DEF Here, Good, Rnti, Id
<1>d. /\ x2[s][g] # <<>> /\ Head(x2[s][g]).kind = "cancel" /\ now = <<>>
  BY DEF RecvHandoverCancel, Arrives, Running
<1>h0. PICK n \in Id, w \in Id : Head(x2[s][g]) = Msg("cancel", n, w) /\ Head(x2[s][g]).new = w
               /\ Sent("cancel", s, g, n, w)
  BY <1>p, <1>d, HeadSent
<1>a0. /\ ctx' = ctx /\ last' = last /\ teid' = teid /\ imsiRnti' = imsiRnti /\ dl' = dl
            /\ now' = now
       /\ x2' = Take(s, g) /\ ue' = ue /\ ul' = ul /\ s1' = s1 /\ leavingLast' = leavingLast
            /\ fault' = fault
  BY DEF RecvHandoverCancel, Here, gnbVars, ueVars, Exists, St
<1>a. /\ ue' = ue /\ dl' = dl /\ ul' = ul /\ now = <<>> /\ now' = <<>>
      /\ UNCHANGED <<ctx, last, teid, imsiRnti, s1, leavingLast, fault>>
  BY <1>d, <1>a0
<1>m. /\ x2' \in [Gnb -> [Gnb -> Seq(Message)]] /\ Queues'
      /\ \A kind, from, to, old, new : from \in Gnb /\ to \in Gnb =>
            /\ Sent(kind, from, to, old, new)' => Sent(kind, from, to, old, new)
            /\ Sent(kind, from, to, old, new) =>
                  \/ Sent(kind, from, to, old, new)'
                  \/ kind = "cancel" /\ from = s /\ to = g /\ old = n /\ new = w
  <2>1. Takes(s, g) /\ Messages /\ Queues
    BY <1>p, <1>a0 DEF Takes
  <2>2. Taken("cancel", s, g, n, w)
    BY ONLY s \in Gnb, g \in Gnb, <1>d, <1>h0, <2>1, MessageTaken
  <2> QED BY <2>2 DEF Taken
<1>s. \A kind, from, to, old, new : from \in Gnb /\ to \in Gnb /\ kind # "cancel" =>
         (Sent(kind, from, to, old, new)' <=> Sent(kind, from, to, old, new))
  BY <1>m
<1>s1. \A kind, from, to, old, new : from \in Gnb /\ to \in Gnb =>
         (Sent(kind, from, to, old, new)' => Sent(kind, from, to, old, new))
  BY <1>m
<1>c. \A h, q :
         /\ St(h, q)' = St(h, q) /\ Peer(h, q)' = Peer(h, q)
         /\ Timer(h, q)' = Timer(h, q) /\ Pend(h, q)' = Pend(h, q)
         /\ \A x, y : Linked(h, q, x, y)' <=> Linked(h, q, x, y)
  BY <1>a, ContextsSame
<1>u. /\ Idle' <=> Idle
      /\ \A h, q :
            /\ UeAt(h, q)' <=> UeAt(h, q)
            /\ On(h, q)' <=> On(h, q)
            /\ Home(h, q)' <=> Home(h, q)
            /\ Leaves(h, q)' <=> Leaves(h, q)
            /\ Released(h, q)' <=> Released(h, q)
  BY <1>a, UeSame
<1>t. /\ \A h \in Gnb : last[h] \in Nat /\ teid[h] \in Nat /\ imsiRnti[h] \in Nat
  BY <1>p DEF TypeOK
<1>n. \A h, q :
         /\ ~Released(h, q) /\ ~Released(h, q)' /\ ~Leaves(h, q) /\ ~Leaves(h, q)'
  BY <1>a DEF Released, Leaves
<1>TypeOK. TypeOK'
  BY <1>p, <1>a DEF TypeOK
<1>Messages. Messages'
  BY <1>p, <1>a, <1>m, <1>u DEF Messages
<1>Queues. Queues'
  BY <1>m
<1>Contexts. Contexts'
  BY <1>p, <1>a, <1>c, <1>s, <1>u, <1>n DEF Contexts, ContextFits, Attached, SettingUp
<1>Leavings. Leavings'
  BY <1>p, <1>a, <1>c, <1>s, <1>u, <1>n DEF Leavings, LeavingTo, Pending, Switched
<1>OneSource. OneSource'
  <2> SUFFICES ASSUME NEW h \in Gnb, NEW q \in Rnti
               PROVE  NothingNew(h, q)
    BY <1>p, OneSourceStays
  <2> QED BY <1>p, <1>a, <1>c, <1>s, <1>u, <1>n DEF NothingNew, Source, Target
<1>Requests. Requests'
  BY <1>p, <1>a, <1>c, <1>s, <1>u, <1>n DEF Requests, RequestMeets, NoTarget
<1>Acks. Acks'
  BY <1>p, <1>a, <1>c, <1>s, <1>u, <1>n DEF Acks, AckMeets
<1>Failures. Failures'
  BY <1>p, <1>a, <1>c, <1>s, <1>u, <1>n DEF Failures, FailureMeets, NoTarget
<1>Releases. Releases'
  BY <1>p, <1>a, <1>c, <1>s, <1>u, <1>n DEF Releases, ReleaseMeets
<1>Cancels. Cancels'
  <2> SUFFICES ASSUME NEW a \in Gnb, NEW b \in Gnb, NEW o \in Id, NEW m \in Id,
                      Sent("cancel", a, b, o, m)'
               PROVE  CancelMeets(a, b, o, m)'
    BY DEF Cancels
  <2>1. Sent("cancel", a, b, o, m) /\ CancelMeets(a, b, o, m)
    BY <1>p, <1>a, <1>c, <1>s1, <1>u, <1>n DEF Cancels
  <2>2. a # b /\ m \in Rnti /\ m <= last'[b] /\ ~leavingLast'
    BY <2>1, <1>p, <1>a, <1>c, <1>s1, <1>u, <1>n DEF CancelMeets
  <2>3. Idle' \/ Released(a, o)'
    BY <2>1, <1>p, <1>a, <1>c, <1>s1, <1>u, <1>n DEF CancelMeets
  <2>4. St(b, m)' \in {"NONE", "HANDOVER_JOINING"} \/ Home(b, m)'
    BY <2>1, <1>p, <1>a, <1>c, <1>s1, <1>u, <1>n DEF CancelMeets
  <2> QED BY <2>2, <2>3, <2>4 DEF CancelMeets
<1>Joinings. Joinings'
  BY <1>p, <1>a, <1>c, <1>s, <1>u, <1>n DEF Joinings, JoiningFrom
<1>Switchings. Switchings'
  BY <1>p, <1>a, <1>c, <1>s, <1>u, <1>n DEF Switchings, SwitchingFrom, Switched
<1>Answers. Answers'
  BY <1>p, <1>a, <1>c, <1>s, <1>u, <1>n DEF Answers
<1>UeIdle. UeIdle'
  BY <1>p, <1>a, <1>c, <1>s, <1>u, <1>n DEF UeIdle
<1>UeConnecting. UeConnecting'
  BY <1>p, <1>a, <1>c, <1>s, <1>u, <1>n DEF UeConnecting, SettingUp
<1>UeMoving. UeMoving'
  BY <1>p, <1>a, <1>c, <1>s, <1>u, <1>n DEF UeMoving, Away
<1>UeConnected. UeConnected'
  BY <1>p, <1>a, <1>c, <1>s, <1>u, <1>n DEF UeConnected, Away
<1> QED BY <1>p, <1>a, <1>TypeOK, <1>Messages, <1>Queues, <1>Contexts, <1>Leavings, <1>OneSource,
           <1>Requests, <1>Acks, <1>Failures, <1>Releases, <1>Cancels, <1>Joinings, <1>Switchings,
           <1>Answers, <1>UeIdle, <1>UeConnecting, <1>UeMoving, <1>UeConnected DEF IInv, Good

\* Forwarded data finds its tunnel, and the invariant stays.
LEMMA DataReceived ==
    ASSUME Here, NEW s \in Gnb, NEW g \in Gnb, RecvUeData(s, g), teid[g] # 0
    PROVE  IInv'
<1>p. /\ TypeOK /\ Messages /\ Queues /\ Contexts /\ Leavings /\ OneSource
      /\ Requests /\ Acks /\ Failures /\ Releases /\ Cancels
      /\ Joinings /\ Switchings /\ Answers
      /\ UeIdle /\ UeConnecting /\ UeMoving /\ UeConnected
      /\ fault = "none" /\ MaxRnti \in Nat /\ NoCell \notin Gnb
      /\ \A q \in Rnti : q \in Nat /\ q \in Id /\ q # 0
  BY HandoverAssumption DEF Here, Good, Rnti, Id
<1>d. /\ x2[s][g] # <<>> /\ Head(x2[s][g]).kind = "data" /\ now = <<>>
  BY DEF RecvUeData, Arrives, Running
<1>h0. PICK n \in Id, w \in Id : Head(x2[s][g]) = Msg("data", n, w) /\ Head(x2[s][g]).new = w
               /\ Sent("data", s, g, n, w)
  BY <1>p, <1>d, HeadSent
<1>a0. /\ ctx' = ctx /\ last' = last /\ teid' = teid /\ imsiRnti' = imsiRnti /\ dl' = dl
            /\ now' = now
       /\ x2' = Take(s, g) /\ ue' = ue /\ ul' = ul /\ s1' = s1 /\ leavingLast' = leavingLast
            /\ fault' = fault
  BY DEF RecvUeData, Here, gnbVars, ueVars, Exists, St
<1>a. /\ ue' = ue /\ dl' = dl /\ ul' = ul /\ now = <<>> /\ now' = <<>>
      /\ UNCHANGED <<ctx, last, teid, imsiRnti, s1, leavingLast, fault>>
  BY <1>d, <1>a0
<1>m. /\ x2' \in [Gnb -> [Gnb -> Seq(Message)]] /\ Queues'
      /\ \A kind, from, to, old, new : from \in Gnb /\ to \in Gnb =>
            /\ Sent(kind, from, to, old, new)' => Sent(kind, from, to, old, new)
            /\ Sent(kind, from, to, old, new) =>
                  \/ Sent(kind, from, to, old, new)'
                  \/ kind = "data" /\ from = s /\ to = g /\ old = n /\ new = w
  <2>1. Takes(s, g) /\ Messages /\ Queues
    BY <1>p, <1>a0 DEF Takes
  <2>2. Taken("data", s, g, n, w)
    BY ONLY s \in Gnb, g \in Gnb, <1>d, <1>h0, <2>1, MessageTaken
  <2> QED BY <2>2 DEF Taken
<1>s. \A kind, from, to, old, new : from \in Gnb /\ to \in Gnb /\ kind # "data" =>
         (Sent(kind, from, to, old, new)' <=> Sent(kind, from, to, old, new))
  BY <1>m
<1>s1. \A kind, from, to, old, new : from \in Gnb /\ to \in Gnb =>
         (Sent(kind, from, to, old, new)' => Sent(kind, from, to, old, new))
  BY <1>m
<1>c. \A h, q :
         /\ St(h, q)' = St(h, q) /\ Peer(h, q)' = Peer(h, q)
         /\ Timer(h, q)' = Timer(h, q) /\ Pend(h, q)' = Pend(h, q)
         /\ \A x, y : Linked(h, q, x, y)' <=> Linked(h, q, x, y)
  BY <1>a, ContextsSame
<1>u. /\ Idle' <=> Idle
      /\ \A h, q :
            /\ UeAt(h, q)' <=> UeAt(h, q)
            /\ On(h, q)' <=> On(h, q)
            /\ Home(h, q)' <=> Home(h, q)
            /\ Leaves(h, q)' <=> Leaves(h, q)
            /\ Released(h, q)' <=> Released(h, q)
  BY <1>a, UeSame
<1>t. /\ \A h \in Gnb : last[h] \in Nat /\ teid[h] \in Nat /\ imsiRnti[h] \in Nat
  BY <1>p DEF TypeOK
<1>n. \A h, q :
         /\ ~Released(h, q) /\ ~Released(h, q)' /\ ~Leaves(h, q) /\ ~Leaves(h, q)'
  BY <1>a DEF Released, Leaves
<1>TypeOK. TypeOK'
  BY <1>p, <1>a DEF TypeOK
<1>Messages. Messages'
  BY <1>p, <1>a, <1>m, <1>u DEF Messages
<1>Queues. Queues'
  BY <1>m
<1>Contexts. Contexts'
  BY <1>p, <1>a, <1>c, <1>s, <1>u, <1>n DEF Contexts, ContextFits, Attached, SettingUp
<1>Leavings. Leavings'
  BY <1>p, <1>a, <1>c, <1>s, <1>u, <1>n DEF Leavings, LeavingTo, Pending, Switched
<1>OneSource. OneSource'
  <2> SUFFICES ASSUME NEW h \in Gnb, NEW q \in Rnti
               PROVE  NothingNew(h, q)
    BY <1>p, OneSourceStays
  <2> QED BY <1>p, <1>a, <1>c, <1>s, <1>u, <1>n DEF NothingNew, Source, Target
<1>Requests. Requests'
  BY <1>p, <1>a, <1>c, <1>s, <1>u, <1>n DEF Requests, RequestMeets, NoTarget
<1>Acks. Acks'
  BY <1>p, <1>a, <1>c, <1>s, <1>u, <1>n DEF Acks, AckMeets
<1>Failures. Failures'
  BY <1>p, <1>a, <1>c, <1>s, <1>u, <1>n DEF Failures, FailureMeets, NoTarget
<1>Releases. Releases'
  BY <1>p, <1>a, <1>c, <1>s, <1>u, <1>n DEF Releases, ReleaseMeets
<1>Cancels. Cancels'
  <2> SUFFICES ASSUME NEW a \in Gnb, NEW b \in Gnb, NEW o \in Id, NEW m \in Id,
                      Sent("cancel", a, b, o, m)'
               PROVE  CancelMeets(a, b, o, m)'
    BY DEF Cancels
  <2>1. Sent("cancel", a, b, o, m) /\ CancelMeets(a, b, o, m)
    BY <1>p, <1>a, <1>c, <1>s1, <1>u, <1>n DEF Cancels
  <2>2. a # b /\ m \in Rnti /\ m <= last'[b] /\ ~leavingLast'
    BY <2>1, <1>p, <1>a, <1>c, <1>s1, <1>u, <1>n DEF CancelMeets
  <2>3. Idle' \/ Released(a, o)'
    BY <2>1, <1>p, <1>a, <1>c, <1>s1, <1>u, <1>n DEF CancelMeets
  <2>4. St(b, m)' \in {"NONE", "HANDOVER_JOINING"} \/ Home(b, m)'
    BY <2>1, <1>p, <1>a, <1>c, <1>s1, <1>u, <1>n DEF CancelMeets
  <2> QED BY <2>2, <2>3, <2>4 DEF CancelMeets
<1>Joinings. Joinings'
  BY <1>p, <1>a, <1>c, <1>s, <1>u, <1>n DEF Joinings, JoiningFrom
<1>Switchings. Switchings'
  BY <1>p, <1>a, <1>c, <1>s, <1>u, <1>n DEF Switchings, SwitchingFrom, Switched
<1>Answers. Answers'
  BY <1>p, <1>a, <1>c, <1>s, <1>u, <1>n DEF Answers
<1>UeIdle. UeIdle'
  BY <1>p, <1>a, <1>c, <1>s, <1>u, <1>n DEF UeIdle
<1>UeConnecting. UeConnecting'
  BY <1>p, <1>a, <1>c, <1>s, <1>u, <1>n DEF UeConnecting, SettingUp
<1>UeMoving. UeMoving'
  BY <1>p, <1>a, <1>c, <1>s, <1>u, <1>n DEF UeMoving, Away
<1>UeConnected. UeConnected'
  BY <1>p, <1>a, <1>c, <1>s, <1>u, <1>n DEF UeConnected, Away
<1> QED BY <1>p, <1>a, <1>TypeOK, <1>Messages, <1>Queues, <1>Contexts, <1>Leavings, <1>OneSource,
           <1>Requests, <1>Acks, <1>Failures, <1>Releases, <1>Cancels, <1>Joinings, <1>Switchings,
           <1>Answers, <1>UeIdle, <1>UeConnecting, <1>UeMoving, <1>UeConnected DEF IInv, Good

\* A cancel finds the target waiting, and the invariant stays.
LEMMA WaitCancelled ==
    ASSUME Here, NEW t \in Gnb, NEW g \in Gnb, RecvHandoverCancel(t, g), NEW w \in Rnti,
           w = Head(x2[t][g]).new, St(g, w) = "HANDOVER_JOINING"
    PROVE  IInv'
<1>p. /\ TypeOK /\ Messages /\ Queues /\ Contexts /\ Leavings /\ OneSource
      /\ Requests /\ Acks /\ Failures /\ Releases /\ Cancels
      /\ Joinings /\ Switchings /\ Answers
      /\ UeIdle /\ UeConnecting /\ UeMoving /\ UeConnected
      /\ fault = "none" /\ MaxRnti \in Nat /\ NoCell \notin Gnb
      /\ \A q \in Rnti : q \in Nat /\ q \in Id /\ q # 0
  BY HandoverAssumption DEF Here, Good, Rnti, Id
<1>d. /\ x2[t][g] # <<>> /\ Head(x2[t][g]).kind = "cancel" /\ now = <<>>
  BY DEF RecvHandoverCancel, Arrives, Running
<1>h0. PICK n \in Id : Head(x2[t][g]) = Msg("cancel", n, w) /\ Sent("cancel", t, g, n, w)
  BY <1>p, <1>d, HeadSent
<1>n0. /\ \A h, q : ~Released(h, q) /\ ~Leaves(h, q)
  BY <1>d DEF Released, Leaves
<1>r. CancelMeets(t, g, n, w)
  BY <1>p, <1>h0 DEF Cancels
<1>r1. /\ ~leavingLast /\ Idle
  BY <1>r, <1>n0 DEF CancelMeets
<1>r2. /\ \A h \in Gnb, q \in Rnti : ~Home(h, q) /\ St(h, q) \notin Attached
  BY <1>p, <1>r1, <1>n0 DEF Contexts, ContextFits, Home, UeAt, Idle
<1>g0. PICK s \in Gnb, r \in Rnti : JoiningFrom(g, w, s, r)
  BY <1>p DEF Joinings
<1>g. /\ Linked(g, w, s, r) /\ s # g /\ r <= last[s]
      /\ St(s, r) = "NONE"
  <2>1. St(s, r) # "HANDOVER_PREPARATION"
    BY <1>r2 DEF Attached
  <2>2. ASSUME St(s, r) = "HANDOVER_LEAVING" PROVE FALSE
    <3>1. Linked(s, r, g, w)
      BY <1>g0, <2>2 DEF JoiningFrom
    <3>2. PICK x0 \in Gnb, y0 \in Rnti : LeavingTo(s, r, x0, y0)
      BY <1>p, <2>2 DEF Leavings
    <3>3. x0 = g /\ y0 = w
      BY <3>1, <3>2, LinkedOnce DEF LeavingTo
    <3>4. Sent("failure", g, s, r, 0) \/ Sent("context_release", g, s, r, w)
      BY <3>2, <3>3, <1>r2 DEF LeavingTo, Pending
    <3>5. ~Sent("failure", g, s, r, 0)
      <4>1. Sent("failure", g, s, r, 0) => FailureMeets(g, s, r, 0)
        BY <1>p DEF Failures, Id
      <4> QED BY <4>1, <3>1, <2>2 DEF FailureMeets
    <3>6. ~Sent("context_release", g, s, r, w)
      <4>1. Sent("context_release", g, s, r, w) => ReleaseMeets(g, s, r, w)
        BY <1>p DEF Releases
      <4> QED BY <4>1 DEF ReleaseMeets
    <3> QED BY <3>4, <3>5, <3>6
  <2> QED BY <1>g0, <2>1, <2>2 DEF JoiningFrom
<1>a0. /\ ctx' = [ctx EXCEPT ![g][w] = Cancelled(@)]
       /\ x2' = Take(t, g)
       /\ UNCHANGED <<last, teid, imsiRnti, ue, dl, ul, s1, now, leavingLast, fault>>
  <2>1. Exists(g, w) /\ ctx[g][w].st = "HANDOVER_JOINING"
    BY DEF Exists, St
  <2> QED BY <2>1 DEF RecvHandoverCancel, Here, ueVars
<1>a. /\ ue' = ue /\ dl' = dl /\ ul' = ul /\ now = <<>> /\ now' = <<>>
      /\ St(g, w) = "HANDOVER_JOINING" /\ ~leavingLast /\ Idle
      /\ UNCHANGED <<last, teid, imsiRnti, s1, leavingLast, fault>>
  BY <1>a0, <1>d, <1>r1
<1>j. /\ ctx \in [Gnb -> [Rnti -> ContextType]]
      /\ ctx[g][w] \in ContextType
  BY <1>p DEF TypeOK
<1>k. PICK d \in ContextType : d = ctx[g][w]
  BY <1>j
<1>k1. PICK c : c = Cancelled(d)
  OBVIOUS
<1>k2. /\ c \in ContextType /\ c.st = "HANDOVER_JOINING" /\ c.timer = "none"
       /\ c.peer = d.peer /\ c.peerId = d.peerId /\ c.pend = d.pend
  <2>1. d.st = "HANDOVER_JOINING"
    BY <1>k DEF St
  <2> QED BY ONLY d \in ContextType, <1>k1, <2>1 DEF ContextType, Cancelled
<1>k3. Guarded(c)
  BY <1>k2 DEF Guarded
<1>b. ctx' = [ctx EXCEPT ![g][w] = Cancelled(@)]
  BY <1>a0
<1>e. Put(g, w, c)
  <2>1. c = Cancelled(ctx[g][w])
    BY <1>k, <1>k1
  <2> QED BY ONLY g \in Gnb, w \in Rnti, <1>j, <1>b, <2>1 DEF Put
<1>c. /\ ctx' \in [Gnb -> [Rnti -> ContextType]]
      /\ \A h \in Gnb, q \in Rnti : Guarded(ctx'[h][q])
      /\ St(g, w)' = "HANDOVER_JOINING" /\ Timer(g, w)' = "none" /\ Pend(g, w)' = Pend(g, w)
      /\ \A h \in Gnb, q \in Rnti :
            /\ h # g \/ q # w => /\ St(h, q)' = St(h, q) /\ Timer(h, q)' = Timer(h, q)
                                 /\ Pend(h, q)' = Pend(h, q)
            /\ Peer(h, q)' = Peer(h, q)
            /\ \A x, y : Linked(h, q, x, y)' <=> Linked(h, q, x, y)
  <2>1. c.peer = ctx[g][w].peer /\ c.peerId = ctx[g][w].peerId
    BY <1>k, <1>k2
  <2>2. c.pend = Pend(g, w)
    BY <1>k, <1>k2 DEF Pend
  <2>3. TypeOK
    BY <1>p
  <2>4. Changed(g, w, c)
    BY ONLY g \in Gnb, w \in Rnti, <1>k2, <1>k3, <1>e, <2>1, <2>3, ContextChanged
  <2> QED BY <1>k2, <2>2, <2>4 DEF Changed
<1>m. /\ x2' \in [Gnb -> [Gnb -> Seq(Message)]] /\ Queues'
      /\ \A kind, from, to, old, new : from \in Gnb /\ to \in Gnb =>
            /\ Sent(kind, from, to, old, new)' => Sent(kind, from, to, old, new)
            /\ Sent(kind, from, to, old, new) =>
                  \/ Sent(kind, from, to, old, new)'
                  \/ kind = "cancel" /\ from = t /\ to = g /\ old = n /\ new = w
  <2>1. Takes(t, g) /\ Messages /\ Queues
    BY <1>p, <1>a0 DEF Takes
  <2>2. Taken("cancel", t, g, n, w)
    BY ONLY t \in Gnb, g \in Gnb, <1>d, <1>h0, <2>1, MessageTaken
  <2> QED BY <2>2 DEF Taken
<1>s. \A kind, from, to, old, new : from \in Gnb /\ to \in Gnb /\ kind # "cancel" =>
         (Sent(kind, from, to, old, new)' <=> Sent(kind, from, to, old, new))
  BY <1>m
<1>s1. \A kind, from, to, old, new : from \in Gnb /\ to \in Gnb =>
         (Sent(kind, from, to, old, new)' => Sent(kind, from, to, old, new))
  BY <1>m
<1>u. /\ Idle' <=> Idle
      /\ \A h, q :
            /\ UeAt(h, q)' <=> UeAt(h, q)
            /\ On(h, q)' <=> On(h, q)
            /\ Home(h, q)' <=> Home(h, q)
            /\ Leaves(h, q)' <=> Leaves(h, q)
            /\ Released(h, q)' <=> Released(h, q)
  BY <1>a, UeSame
<1>n. \A h, q :
         /\ ~Released(h, q) /\ ~Released(h, q)' /\ ~Leaves(h, q) /\ ~Leaves(h, q)'
  BY <1>a DEF Released, Leaves
<1>t. /\ \A h \in Gnb : last[h] \in Nat /\ teid[h] \in Nat /\ imsiRnti[h] \in Nat
  BY <1>p DEF TypeOK
<1>x. St(g, w) = "HANDOVER_JOINING"
  BY <1>a
<1>y. \A h \in Gnb, q \in Rnti : St(h, q)' = St(h, q)
  BY <1>c, <1>x
<1>TypeOK. TypeOK'
  BY <1>p, <1>a, <1>c, Single DEF TypeOK
<1>Messages. Messages'
  BY <1>p, <1>a, <1>m, <1>u DEF Messages
<1>Queues. Queues'
  BY <1>m
<1>Contexts. Contexts'
  <2> SUFFICES ASSUME NEW h \in Gnb, NEW q \in Rnti
               PROVE  teid'[h] <= last'[h] /\ imsiRnti'[h] <= last'[h] /\ ContextFits(h, q)'
    BY DEF Contexts
  <2>1. CASE h = g /\ q = w
    BY <1>p, <1>a, <1>c, <1>u, <1>x, <2>1 DEF Contexts, ContextFits, Attached, SettingUp
  <2>2. CASE h # g \/ q # w
    BY <1>p, <1>a, <1>c, <1>u, <2>2 DEF Contexts, ContextFits, Attached, SettingUp
  <2> QED BY <2>1, <2>2
<1>Leavings. Leavings'
  <2> SUFFICES ASSUME NEW h \in Gnb, NEW q \in Rnti, St(h, q)' = "HANDOVER_LEAVING"
               PROVE  \E x \in Gnb, y \in Rnti : LeavingTo(h, q, x, y)'
    BY DEF Leavings
  <2>1. St(h, q) = "HANDOVER_LEAVING"
    BY <1>y
  <2>2. PICK x \in Gnb, y \in Rnti : LeavingTo(h, q, x, y)
    BY <1>p, <2>1 DEF Leavings
  <2>3. Pending(h, q, x, y)'
    BY <2>2, <1>p, <1>a, <1>c, <1>y, <1>s, <1>u DEF LeavingTo, Pending, Switched
  <2>4. St(x, y)' \in {"NONE", "HANDOVER_JOINING"} \/ Home(x, y)'
    BY <2>2, <1>p, <1>a, <1>c, <1>y, <1>s, <1>u DEF LeavingTo
  <2>5. \/ Idle'
        \/ On(h, q)'
        \/ ue'.from = <<h, q>> /\ ue'.cell = x /\ ~ue'.left /\ (ue'.rnti = y \/ St(x, y)' = "NONE")
    BY <2>2, <1>p, <1>a, <1>c, <1>y, <1>s, <1>u DEF LeavingTo
  <2> QED BY <2>2, <2>3, <2>4, <2>5, <1>a, <1>c DEF LeavingTo
<1>OneSource. OneSource'
  <2> SUFFICES ASSUME NEW h \in Gnb, NEW q \in Rnti
               PROVE  NothingNew(h, q)
    BY <1>p, OneSourceStays
  <2> QED BY <1>p, <1>a, <1>c, <1>s, <1>u, <1>n, <1>x, <1>y DEF NothingNew, Source, Target
<1>Requests. Requests'
  BY <1>p, <1>a, <1>c, <1>s, <1>u, <1>n, <1>x, <1>y DEF Requests, RequestMeets, NoTarget
<1>Acks. Acks'
  BY <1>p, <1>a, <1>c, <1>s, <1>u, <1>n, <1>x, <1>y DEF Acks, AckMeets
<1>Failures. Failures'
  BY <1>p, <1>a, <1>c, <1>s, <1>u, <1>n, <1>x, <1>y DEF Failures, FailureMeets, NoTarget
<1>Releases. Releases'
  BY <1>p, <1>a, <1>c, <1>s, <1>u, <1>n, <1>x, <1>y DEF Releases, ReleaseMeets
<1>Cancels. Cancels'
  <2> SUFFICES ASSUME NEW a \in Gnb, NEW b \in Gnb, NEW o \in Id, NEW m \in Id,
                      Sent("cancel", a, b, o, m)'
               PROVE  CancelMeets(a, b, o, m)'
    BY DEF Cancels
  <2>1. Sent("cancel", a, b, o, m) /\ CancelMeets(a, b, o, m)
    BY <1>p, <1>a, <1>c, <1>s1, <1>u, <1>n, <1>y DEF Cancels
  <2>2. a # b /\ m \in Rnti /\ m <= last'[b] /\ ~leavingLast'
    BY <2>1, <1>p, <1>a, <1>c, <1>s1, <1>u, <1>n, <1>y DEF CancelMeets
  <2>3. Idle' \/ Released(a, o)'
    BY <2>1, <1>p, <1>a, <1>c, <1>s1, <1>u, <1>n, <1>y DEF CancelMeets
  <2>4. St(b, m)' \in {"NONE", "HANDOVER_JOINING"} \/ Home(b, m)'
    BY <2>1, <1>p, <1>a, <1>c, <1>s1, <1>u, <1>n, <1>y DEF CancelMeets
  <2> QED BY <2>2, <2>3, <2>4 DEF CancelMeets
<1>Joinings. Joinings'
  <2> SUFFICES ASSUME NEW h \in Gnb, NEW q \in Rnti, St(h, q)' = "HANDOVER_JOINING"
               PROVE  \E x \in Gnb, y \in Rnti : JoiningFrom(h, q, x, y)'
    BY DEF Joinings
  <2>1. CASE h = g /\ q = w
    BY <2>1, <1>g, <1>a, <1>c, <1>y DEF JoiningFrom
  <2>2. CASE h # g \/ q # w
    <3>1. PICK x \in Gnb, y \in Rnti : JoiningFrom(h, q, x, y)
      BY <1>p, <2>2, <1>y DEF Joinings
    <3> QED BY <2>2, <3>1, <1>a, <1>c, <1>s, <1>y DEF JoiningFrom
  <2> QED BY <2>1, <2>2
<1>Switchings. Switchings'
  BY <1>p, <1>a, <1>c, <1>y DEF Switchings, SwitchingFrom, Switched
<1>Answers. Answers'
  BY <1>p, <1>a, <1>c, <1>s, <1>u, <1>n, <1>x, <1>y DEF Answers
<1>UeIdle. UeIdle'
  BY <1>p, <1>a, <1>c, <1>s, <1>u, <1>n, <1>x, <1>y DEF UeIdle
<1>UeConnecting. UeConnecting'
  BY <1>a DEF UeConnecting, Idle
<1>UeMoving. UeMoving'
  BY <1>a DEF UeMoving, Idle
<1>UeConnected. UeConnected'
  BY <1>a DEF UeConnected, Idle
<1> QED BY <1>p, <1>a, <1>TypeOK, <1>Messages, <1>Queues, <1>Contexts, <1>Leavings, <1>OneSource,
           <1>Requests, <1>Acks, <1>Failures, <1>Releases, <1>Cancels, <1>Joinings, <1>Switchings,
           <1>Answers, <1>UeIdle, <1>UeConnecting, <1>UeMoving, <1>UeConnected DEF IInv, Good

\* The source forwards data, and the invariant stays.
LEMMA DataForwarded ==
    ASSUME Here, NEW g \in Gnb, NEW w \in Rnti, ForwardData(g, w)
    PROVE  IInv'
<1>p. /\ TypeOK /\ Messages /\ Queues /\ Contexts /\ Leavings /\ OneSource
      /\ Requests /\ Acks /\ Failures /\ Releases /\ Cancels
      /\ Joinings /\ Switchings /\ Answers
      /\ UeIdle /\ UeConnecting /\ UeMoving /\ UeConnected
      /\ fault = "none" /\ MaxRnti \in Nat /\ NoCell \notin Gnb
      /\ \A q \in Rnti : q \in Nat /\ q \in Id /\ q # 0
  BY HandoverAssumption DEF Here, Good, Rnti, Id
<1>d. /\ now = <<>> /\ St(g, w) = "HANDOVER_LEAVING"
  BY DEF ForwardData, Running, St
<1>d1. PICK p \in Gnb, n \in Rnti : LeavingTo(g, w, p, n)
  BY <1>p, <1>d DEF Leavings
<1>a0. /\ ctx' = ctx /\ last' = last /\ teid' = teid /\ imsiRnti' = imsiRnti /\ dl' = dl
            /\ now' = now
       /\ Adds(g, p, Msg("data", 0, 0)) /\ ue' = ue /\ ul' = ul /\ s1' = s1
            /\ leavingLast' = leavingLast /\ fault' = fault
  <2>1. ctx[g][w].peer = p
    BY <1>d1 DEF LeavingTo, Linked
  <2> QED BY <2>1 DEF ForwardData, Here, gnbVars, ueVars, Adds
<1>a. /\ ue' = ue /\ dl' = dl /\ ul' = ul /\ now = <<>> /\ now' = <<>>
      /\ UNCHANGED <<ctx, last, teid, imsiRnti, s1, leavingLast, fault>>
  BY <1>d, <1>a0
<1>m. /\ x2' \in [Gnb -> [Gnb -> Seq(Message)]] /\ Queues'
      /\ \A kind, from, to, old, new : from \in Gnb /\ to \in Gnb =>
            (Sent(kind, from, to, old, new)' <=>
                 \/ Sent(kind, from, to, old, new)
                 \/ kind = "data" /\ from = g /\ to = p /\ old = 0 /\ new = 0)
  <2>1. Msg("data", 0, 0) \in Message
    BY <1>p DEF Msg, Message, Id
  <2>2. Fits("data", g, p, 0)
    BY DEF Fits
  <2>3. Messages /\ Queues
    BY <1>p
  <2> QED BY ONLY g \in Gnb, p \in Gnb, <1>a0, <2>1, <2>2, <2>3, MessageAdded
<1>s. \A kind, from, to, old, new : from \in Gnb /\ to \in Gnb /\ kind # "data" =>
         (Sent(kind, from, to, old, new)' <=> Sent(kind, from, to, old, new))
  BY <1>m
<1>c. \A h, q :
         /\ St(h, q)' = St(h, q) /\ Peer(h, q)' = Peer(h, q)
         /\ Timer(h, q)' = Timer(h, q) /\ Pend(h, q)' = Pend(h, q)
         /\ \A x, y : Linked(h, q, x, y)' <=> Linked(h, q, x, y)
  BY <1>a, ContextsSame
<1>u. /\ Idle' <=> Idle
      /\ \A h, q :
            /\ UeAt(h, q)' <=> UeAt(h, q)
            /\ On(h, q)' <=> On(h, q)
            /\ Home(h, q)' <=> Home(h, q)
            /\ Leaves(h, q)' <=> Leaves(h, q)
            /\ Released(h, q)' <=> Released(h, q)
  BY <1>a, UeSame
<1>t. /\ \A h \in Gnb : last[h] \in Nat /\ teid[h] \in Nat /\ imsiRnti[h] \in Nat
  BY <1>p DEF TypeOK
<1>n. \A h, q :
         /\ ~Released(h, q) /\ ~Released(h, q)' /\ ~Leaves(h, q) /\ ~Leaves(h, q)'
  BY <1>a DEF Released, Leaves
<1>TypeOK. TypeOK'
  BY <1>p, <1>a DEF TypeOK
<1>Messages. Messages'
  BY <1>p, <1>a, <1>m, <1>u DEF Messages
<1>Queues. Queues'
  BY <1>m
<1>Contexts. Contexts'
  BY <1>p, <1>a, <1>c, <1>s, <1>u, <1>n DEF Contexts, ContextFits, Attached, SettingUp
<1>Leavings. Leavings'
  BY <1>p, <1>a, <1>c, <1>s, <1>u, <1>n DEF Leavings, LeavingTo, Pending, Switched
<1>OneSource. OneSource'
  <2> SUFFICES ASSUME NEW h \in Gnb, NEW q \in Rnti
               PROVE  NothingNew(h, q)
    BY <1>p, OneSourceStays
  <2> QED BY <1>p, <1>a, <1>c, <1>s, <1>u, <1>n DEF NothingNew, Source, Target
<1>Requests. Requests'
  BY <1>p, <1>a, <1>c, <1>s, <1>u, <1>n DEF Requests, RequestMeets, NoTarget
<1>Acks. Acks'
  BY <1>p, <1>a, <1>c, <1>s, <1>u, <1>n DEF Acks, AckMeets
<1>Failures. Failures'
  BY <1>p, <1>a, <1>c, <1>s, <1>u, <1>n DEF Failures, FailureMeets, NoTarget
<1>Releases. Releases'
  BY <1>p, <1>a, <1>c, <1>s, <1>u, <1>n DEF Releases, ReleaseMeets
<1>Cancels. Cancels'
  BY <1>p, <1>a, <1>c, <1>s, <1>u, <1>n DEF Cancels, CancelMeets
<1>Joinings. Joinings'
  BY <1>p, <1>a, <1>c, <1>s, <1>u, <1>n DEF Joinings, JoiningFrom
<1>Switchings. Switchings'
  BY <1>p, <1>a, <1>c, <1>s, <1>u, <1>n DEF Switchings, SwitchingFrom, Switched
<1>Answers. Answers'
  BY <1>p, <1>a, <1>c, <1>s, <1>u, <1>n DEF Answers
<1>UeIdle. UeIdle'
  BY <1>p, <1>a, <1>c, <1>s, <1>u, <1>n DEF UeIdle
<1>UeConnecting. UeConnecting'
  BY <1>p, <1>a, <1>c, <1>s, <1>u, <1>n DEF UeConnecting, SettingUp
<1>UeMoving. UeMoving'
  BY <1>p, <1>a, <1>c, <1>s, <1>u, <1>n DEF UeMoving, Away
<1>UeConnected. UeConnected'
  BY <1>p, <1>a, <1>c, <1>s, <1>u, <1>n DEF UeConnected, Away
<1> QED BY <1>p, <1>a, <1>TypeOK, <1>Messages, <1>Queues, <1>Contexts, <1>Leavings, <1>OneSource,
           <1>Requests, <1>Acks, <1>Failures, <1>Releases, <1>Cancels, <1>Joinings, <1>Switchings,
           <1>Answers, <1>UeIdle, <1>UeConnecting, <1>UeMoving, <1>UeConnected DEF IInv, Good

\* A UE that has left does not hear its release, and the invariant stays.
LEMMA ReleaseUnheard ==
    ASSUME Here, UeRecvRelease, ue.left
    PROVE  IInv'
<1>p. /\ TypeOK /\ Messages /\ Queues /\ Contexts /\ Leavings /\ OneSource
      /\ Requests /\ Acks /\ Failures /\ Releases /\ Cancels
      /\ Joinings /\ Switchings /\ Answers
      /\ UeIdle /\ UeConnecting /\ UeMoving /\ UeConnected
      /\ fault = "none" /\ MaxRnti \in Nat /\ NoCell \notin Gnb
      /\ \A q \in Rnti : q \in Nat /\ q \in Id /\ q # 0
  BY HandoverAssumption DEF Here, Good, Rnti, Id
<1>d0. PICK g \in Gnb, w \in Id : Released(g, w)
  <2>1. now # <<>> /\ Head(now).kind = "release"
    BY DEF UeRecvRelease
  <2>2. \A h, q : ~Leaves(h, q)
    BY <2>1, Single DEF Leaves
  <2> QED BY <2>1, <2>2, <1>p DEF Messages
<1>d. /\ now = <<[kind |-> "release", cell |-> g, rnti |-> w]>>
      /\ Idle
  BY <1>d0, <1>p DEF UeIdle, Released, On
<1>a. /\ now' = <<>> /\ ue' = ue /\ dl' = dl /\ ul' = ul
      /\ UNCHANGED <<ctx, last, teid, imsiRnti, x2, s1, leavingLast, fault>>
  BY <1>d, Single DEF UeRecvRelease, ueVars, gnbVars, Here
<1>c. \A h, q :
         /\ St(h, q)' = St(h, q) /\ Peer(h, q)' = Peer(h, q)
         /\ Timer(h, q)' = Timer(h, q) /\ Pend(h, q)' = Pend(h, q)
         /\ \A x, y : Linked(h, q, x, y)' <=> Linked(h, q, x, y)
  BY <1>a, ContextsSame
<1>s. \A kind, from, to, old, new : Sent(kind, from, to, old, new)'
              <=> Sent(kind, from, to, old, new)
  BY <1>a, LinksSame
<1>t. /\ \A h \in Gnb : last[h] \in Nat /\ teid[h] \in Nat /\ imsiRnti[h] \in Nat
  BY <1>p DEF TypeOK
<1>n. \A h, q :
         /\ ~Leaves(h, q) /\ ~Leaves(h, q)' /\ ~Released(h, q)'
  BY <1>a, <1>d, Single DEF Leaves, Released
<1>u. /\ Idle' /\ Idle
      /\ \A h, q : ~UeAt(h, q) /\ ~UeAt(h, q)' /\ ~On(h, q) /\ ~On(h, q)' /\ ~Home(h, q)
           /\ ~Home(h, q)'
  BY <1>a, <1>d, <1>n DEF Idle, UeAt, On, Home
<1>TypeOK. TypeOK'
  BY <1>p, <1>a DEF TypeOK
<1>Messages. Messages'
  BY <1>p, <1>a DEF Messages
<1>Queues. Queues'
  BY <1>p, <1>a, <1>c, <1>s, <1>n, <1>u DEF Queues
<1>Contexts. Contexts'
  BY <1>p, <1>a, <1>c, <1>s, <1>n, <1>u DEF Contexts, ContextFits, Attached, SettingUp
<1>Leavings. Leavings'
  BY <1>p, <1>a, <1>c, <1>s, <1>n, <1>u DEF Leavings, LeavingTo, Pending, Switched
<1>OneSource. OneSource'
  <2> SUFFICES ASSUME NEW h \in Gnb, NEW q \in Rnti
               PROVE  NothingNew(h, q)
    BY <1>p, OneSourceStays
  <2> QED BY <1>p, <1>a, <1>c, <1>s, <1>n, <1>u DEF NothingNew, Source, Target
<1>Requests. Requests'
  BY <1>p, <1>a, <1>c, <1>s, <1>n, <1>u DEF Requests, RequestMeets, NoTarget
<1>Acks. Acks'
  BY <1>p, <1>a, <1>c, <1>s, <1>n, <1>u DEF Acks, AckMeets
<1>Failures. Failures'
  BY <1>p, <1>a, <1>c, <1>s, <1>n, <1>u DEF Failures, FailureMeets, NoTarget
<1>Releases. Releases'
  BY <1>p, <1>a, <1>c, <1>s, <1>n, <1>u DEF Releases, ReleaseMeets
<1>Cancels. Cancels'
  BY <1>p, <1>a, <1>c, <1>s, <1>n, <1>u DEF Cancels, CancelMeets
<1>Joinings. Joinings'
  BY <1>p, <1>a, <1>c, <1>s, <1>n, <1>u DEF Joinings, JoiningFrom
<1>Switchings. Switchings'
  BY <1>p, <1>a, <1>c, <1>s, <1>n, <1>u DEF Switchings, SwitchingFrom, Switched
<1>Answers. Answers'
  BY <1>p, <1>a, <1>c, <1>s, <1>n, <1>u DEF Answers
<1>UeIdle. UeIdle'
  BY <1>p, <1>a, <1>n, <1>u DEF UeIdle, Idle
<1>UeConnecting. UeConnecting'
  BY <1>u DEF UeConnecting, Idle
<1>UeMoving. UeMoving'
  BY <1>u DEF UeMoving, Idle
<1>UeConnected. UeConnected'
  BY <1>u DEF UeConnected, Idle
<1> QED BY <1>p, <1>a, <1>TypeOK, <1>Messages, <1>Queues, <1>Contexts, <1>Leavings, <1>OneSource,
           <1>Requests, <1>Acks, <1>Failures, <1>Releases, <1>Cancels, <1>Joinings, <1>Switchings,
           <1>Answers, <1>UeIdle, <1>UeConnecting, <1>UeMoving, <1>UeConnected DEF IInv, Good

\* The UE asks for the removal of a context that is gone, and the invariant stays.
LEMMA RemovalIgnored ==
    ASSUME Here, RecvRemoveRequest, NEW g \in Gnb, NEW w \in Id, g = Head(now).cell,
           w = Head(now).rnti, ~Exists(g, w)
    PROVE  IInv'
<1>p. /\ TypeOK /\ Messages /\ Queues /\ Contexts /\ Leavings /\ OneSource
      /\ Requests /\ Acks /\ Failures /\ Releases /\ Cancels
      /\ Joinings /\ Switchings /\ Answers
      /\ UeIdle /\ UeConnecting /\ UeMoving /\ UeConnected
      /\ fault = "none" /\ MaxRnti \in Nat /\ NoCell \notin Gnb
      /\ \A q \in Rnti : q \in Nat /\ q \in Id /\ q # 0
  BY HandoverAssumption DEF Here, Good, Rnti, Id
<1>d0. Leaves(g, w)
  <2>1. now # <<>> /\ Head(now).kind = "remove"
    BY Zenon DEF RecvRemoveRequest
  <2>2. PICK h \in Gnb, q \in Id : Released(h, q) \/ Leaves(h, q)
    BY <2>1, <1>p DEF Messages
  <2>3. ~Released(h, q)
    BY <2>1, Single DEF Released
  <2>4. now = <<[kind |-> "remove", cell |-> h, rnti |-> q]>>
    BY <2>2, <2>3 DEF Leaves
  <2>5. Head(now).cell = h /\ Head(now).rnti = q
    BY <2>4, Single
  <2> QED BY <2>5, <2>2, <2>3
<1>d. /\ now = <<[kind |-> "remove", cell |-> g, rnti |-> w]>>
      /\ Idle
  BY <1>d0, <1>p DEF UeIdle, Leaves
<1>a. /\ now' = <<>> /\ ue' = ue /\ dl' = dl /\ ul' = ul
      /\ UNCHANGED <<ctx, last, teid, imsiRnti, x2, s1, leavingLast, fault>>
  <2>1. Head(now).cell = g /\ Head(now).rnti = w /\ now' = Tail(now)
                /\ UNCHANGED <<gnbVars, x2, ueVars, s1, fault>>
    BY Zenon DEF RecvRemoveRequest
  <2> QED BY <1>d, <2>1, Single DEF ueVars, gnbVars, Here
<1>x. w \in Rnti => St(g, w) = "NONE"
  BY DEF Exists, St
<1>c. \A h, q :
         /\ St(h, q)' = St(h, q) /\ Peer(h, q)' = Peer(h, q)
         /\ Timer(h, q)' = Timer(h, q) /\ Pend(h, q)' = Pend(h, q)
         /\ \A x, y : Linked(h, q, x, y)' <=> Linked(h, q, x, y)
  BY <1>a, ContextsSame
<1>s. \A kind, from, to, old, new : Sent(kind, from, to, old, new)'
              <=> Sent(kind, from, to, old, new)
  BY <1>a, LinksSame
<1>t. /\ \A h \in Gnb : last[h] \in Nat /\ teid[h] \in Nat /\ imsiRnti[h] \in Nat
  BY <1>p DEF TypeOK
<1>n. \A h, q :
         /\ ~Released(h, q) /\ ~Released(h, q)' /\ ~Leaves(h, q)'
         /\ Leaves(h, q) <=> h = g /\ q = w
  BY <1>a, <1>d, Single DEF Leaves, Released
<1>u. /\ Idle' /\ Idle
      /\ \A h, q :
            /\ ~UeAt(h, q) /\ ~UeAt(h, q)' /\ ~On(h, q) /\ ~On(h, q)'
            /\ ~Home(h, q)' /\ (Home(h, q) <=> h = g /\ q = w)
  BY <1>a, <1>d, <1>n DEF Idle, UeAt, On, Home
<1>TypeOK. TypeOK'
  BY <1>p, <1>a DEF TypeOK
<1>Messages. Messages'
  BY <1>p, <1>a DEF Messages
<1>Queues. Queues'
  BY <1>p, <1>a, <1>c, <1>s, <1>n, <1>u, <1>x DEF Queues
<1>Contexts. Contexts'
  BY <1>p, <1>a, <1>c, <1>s, <1>n, <1>u, <1>x,  <1>x DEF Contexts, ContextFits, Attached, SettingUp
<1>Leavings. Leavings'
  BY <1>p, <1>a, <1>c, <1>s, <1>n, <1>u, <1>x DEF Leavings, LeavingTo, Pending, Switched
<1>OneSource. OneSource'
  <2> SUFFICES ASSUME NEW h \in Gnb, NEW q \in Rnti
               PROVE  NothingNew(h, q)
    BY <1>p, OneSourceStays
  <2> QED BY <1>p, <1>a, <1>c, <1>s, <1>n, <1>u, <1>x DEF NothingNew, Source, Target
<1>Requests. Requests'
  BY <1>p, <1>a, <1>c, <1>s, <1>n, <1>u, <1>x DEF Requests, RequestMeets, NoTarget
<1>Acks. Acks'
  BY <1>p, <1>a, <1>c, <1>s, <1>n, <1>u, <1>x DEF Acks, AckMeets
<1>Failures. Failures'
  BY <1>p, <1>a, <1>c, <1>s, <1>n, <1>u, <1>x DEF Failures, FailureMeets, NoTarget
<1>Releases. Releases'
  BY <1>p, <1>a, <1>c, <1>s, <1>n, <1>u, <1>x DEF Releases, ReleaseMeets
<1>Cancels. Cancels'
  BY <1>p, <1>a, <1>c, <1>s, <1>n, <1>u, <1>x DEF Cancels, CancelMeets
<1>Joinings. Joinings'
  BY <1>p, <1>a, <1>c, <1>s, <1>n, <1>u, <1>x DEF Joinings, JoiningFrom
<1>Switchings. Switchings'
  BY <1>p, <1>a, <1>c, <1>s, <1>n, <1>u, <1>x DEF Switchings, SwitchingFrom, Switched
<1>Answers. Answers'
  BY <1>p, <1>a, <1>c, <1>s, <1>n, <1>u, <1>x DEF Answers
<1>UeIdle. UeIdle'
  BY <1>p, <1>a, <1>n, <1>u DEF UeIdle, Idle
<1>UeConnecting. UeConnecting'
  BY <1>u DEF UeConnecting, Idle
<1>UeMoving. UeMoving'
  BY <1>u DEF UeMoving, Idle
<1>UeConnected. UeConnected'
  BY <1>u DEF UeConnected, Idle
<1> QED BY <1>p, <1>a, <1>TypeOK, <1>Messages, <1>Queues, <1>Contexts, <1>Leavings, <1>OneSource,
           <1>Requests, <1>Acks, <1>Failures, <1>Releases, <1>Cancels, <1>Joinings, <1>Switchings,
           <1>Answers, <1>UeIdle, <1>UeConnecting, <1>UeMoving, <1>UeConnected DEF IInv, Good

\* The UE asks for the removal of a context that waits for nobody, and the
\* invariant stays.
LEMMA ContextDeleted ==
    ASSUME Here, RecvRemoveRequest, NEW g \in Gnb, NEW w \in Rnti, g = Head(now).cell,
           w = Head(now).rnti, St(g, w) \notin {"NONE", "HANDOVER_JOINING"}
    PROVE  IInv'
<1>p. /\ TypeOK /\ Messages /\ Queues /\ Contexts /\ Leavings /\ OneSource
      /\ Requests /\ Acks /\ Failures /\ Releases /\ Cancels
      /\ Joinings /\ Switchings /\ Answers
      /\ UeIdle /\ UeConnecting /\ UeMoving /\ UeConnected
      /\ fault = "none" /\ MaxRnti \in Nat /\ NoCell \notin Gnb
      /\ \A q \in Rnti : q \in Nat /\ q \in Id /\ q # 0
  BY HandoverAssumption DEF Here, Good, Rnti, Id
<1>d0. Leaves(g, w)
  <2>1. now # <<>> /\ Head(now).kind = "remove"
    BY Zenon DEF RecvRemoveRequest
  <2>2. PICK h \in Gnb, q \in Id : Released(h, q) \/ Leaves(h, q)
    BY <2>1, <1>p DEF Messages
  <2>3. ~Released(h, q)
    BY <2>1, Single DEF Released
  <2>4. now = <<[kind |-> "remove", cell |-> h, rnti |-> q]>>
    BY <2>2, <2>3 DEF Leaves
  <2>5. Head(now).cell = h /\ Head(now).rnti = q
    BY <2>4, Single
  <2> QED BY <2>5, <2>2, <2>3
<1>d. /\ now = <<[kind |-> "remove", cell |-> g, rnti |-> w]>>
      /\ Idle
  BY <1>d0, <1>p DEF UeIdle, Leaves
<1>a0. /\ RemoveUe(g, w) /\ x2' = x2
       /\ dl' = dl /\ now' = <<>> /\ ue' = ue /\ ul' = ul /\ s1' = s1
            /\ leavingLast' = leavingLast /\ fault' = fault
  <2>1. Exists(g, w) /\ ctx[g][w].st # "HANDOVER_JOINING"
    BY DEF St, Exists
  <2> QED BY <1>d, <2>1, Single DEF RecvRemoveRequest, Here, ueVars
<1>c0. Removed(g, w)
  BY <1>p, <1>a0, ContextRemoved
<1>c. /\ ctx' \in [Gnb -> [Rnti -> ContextType]]
      /\ \A h \in Gnb, q \in Rnti : Guarded(ctx'[h][q])
      /\ St(g, w)' = "NONE" /\ Timer(g, w)' = "none" /\ ~Pend(g, w)'
      /\ \A h \in Gnb, q \in Rnti : h # g \/ q # w =>
            /\ St(h, q)' = St(h, q) /\ Peer(h, q)' = Peer(h, q)
            /\ Timer(h, q)' = Timer(h, q) /\ Pend(h, q)' = Pend(h, q)
            /\ \A x, y : Linked(h, q, x, y)' <=> Linked(h, q, x, y)
  BY <1>c0 DEF Removed, OthersStay
<1>tz. /\ \A h \in Gnb : /\ teid'[h] \in Nat /\ (teid[h] = 0 => teid'[h] = 0) /\ teid'[h] <= last[h]
                           /\ \A q \in Rnti : teid'[h] = q => teid[h] = q /\ (h # g \/ q # w)
  <2>1. \A h \in Gnb : last[h] \in Nat /\ teid[h] \in Nat /\ teid[h] <= last[h] /\ teid'[h] \in Nat
    BY <1>p, <1>c0 DEF TypeOK, Contexts, Removed
  <2>2. \A h \in Gnb : \/ teid'[h] = teid[h] /\ ~(h = g /\ teid[h] = w)
                       \/ h = g /\ teid[h] = w /\ teid'[h] = 0
    BY <1>c0 DEF Removed
  <2>3. \A h \in Gnb : 0 <= last[h]
    BY <2>1
  <2>4. w # 0 /\ \A q \in Rnti : q # 0
    BY <1>p
  <2> QED BY ONLY <2>1, <2>2, <2>3, <2>4, g \in Gnb, w \in Rnti
<1>a. /\ ue' = ue /\ dl' = dl /\ ul' = ul /\ now' = <<>>
      /\ UNCHANGED <<last, imsiRnti, x2, s1, leavingLast, fault>>
  BY <1>a0, <1>c0 DEF Removed
<1>x. St(g, w) \notin {"NONE", "HANDOVER_JOINING"}
  OBVIOUS
<1>s. \A kind, from, to, old, new : Sent(kind, from, to, old, new)'
              <=> Sent(kind, from, to, old, new)
  BY <1>a, LinksSame
<1>t. /\ \A h \in Gnb : last[h] \in Nat /\ teid[h] \in Nat /\ imsiRnti[h] \in Nat
  BY <1>p DEF TypeOK
<1>n. \A h, q :
         /\ ~Released(h, q) /\ ~Released(h, q)' /\ ~Leaves(h, q)'
         /\ Leaves(h, q) <=> h = g /\ q = w
  BY <1>a, <1>d, Single DEF Leaves, Released
<1>u. /\ Idle' /\ Idle
      /\ \A h, q :
            /\ ~UeAt(h, q) /\ ~UeAt(h, q)' /\ ~On(h, q) /\ ~On(h, q)'
            /\ ~Home(h, q)' /\ (Home(h, q) <=> h = g /\ q = w)
  BY <1>a, <1>d, <1>n DEF Idle, UeAt, On, Home
<1>TypeOK. TypeOK'
  BY <1>p, <1>a, <1>c0 DEF TypeOK, Removed
<1>Messages. Messages'
  BY <1>p, <1>a DEF Messages
<1>Queues. Queues'
  BY <1>p, <1>a, <1>c, <1>s, <1>n, <1>u, <1>x DEF Queues
<1>Contexts. Contexts'
  <2> SUFFICES ASSUME NEW h \in Gnb, NEW q \in Rnti
               PROVE  teid'[h] <= last'[h] /\ imsiRnti'[h] <= last'[h] /\ ContextFits(h, q)'
    BY DEF Contexts
  <2>0. teid'[h] <= last'[h] /\ imsiRnti'[h] <= last'[h]
    BY <1>p, <1>c0, <1>tz DEF Contexts, Removed
  <2>1. CASE h = g /\ q = w
    BY <2>0, <1>tz, <1>c, <2>1 DEF ContextFits, Attached
  <2>2. CASE h # g \/ q # w
    <3>1. teid'[h] = q => teid[h] = q
      BY <1>tz
    <3>2. q <= last[h] => q <= last'[h]
      BY <1>c0 DEF Removed
    <3> QED BY <2>0, <3>1, <3>2, <1>p, <1>c, <1>u, <2>2 DEF Contexts, ContextFits
  <2> QED BY <2>1, <2>2
<1>Leavings. Leavings'
  <2> SUFFICES ASSUME NEW h \in Gnb, NEW q \in Rnti, St(h, q)' = "HANDOVER_LEAVING"
               PROVE  \E x \in Gnb, y \in Rnti : LeavingTo(h, q, x, y)'
    BY DEF Leavings
  <2>1. St(h, q) = "HANDOVER_LEAVING" /\ (h # g \/ q # w)
    BY <1>c
  <2>2. PICK x \in Gnb, y \in Rnti : LeavingTo(h, q, x, y)
    BY <1>p, <2>1 DEF Leavings
  <2>3. Pending(h, q, x, y)'
    <3>1. CASE x = g /\ y = w
      <4>1. CASE St(g, w) = "HANDOVER_PATH_SWITCH"
        BY <3>1, <4>1, <1>p, <1>c, <1>a DEF Switchings, Switched, Pending
      <4>2. CASE St(g, w) # "HANDOVER_PATH_SWITCH"
        <5>1. Sent("failure", g, h, q, 0) \/ Sent("context_release", g, h, q, w)
          BY <2>2, <3>1, <4>2, <1>x DEF LeavingTo, Pending
        <5> QED BY <3>1, <5>1, <1>s DEF Pending
      <4> QED BY <4>1, <4>2
    <3>2. CASE x # g \/ y # w
      BY <2>1, <2>2, <3>2, <1>a, <1>c, <1>s, <1>u DEF LeavingTo, Pending, Switched
    <3> QED BY <3>1, <3>2
  <2>4. St(x, y)' \in {"NONE", "HANDOVER_JOINING"} \/ Home(x, y)'
    BY <2>2, <1>c, <1>u DEF LeavingTo
  <2> QED BY <2>1, <2>2, <2>3, <2>4, <1>a, <1>c, <1>u DEF LeavingTo
<1>OneSource. OneSource'
  <2> SUFFICES ASSUME NEW h \in Gnb, NEW q \in Rnti
               PROVE  NothingNew(h, q)
    BY <1>p, OneSourceStays
  <2> QED BY <1>p, <1>a, <1>c, <1>s, <1>n, <1>u, <1>x DEF NothingNew, Source, Target
<1>Requests. Requests'
  <2> SUFFICES ASSUME NEW a \in Gnb, NEW b \in Gnb, NEW o \in Id, NEW m \in Id,
                      Sent("request", a, b, o, m)'
               PROVE  RequestMeets(a, b, o, m)'
    BY DEF Requests
  <2>1. Sent("request", a, b, o, m) /\ RequestMeets(a, b, o, m)
    BY <1>p, <1>a, <1>c, <1>s, <1>u, <1>t, <1>x, <1>n, <1>tz DEF Requests
  <2>2. a # b /\ o \in Rnti /\ o <= last'[a] /\ m = 0
    BY <2>1, <1>p, <1>a, <1>c, <1>s, <1>u, <1>t, <1>x, <1>n, <1>tz DEF RequestMeets
  <2>3. /\ St(a, o)' \in {"NONE", "HANDOVER_PREPARATION"}
        /\ St(a, o)' # "NONE" => Peer(a, o)' = b
    BY <2>1, <1>p, <1>a, <1>c, <1>s, <1>u, <1>t, <1>x, <1>n, <1>tz DEF RequestMeets
  <2>4. Idle' \/ (On(a, o)' /\ St(a, o)' = "HANDOVER_PREPARATION")
    BY <2>1, <1>p, <1>a, <1>c, <1>s, <1>u, <1>t, <1>x, <1>n, <1>tz DEF RequestMeets
  <2>5. s1' = <<>> /\ (leavingLast' => teid'[b] = 0)
    BY <2>1, <1>p, <1>a, <1>c, <1>s, <1>u, <1>t, <1>x, <1>n, <1>tz DEF RequestMeets
  <2>6. \A x, y \in Gnb, q, z \in Id :
           /\ ~Sent("ack", x, y, q, z)'
           /\ Sent("request", x, y, q, z)' => x = a /\ y = b /\ q = o
           /\ ~Sent("failure", x, a, o, z)'
    <3>1. /\ \A x, y \in Gnb, q, z0 \in Id : ~Sent("ack", x, y, q, z0)
          /\ \A x, y \in Gnb, q, z0 \in Id : Sent("request", x, y, q, z0) => x = a /\ y = b /\ q = o
          /\ \A x \in Gnb, z0 \in Id : ~Sent("failure", x, a, o, z0)
      BY <2>1 DEF RequestMeets
    <3> QED BY <3>1, <1>s
  <2>7. NoTarget(a, o)'
    BY <2>1, <1>c DEF RequestMeets, NoTarget
  <2> QED BY <2>2, <2>3, <2>4, <2>5, <2>6, <2>7 DEF RequestMeets
<1>Acks. Acks'
  <2> SUFFICES ASSUME NEW a \in Gnb, NEW b \in Gnb, NEW o \in Id, NEW m \in Id,
                      Sent("ack", a, b, o, m)'
               PROVE  AckMeets(a, b, o, m)'
    BY DEF Acks
  <2>1. Sent("ack", a, b, o, m) /\ AckMeets(a, b, o, m)
    BY <1>p, <1>a, <1>c, <1>s, <1>u, <1>t, <1>x, <1>n DEF Acks
  <2>2. a # b /\ o \in Rnti /\ o <= last'[b] /\ m \in Rnti /\ m <= last'[a]
    BY <2>1, <1>p, <1>a, <1>c, <1>s, <1>u, <1>t, <1>x, <1>n DEF AckMeets
  <2>3. /\ St(b, o)' \in {"NONE", "HANDOVER_PREPARATION"}
        /\ St(b, o)' # "NONE" => Peer(b, o)' = a
    BY <2>1, <1>p, <1>a, <1>c, <1>s, <1>u, <1>t, <1>x, <1>n DEF AckMeets
  <2>4. Idle' \/ (On(b, o)' /\ St(b, o)' = "HANDOVER_PREPARATION")
    BY <2>1, <1>p, <1>a, <1>c, <1>s, <1>u, <1>t, <1>x, <1>n DEF AckMeets
  <2>5. \/ St(a, m)' = "HANDOVER_JOINING" /\ Linked(a, m, b, o)'
        \/ St(a, m)' = "NONE" /\ Sent("failure", a, b, o, 0)'
    BY <2>1, <1>p, <1>a, <1>c, <1>s, <1>u, <1>t, <1>x, <1>n DEF AckMeets
  <2>6. \A x, y \in Gnb, q, z \in Id :
           Sent("ack", x, y, q, z)' => x = a /\ y = b /\ q = o /\ z = m
    BY <2>1, <1>p, <1>a, <1>c, <1>s, <1>u, <1>t, <1>x, <1>n DEF AckMeets
  <2> QED BY <2>2, <2>3, <2>4, <2>5, <2>6 DEF AckMeets
<1>Failures. Failures'
  <2> SUFFICES ASSUME NEW a \in Gnb, NEW b \in Gnb, NEW o \in Id, NEW m \in Id,
                      Sent("failure", a, b, o, m)'
               PROVE  FailureMeets(a, b, o, m)'
    BY DEF Failures
  <2>1. Sent("failure", a, b, o, m) /\ FailureMeets(a, b, o, m)
    BY <1>p, <1>a, <1>c, <1>s, <1>u, <1>t, <1>x, <1>n DEF Failures
  <2>2. a # b /\ o \in Rnti /\ o <= last'[b] /\ m = 0
    BY <2>1, <1>p, <1>a, <1>c, <1>s, <1>u, <1>t, <1>x, <1>n DEF FailureMeets
  <2>3. /\ St(b, o)' \in {"NONE", "HANDOVER_PREPARATION", "HANDOVER_LEAVING"}
        /\ St(b, o)' # "NONE" => Peer(b, o)' = a
    BY <2>1, <1>p, <1>a, <1>c, <1>s, <1>u, <1>t, <1>x, <1>n DEF FailureMeets
  <2>4. St(b, o)' = "HANDOVER_LEAVING" => \A z \in Rnti : Linked(b, o, a, z)' => St(a, z)' = "NONE"
    BY <2>1, <1>p, <1>a, <1>c, <1>s, <1>u, <1>t, <1>x, <1>n DEF FailureMeets
  <2>5. St(b, o)' = "HANDOVER_LEAVING"
                => \A x \in Gnb, z \in Id : ~Sent("context_release", x, b, o, z)'
    BY <2>1, <1>p, <1>a, <1>c, <1>s, <1>u, <1>t, <1>x, <1>n DEF FailureMeets
  <2>6. NoTarget(b, o)'
    BY <2>1, <1>p, <1>a, <1>c, <1>s, <1>u, <1>t, <1>x, <1>n DEF FailureMeets, NoTarget
  <2> QED BY <2>2, <2>3, <2>4, <2>5, <2>6 DEF FailureMeets
<1>Releases. Releases'
  <2> SUFFICES ASSUME NEW a \in Gnb, NEW b \in Gnb, NEW o \in Id, NEW m \in Id,
                      Sent("context_release", a, b, o, m)'
               PROVE  ReleaseMeets(a, b, o, m)'
    BY DEF Releases
  <2>1. Sent("context_release", a, b, o, m) /\ ReleaseMeets(a, b, o, m)
    BY <1>p, <1>a, <1>c, <1>s, <1>u, <1>t, <1>x, <1>n DEF Releases
  <2>2. a # b /\ o \in Rnti /\ o <= last'[b] /\ m \in Rnti /\ m <= last'[a]
    BY <2>1, <1>p, <1>a, <1>c, <1>s, <1>u, <1>t, <1>x, <1>n DEF ReleaseMeets
  <2>3. /\ St(b, o)' \in {"NONE", "HANDOVER_LEAVING"}
        /\ St(b, o)' # "NONE" => Linked(b, o, a, m)'
    BY <2>1, <1>p, <1>a, <1>c, <1>s, <1>u, <1>t, <1>x, <1>n DEF ReleaseMeets
  <2>4. /\ Idle' \/ On(a, m)'
        /\ \/ St(a, m)' \in {"CONNECTED_NORMALLY", "CONNECTION_RECONFIGURATION"}
           \/ Idle' /\ St(a, m)' = "NONE"
    BY <2>1, <1>p, <1>a, <1>c, <1>s, <1>u, <1>t, <1>x, <1>n DEF ReleaseMeets
  <2> QED BY <2>2, <2>3, <2>4 DEF ReleaseMeets
<1>Cancels. Cancels'
  <2> SUFFICES ASSUME NEW a \in Gnb, NEW b \in Gnb, NEW o \in Id, NEW m \in Id,
                      Sent("cancel", a, b, o, m)'
               PROVE  CancelMeets(a, b, o, m)'
    BY DEF Cancels
  <2>1. Sent("cancel", a, b, o, m) /\ CancelMeets(a, b, o, m)
    BY <1>p, <1>a, <1>c, <1>s, <1>u, <1>t, <1>x, <1>n DEF Cancels
  <2>2. a # b /\ m \in Rnti /\ m <= last'[b] /\ ~leavingLast'
    BY <2>1, <1>p, <1>a, <1>c, <1>s, <1>u, <1>t, <1>x, <1>n DEF CancelMeets
  <2>3. Idle' \/ Released(a, o)'
    BY <2>1, <1>p, <1>a, <1>c, <1>s, <1>u, <1>t, <1>x, <1>n DEF CancelMeets
  <2>4. St(b, m)' \in {"NONE", "HANDOVER_JOINING"} \/ Home(b, m)'
    BY <2>1, <1>p, <1>a, <1>c, <1>s, <1>u, <1>t, <1>x, <1>n DEF CancelMeets
  <2> QED BY <2>2, <2>3, <2>4 DEF CancelMeets
<1>Joinings. Joinings'
  <2> SUFFICES ASSUME NEW h \in Gnb, NEW q \in Rnti, St(h, q)' = "HANDOVER_JOINING"
               PROVE  \E x \in Gnb, y \in Rnti : JoiningFrom(h, q, x, y)'
    BY DEF Joinings
  <2>1. St(h, q) = "HANDOVER_JOINING" /\ (h # g \/ q # w)
    BY <1>c
  <2>2. PICK x \in Gnb, y \in Rnti : JoiningFrom(h, q, x, y)
    BY <1>p, <2>1 DEF Joinings
  <2> QED BY <2>1, <2>2, <1>p, <1>a, <1>c, <1>s, <1>x DEF JoiningFrom
<1>Switchings. Switchings'
  <2> SUFFICES ASSUME NEW h \in Gnb, NEW q \in Rnti, St(h, q)' = "HANDOVER_PATH_SWITCH"
               PROVE  /\ Switched(h)' /\ imsiRnti'[h] = q
                      /\ \E x \in Gnb, y \in Rnti : SwitchingFrom(h, q, x, y)'
    BY DEF Switchings
  <2>1. St(h, q) = "HANDOVER_PATH_SWITCH" /\ (h # g \/ q # w)
    BY <1>c
  <2>2. PICK x \in Gnb, y \in Rnti : SwitchingFrom(h, q, x, y)
    BY <1>p, <2>1 DEF Switchings
  <2>3. Switched(h) /\ imsiRnti[h] = q
    BY <1>p, <2>1 DEF Switchings
  <2>4. SwitchingFrom(h, q, x, y)'
    BY <2>1, <2>2, <1>p, <1>a, <1>c, <1>x DEF SwitchingFrom
  <2> QED BY <2>3, <2>4, <1>p, <1>a DEF Switched
<1>Answers. Answers'
  BY <1>p, <1>a, <1>c, <1>s, <1>n, <1>u, <1>x DEF Answers
<1>UeIdle. UeIdle'
  BY <1>p, <1>a, <1>n, <1>u DEF UeIdle, Idle
<1>UeConnecting. UeConnecting'
  BY <1>u DEF UeConnecting, Idle
<1>UeMoving. UeMoving'
  BY <1>u DEF UeMoving, Idle
<1>UeConnected. UeConnected'
  BY <1>u DEF UeConnected, Idle
<1> QED BY <1>p, <1>a, <1>TypeOK, <1>Messages, <1>Queues, <1>Contexts, <1>Leavings, <1>OneSource,
           <1>Requests, <1>Acks, <1>Failures, <1>Releases, <1>Cancels, <1>Joinings, <1>Switchings,
           <1>Answers, <1>UeIdle, <1>UeConnecting, <1>UeMoving, <1>UeConnected DEF IInv, Good

\* The UE asks for the removal of the context that waits for it, and the
\* invariant stays.
LEMMA JoiningDeleted ==
    ASSUME Here, RecvRemoveRequest, NEW g \in Gnb, NEW w \in Rnti, g = Head(now).cell,
           w = Head(now).rnti, St(g, w) = "HANDOVER_JOINING"
    PROVE  IInv'
<1>p. /\ TypeOK /\ Messages /\ Queues /\ Contexts /\ Leavings /\ OneSource
      /\ Requests /\ Acks /\ Failures /\ Releases /\ Cancels
      /\ Joinings /\ Switchings /\ Answers
      /\ UeIdle /\ UeConnecting /\ UeMoving /\ UeConnected
      /\ fault = "none" /\ MaxRnti \in Nat /\ NoCell \notin Gnb
      /\ \A q \in Rnti : q \in Nat /\ q \in Id /\ q # 0
  BY HandoverAssumption DEF Here, Good, Rnti, Id
<1>d0. Leaves(g, w)
  <2>1. now # <<>> /\ Head(now).kind = "remove"
    BY Zenon DEF RecvRemoveRequest
  <2>2. PICK h \in Gnb, q \in Id : Released(h, q) \/ Leaves(h, q)
    BY <2>1, <1>p DEF Messages
  <2>3. ~Released(h, q)
    BY <2>1, Single DEF Released
  <2>4. now = <<[kind |-> "remove", cell |-> h, rnti |-> q]>>
    BY <2>2, <2>3 DEF Leaves
  <2>5. Head(now).cell = h /\ Head(now).rnti = q
    BY <2>4, Single
  <2> QED BY <2>5, <2>2, <2>3
<1>d. /\ now = <<[kind |-> "remove", cell |-> g, rnti |-> w]>>
      /\ Idle
  BY <1>d0, <1>p DEF UeIdle, Leaves
<1>g0. PICK s \in Gnb, r \in Rnti : JoiningFrom(g, w, s, r)
  BY <1>p DEF Joinings
<1>g. /\ Linked(g, w, s, r) /\ s # g /\ r <= last[s]
      /\ St(s, r) \in {"NONE", "HANDOVER_PREPARATION", "HANDOVER_LEAVING"}
      /\ St(s, r) = "HANDOVER_PREPARATION" => Sent("ack", g, s, r, w)
      /\ St(s, r) = "HANDOVER_LEAVING" => Linked(s, r, g, w)
  BY <1>g0 DEF JoiningFrom
<1>a0. /\ RemoveUe(g, w) /\ Adds(g, s, Msg("failure", r, 0))
       /\ dl' = dl /\ now' = <<>> /\ ue' = ue /\ ul' = ul /\ s1' = s1
            /\ leavingLast' = leavingLast /\ fault' = fault
  <2>1. Exists(g, w) /\ ctx[g][w].st = "HANDOVER_JOINING" /\ ctx[g][w].peer = s
                /\ ctx[g][w].peerId = r
    BY <1>g DEF St, Linked, Exists
  <2>2. now' = Tail(now) /\ UNCHANGED <<ueVars, s1, fault>>
    BY Zenon DEF RecvRemoveRequest
  <2>3. now' = <<>> /\ UNCHANGED <<ueVars, s1, leavingLast, fault>>
    BY <1>d, <2>2, Single DEF Here
  <2>4. RemoveUe(g, w)
    BY <2>1, Zenon DEF RecvRemoveRequest
  <2>5. x2' = [x2 EXCEPT ![g][s] = Append(@, Msg("failure", r, 0))]
    BY <2>1 DEF RecvRemoveRequest
  <2> QED BY <2>3, <2>4, <2>5 DEF Adds, ueVars
<1>c0. Removed(g, w)
  BY <1>p, <1>a0, ContextRemoved
<1>c. /\ ctx' \in [Gnb -> [Rnti -> ContextType]]
      /\ \A h \in Gnb, q \in Rnti : Guarded(ctx'[h][q])
      /\ St(g, w)' = "NONE" /\ Timer(g, w)' = "none" /\ ~Pend(g, w)'
      /\ \A h \in Gnb, q \in Rnti : h # g \/ q # w =>
            /\ St(h, q)' = St(h, q) /\ Peer(h, q)' = Peer(h, q)
            /\ Timer(h, q)' = Timer(h, q) /\ Pend(h, q)' = Pend(h, q)
            /\ \A x, y : Linked(h, q, x, y)' <=> Linked(h, q, x, y)
  BY <1>c0 DEF Removed, OthersStay
<1>tz. /\ \A h \in Gnb : /\ teid'[h] \in Nat /\ (teid[h] = 0 => teid'[h] = 0) /\ teid'[h] <= last[h]
                           /\ \A q \in Rnti : teid'[h] = q => teid[h] = q /\ (h # g \/ q # w)
  <2>1. \A h \in Gnb : last[h] \in Nat /\ teid[h] \in Nat /\ teid[h] <= last[h] /\ teid'[h] \in Nat
    BY <1>p, <1>c0 DEF TypeOK, Contexts, Removed
  <2>2. \A h \in Gnb : \/ teid'[h] = teid[h] /\ ~(h = g /\ teid[h] = w)
                       \/ h = g /\ teid[h] = w /\ teid'[h] = 0
    BY <1>c0 DEF Removed
  <2>3. \A h \in Gnb : 0 <= last[h]
    BY <2>1
  <2>4. w # 0 /\ \A q \in Rnti : q # 0
    BY <1>p
  <2> QED BY ONLY <2>1, <2>2, <2>3, <2>4, g \in Gnb, w \in Rnti
<1>a. /\ ue' = ue /\ dl' = dl /\ ul' = ul /\ now' = <<>>
      /\ St(g, w) = "HANDOVER_JOINING"
      /\ UNCHANGED <<last, imsiRnti, s1, leavingLast, fault>>
  BY <1>a0, <1>c0 DEF Removed
<1>z. \A a, b \in Gnb, o, m \in Id :
         /\ Sent("request", a, b, o, m) => a # s \/ o # r
         /\ Sent("failure", a, b, o, m) => b # s \/ o # r
         /\ St(s, r) = "HANDOVER_LEAVING" => (Sent("context_release", a, b, o, m) => b # s \/ o # r)
  <2> SUFFICES ASSUME NEW a \in Gnb, NEW b \in Gnb, NEW o \in Id, NEW m \in Id
               PROVE  /\ Sent("request", a, b, o, m) => a # s \/ o # r
                      /\ Sent("failure", a, b, o, m) => b # s \/ o # r
                      /\ St(s, r) = "HANDOVER_LEAVING" => (Sent("context_release", a, b, o, m)
                           => b # s \/ o # r)
    OBVIOUS
  <2>0. ~NoTarget(s, r)
    BY <1>g DEF NoTarget
  <2>1. Sent("request", a, b, o, m) => a # s \/ o # r
    BY <1>p, <2>0 DEF Requests, RequestMeets
  <2>2. Sent("failure", a, b, o, m) => b # s \/ o # r
    BY <1>p, <2>0 DEF Failures, FailureMeets
  <2>3. ASSUME St(s, r) = "HANDOVER_LEAVING", Sent("context_release", a, s, r, m) PROVE FALSE
    <3>1. ReleaseMeets(a, s, r, m)
      BY <2>3, <1>p DEF Releases
    <3>2. Linked(s, r, a, m)
      BY <3>1, <2>3 DEF ReleaseMeets
    <3>3. a = g /\ m = w
      BY <3>2, <2>3, <1>g, LinkedOnce
    <3> QED BY <3>1, <3>3 DEF ReleaseMeets
  <2> QED BY <2>1, <2>2, <2>3
<1>m. /\ x2' \in [Gnb -> [Gnb -> Seq(Message)]] /\ Queues'
      /\ \A kind, from, to, old, new : from \in Gnb /\ to \in Gnb =>
            (Sent(kind, from, to, old, new)' <=>
                 \/ Sent(kind, from, to, old, new)
                 \/ kind = "failure" /\ from = g /\ to = s /\ old = r /\ new = 0)
  <2>1. Msg("failure", r, 0) \in Message
    BY <1>p DEF Msg, Message, Id
  <2>2. Fits("failure", g, s, r)
    BY <1>z, <1>p DEF Fits
  <2>3. Messages /\ Queues
    BY <1>p
  <2> QED BY ONLY g \in Gnb, s \in Gnb, <1>a0, <2>1, <2>2, <2>3, MessageAdded
<1>s. \A kind, from, to, old, new : from \in Gnb /\ to \in Gnb /\ kind # "failure" =>
         (Sent(kind, from, to, old, new)' <=> Sent(kind, from, to, old, new))
  BY <1>m
<1>t. /\ \A h \in Gnb : last[h] \in Nat /\ teid[h] \in Nat /\ imsiRnti[h] \in Nat
  BY <1>p DEF TypeOK
<1>n. \A h, q :
         /\ ~Released(h, q) /\ ~Released(h, q)' /\ ~Leaves(h, q)'
         /\ Leaves(h, q) <=> h = g /\ q = w
  BY <1>a, <1>d, Single DEF Leaves, Released
<1>u. /\ Idle' /\ Idle
      /\ \A h, q :
            /\ ~UeAt(h, q) /\ ~UeAt(h, q)' /\ ~On(h, q) /\ ~On(h, q)'
            /\ ~Home(h, q)' /\ (Home(h, q) <=> h = g /\ q = w)
  BY <1>a, <1>d, <1>n DEF Idle, UeAt, On, Home
<1>x. St(g, w) = "HANDOVER_JOINING"
  BY <1>a
<1>v. /\ Sent("failure", g, s, r, 0)' /\ \A x, y : Linked(g, w, x, y) => x = s /\ y = r
      /\ \A from, to \in Gnb, old, new \in Id : Sent("failure", from, to, old, new)
           => Sent("failure", from, to, old, new)'
  BY <1>m, <1>g, LinkedOnce
<1>TypeOK. TypeOK'
  BY <1>p, <1>a, <1>c0 DEF TypeOK, Removed
<1>Messages. Messages'
  BY <1>p, <1>a, <1>m, <1>u DEF Messages
<1>Queues. Queues'
  BY <1>m
<1>Contexts. Contexts'
  <2> SUFFICES ASSUME NEW h \in Gnb, NEW q \in Rnti
               PROVE  teid'[h] <= last'[h] /\ imsiRnti'[h] <= last'[h] /\ ContextFits(h, q)'
    BY DEF Contexts
  <2>0. teid'[h] <= last'[h] /\ imsiRnti'[h] <= last'[h]
    BY <1>p, <1>c0, <1>tz DEF Contexts, Removed
  <2>1. CASE h = g /\ q = w
    BY <2>0, <1>tz, <1>c, <2>1 DEF ContextFits, Attached
  <2>2. CASE h # g \/ q # w
    <3>1. teid'[h] = q => teid[h] = q
      BY <1>tz
    <3>2. q <= last[h] => q <= last'[h]
      BY <1>c0 DEF Removed
    <3> QED BY <2>0, <3>1, <3>2, <1>p, <1>c, <1>u, <2>2 DEF Contexts, ContextFits
  <2> QED BY <2>1, <2>2
<1>Leavings. Leavings'
  <2> SUFFICES ASSUME NEW h \in Gnb, NEW q \in Rnti, St(h, q)' = "HANDOVER_LEAVING"
               PROVE  \E x \in Gnb, y \in Rnti : LeavingTo(h, q, x, y)'
    BY DEF Leavings
  <2>1. St(h, q) = "HANDOVER_LEAVING" /\ (h # g \/ q # w)
    BY <1>c
  <2>2. PICK x \in Gnb, y \in Rnti : LeavingTo(h, q, x, y)
    BY <1>p, <2>1 DEF Leavings
  <2>3. Pending(h, q, x, y)'
    <3>1. CASE x = g /\ y = w
      <4>1. Linked(g, w, h, q) \/ Sent("failure", g, h, q, 0) \/ Sent("context_release", g, h, q, w)
        BY <2>2, <3>1, <1>x DEF LeavingTo, Pending
      <4>2. Linked(g, w, h, q) => Sent("failure", g, h, q, 0)'
        BY <1>g, <1>m, LinkedOnce
      <4>3. Sent("failure", g, h, q, 0)' \/ Sent("context_release", g, h, q, w)'
        BY <4>1, <4>2, <1>m
      <4> QED BY <3>1, <4>3 DEF Pending
    <3>2. CASE x # g \/ y # w
      BY <2>2, <3>2, <1>p, <1>a, <1>c, <1>m, <1>u DEF LeavingTo, Pending, Switched
    <3> QED BY <3>1, <3>2
  <2>4. St(x, y)' \in {"NONE", "HANDOVER_JOINING"} \/ Home(x, y)'
    BY <2>2, <1>p, <1>a, <1>c, <1>u, <1>x DEF LeavingTo
  <2>5. \/ Idle'
        \/ On(h, q)'
        \/ ue'.from = <<h, q>> /\ ue'.cell = x /\ ~ue'.left /\ (ue'.rnti = y \/ St(x, y)' = "NONE")
    BY <2>2, <1>p, <1>a, <1>c, <1>u, <1>x DEF LeavingTo
  <2> QED BY <2>1, <2>2, <2>3, <2>4, <2>5, <1>a, <1>c DEF LeavingTo
<1>OneSource. OneSource'
  <2> SUFFICES ASSUME NEW h \in Gnb, NEW q \in Rnti
               PROVE  NothingNew(h, q)
    BY <1>p, OneSourceStays
  <2> QED BY <1>p, <1>a, <1>c, <1>s, <1>u, <1>t, <1>x, <1>n DEF NothingNew, Source, Target
<1>Requests. Requests'
  <2> SUFFICES ASSUME NEW a \in Gnb, NEW b \in Gnb, NEW o \in Id, NEW m \in Id,
                      Sent("request", a, b, o, m)'
               PROVE  RequestMeets(a, b, o, m)'
    BY DEF Requests
  <2>1. Sent("request", a, b, o, m) /\ RequestMeets(a, b, o, m)
    BY <1>p, <1>a, <1>c, <1>s, <1>u, <1>t, <1>x, <1>n, <1>tz DEF Requests
  <2>2. a # b /\ o \in Rnti /\ o <= last'[a] /\ m = 0
    BY <2>1, <1>p, <1>a, <1>c, <1>s, <1>u, <1>t, <1>x, <1>n, <1>tz DEF RequestMeets
  <2>3. /\ St(a, o)' \in {"NONE", "HANDOVER_PREPARATION"}
        /\ St(a, o)' # "NONE" => Peer(a, o)' = b
    BY <2>1, <1>p, <1>a, <1>c, <1>s, <1>u, <1>t, <1>x, <1>n, <1>tz DEF RequestMeets
  <2>4. Idle' \/ (On(a, o)' /\ St(a, o)' = "HANDOVER_PREPARATION")
    BY <2>1, <1>p, <1>a, <1>c, <1>s, <1>u, <1>t, <1>x, <1>n, <1>tz DEF RequestMeets
  <2>5. s1' = <<>> /\ (leavingLast' => teid'[b] = 0)
    BY <2>1, <1>p, <1>a, <1>c, <1>s, <1>u, <1>t, <1>x, <1>n, <1>tz DEF RequestMeets
  <2>6. \A x, y \in Gnb, q, z \in Id :
           /\ ~Sent("ack", x, y, q, z)'
           /\ Sent("request", x, y, q, z)' => x = a /\ y = b /\ q = o
           /\ ~Sent("failure", x, a, o, z)'
    <3>1. /\ \A x, y \in Gnb, q, z0 \in Id : ~Sent("ack", x, y, q, z0)
          /\ \A x, y \in Gnb, q, z0 \in Id : Sent("request", x, y, q, z0) => x = a /\ y = b /\ q = o
          /\ \A x \in Gnb, z0 \in Id : ~Sent("failure", x, a, o, z0)
      BY <2>1 DEF RequestMeets
    <3>2. \A x \in Gnb, z0 \in Id : ~Sent("failure", x, a, o, z0)'
      BY <3>1, <2>1, <1>m, <1>z
    <3> QED BY <3>1, <3>2, <1>s
  <2>7. NoTarget(a, o)'
    BY <2>1, <1>c DEF RequestMeets, NoTarget
  <2> QED BY <2>2, <2>3, <2>4, <2>5, <2>6, <2>7 DEF RequestMeets
<1>Acks. Acks'
  <2> SUFFICES ASSUME NEW a \in Gnb, NEW b \in Gnb, NEW o \in Id, NEW m \in Id,
                      Sent("ack", a, b, o, m)'
               PROVE  AckMeets(a, b, o, m)'
    BY DEF Acks
  <2>1. Sent("ack", a, b, o, m) /\ AckMeets(a, b, o, m)
    BY <1>p, <1>a, <1>c, <1>s, <1>u, <1>t, <1>x, <1>n DEF Acks
  <2>2. a # b /\ o \in Rnti /\ o <= last'[b] /\ m \in Rnti /\ m <= last'[a]
    BY <2>1, <1>p, <1>a, <1>c, <1>s, <1>u, <1>t, <1>x, <1>n DEF AckMeets
  <2>3. /\ St(b, o)' \in {"NONE", "HANDOVER_PREPARATION"}
        /\ St(b, o)' # "NONE" => Peer(b, o)' = a
    BY <2>1, <1>p, <1>a, <1>c, <1>s, <1>u, <1>t, <1>x, <1>n DEF AckMeets
  <2>4. Idle' \/ (On(b, o)' /\ St(b, o)' = "HANDOVER_PREPARATION")
    BY <2>1, <1>p, <1>a, <1>c, <1>s, <1>u, <1>t, <1>x, <1>n DEF AckMeets
  <2>5. \/ St(a, m)' = "HANDOVER_JOINING" /\ Linked(a, m, b, o)'
        \/ St(a, m)' = "NONE" /\ Sent("failure", a, b, o, 0)'
    <3>1. \/ St(a, m) = "HANDOVER_JOINING" /\ Linked(a, m, b, o)
          \/ St(a, m) = "NONE" /\ Sent("failure", a, b, o, 0)
      BY <2>1 DEF AckMeets
    <3>2. m \in Rnti
      BY <2>1 DEF AckMeets
    <3>3. CASE a = g /\ m = w
      <4>1. b = s /\ o = r
        BY <3>1, <3>3, <1>v, <1>x
      <4> QED BY <3>3, <4>1, <1>v, <1>c
    <3>4. CASE a # g \/ m # w
      <4>1. Sent("failure", a, b, o, 0) => Sent("failure", a, b, o, 0)'
        BY <1>m
      <4> QED BY <3>1, <3>2, <3>4, <4>1, <1>c
    <3> QED BY <3>3, <3>4
  <2>6. \A x, y \in Gnb, q, z \in Id :
           Sent("ack", x, y, q, z)' => x = a /\ y = b /\ q = o /\ z = m
    BY <2>1, <1>p, <1>a, <1>c, <1>s, <1>u, <1>t, <1>x, <1>n DEF AckMeets
  <2> QED BY <2>2, <2>3, <2>4, <2>5, <2>6 DEF AckMeets
<1>Failures. Failures'
  <2> SUFFICES ASSUME NEW a \in Gnb, NEW b \in Gnb, NEW o \in Id, NEW m \in Id,
                      Sent("failure", a, b, o, m)'
               PROVE  FailureMeets(a, b, o, m)'
    BY DEF Failures
  <2>1. CASE a = g /\ b = s /\ o = r /\ m = 0
    <3>1. St(s, r)' = St(s, r) /\ Peer(s, r)' = Peer(s, r) /\ \A x, y : Linked(s, r, x, y)'
                  <=> Linked(s, r, x, y)
      BY <1>c, <1>g
    <3>2. NoTarget(s, r)'
      <4> SUFFICES ASSUME NEW x \in Gnb, NEW y \in Rnti, Target(x, y)', Linked(x, y, s, r)'
                   PROVE  FALSE
        BY DEF NoTarget, Target
      <4>1. (x # g \/ y # w) /\ Target(x, y) /\ Linked(x, y, s, r)
        BY <1>c DEF Target
      <4>2. Target(g, w)
        BY <1>x DEF Target
      <4> QED BY <4>1, <4>2, <1>g, <1>p DEF OneSource, OneTarget
    <3>3. St(s, r) = "HANDOVER_PREPARATION" => Peer(s, r) = g
      BY <1>g, <1>p DEF Acks, AckMeets
    <3>4. St(s, r) = "HANDOVER_LEAVING" => Peer(s, r) = g
      BY <1>g, LinkedOnce
    <3>5. St(s, r) = "HANDOVER_LEAVING" => \A y \in Rnti : Linked(s, r, g, y) => St(g, y)' = "NONE"
      BY <1>g, LinkedOnce, <1>c
    <3>6. St(s, r) = "HANDOVER_LEAVING"
                  => \A x \in Gnb, y \in Id : ~Sent("context_release", x, s, r, y)'
      BY <1>z, <1>s, <1>p
    <3> QED BY <2>1, <3>1, <3>2, <3>3, <3>4, <3>5, <3>6, <1>g, <1>a DEF FailureMeets
  <2>2. CASE ~(a = g /\ b = s /\ o = r /\ m = 0)
    <3>1. Sent("failure", a, b, o, m) /\ FailureMeets(a, b, o, m)
      <4>1. Sent("failure", a, b, o, m)
        BY <2>2, <1>m
      <4> QED BY <4>1, <1>p DEF Failures
    <3>2. NoTarget(b, o)'
      BY <3>1, <1>c DEF FailureMeets, NoTarget
    <3>3. b # g \/ o # w
      BY <3>1, <1>x DEF FailureMeets
    <3> QED BY <3>1, <3>2, <3>3, <1>a, <1>c, <1>s DEF FailureMeets
  <2> QED BY <2>1, <2>2
<1>Releases. Releases'
  BY <1>p, <1>a, <1>c, <1>s, <1>u, <1>t, <1>x, <1>n DEF Releases, ReleaseMeets
<1>Cancels. Cancels'
  BY <1>p, <1>a, <1>c, <1>s, <1>u, <1>t, <1>x, <1>n DEF Cancels, CancelMeets
<1>Joinings. Joinings'
  <2> SUFFICES ASSUME NEW h \in Gnb, NEW q \in Rnti, St(h, q)' = "HANDOVER_JOINING"
               PROVE  \E x \in Gnb, y \in Rnti : JoiningFrom(h, q, x, y)'
    BY DEF Joinings
  <2>1. St(h, q) = "HANDOVER_JOINING" /\ (h # g \/ q # w)
    BY <1>c
  <2>2. PICK x \in Gnb, y \in Rnti : JoiningFrom(h, q, x, y)
    BY <1>p, <2>1 DEF Joinings
  <2> QED BY <2>1, <2>2, <1>p, <1>a, <1>c, <1>s, <1>x DEF JoiningFrom
<1>Switchings. Switchings'
  <2> SUFFICES ASSUME NEW h \in Gnb, NEW q \in Rnti, St(h, q)' = "HANDOVER_PATH_SWITCH"
               PROVE  /\ Switched(h)' /\ imsiRnti'[h] = q
                      /\ \E x \in Gnb, y \in Rnti : SwitchingFrom(h, q, x, y)'
    BY DEF Switchings
  <2>1. St(h, q) = "HANDOVER_PATH_SWITCH" /\ (h # g \/ q # w)
    BY <1>c
  <2>2. PICK x \in Gnb, y \in Rnti : SwitchingFrom(h, q, x, y)
    BY <1>p, <2>1 DEF Switchings
  <2>3. Switched(h) /\ imsiRnti[h] = q
    BY <1>p, <2>1 DEF Switchings
  <2>4. SwitchingFrom(h, q, x, y)'
    BY <2>1, <2>2, <1>p, <1>a, <1>c, <1>x DEF SwitchingFrom
  <2> QED BY <2>3, <2>4, <1>p, <1>a DEF Switched
<1>Answers. Answers'
  BY <1>p, <1>a, <1>c, <1>s, <1>u, <1>t, <1>x, <1>n DEF Answers
<1>UeIdle. UeIdle'
  BY <1>p, <1>a, <1>n, <1>u DEF UeIdle, Idle
<1>UeConnecting. UeConnecting'
  BY <1>u DEF UeConnecting, Idle
<1>UeMoving. UeMoving'
  BY <1>u DEF UeMoving, Idle
<1>UeConnected. UeConnected'
  BY <1>u DEF UeConnected, Idle
<1> QED BY <1>p, <1>a, <1>TypeOK, <1>Messages, <1>Queues, <1>Contexts, <1>Leavings, <1>OneSource,
           <1>Requests, <1>Acks, <1>Failures, <1>Releases, <1>Cancels, <1>Joinings, <1>Switchings,
           <1>Answers, <1>UeIdle, <1>UeConnecting, <1>UeMoving, <1>UeConnected DEF IInv, Good
\* The fields of the invariant that say what a message meets.
LEMMA HereFacts ==
    ASSUME Here
    PROVE  /\ TypeOK /\ Good /\ Messages /\ Contexts /\ Requests /\ Acks /\ Failures /\ Releases
           /\ Cancels /\ Answers /\ UeIdle /\ fault = "none" /\ leavingLast' = leavingLast
           /\ Rnti \subseteq Id
BY HandoverAssumption DEF Here, Good, Rnti, Id

\* The message at the head of a link whose turn it is.
LEMMA HeadOf ==
    ASSUME Here, NEW a \in Gnb, NEW b \in Gnb, NEW k, Arrives(a, b, k)
    PROVE  /\ now = <<>>
           /\ \E o, n \in Id : /\ Head(x2[a][b]).old = o /\ Head(x2[a][b]).new = n
                               /\ Sent(k, a, b, o, n)
BY HereFacts, HeadSent DEF Arrives, Running

\* A request is admitted, or the program stops where the tunnel is taken, and the
\* invariant stays.
LEMMA AdmitHandoverStep ==
    ASSUME Here, NEW s \in Gnb, NEW t \in Gnb, AdmitHandover(s, t)
    PROVE  IInv'
<1>1. CASE teid[t] = 0
  BY <1>1, HandoverAdmitted
<1>2. CASE teid[t] # 0
  <2>1. PICK o \in Id, n \in Id : Sent("request", s, t, o, n)
    BY HeadOf DEF AdmitHandover
  <2>2. ~leavingLast
    BY <1>2, <2>1, HereFacts DEF Requests, RequestMeets
  <2>3. Abort("tunnel")
    BY <1>2 DEF AdmitHandover
  <2> QED BY <2>2, <2>3, Aborts
<1> QED BY <1>1, <1>2

\* An acknowledgement is received, and the invariant stays.
LEMMA RecvHandoverRequestAckStep ==
    ASSUME Here, NEW t \in Gnb, NEW g \in Gnb, RecvHandoverRequestAck(t, g)
    PROVE  IInv'
<1>1. PICK o \in Id, n \in Id : Head(x2[t][g]).old = o /\ Sent("ack", t, g, o, n)
  BY HeadOf DEF RecvHandoverRequestAck
<1>2. o \in Rnti
  BY <1>1, HereFacts DEF Acks, AckMeets
<1>3. CASE St(g, o) = "NONE"
  <2>1. Abort("request_ack")
    BY <1>1, <1>2, <1>3 DEF RecvHandoverRequestAck, Exists, St
  <2> QED BY <2>1, Aborts
<1>4. CASE St(g, o) # "NONE"
  BY <1>1, <1>2, <1>4, HandoverAccepted
<1> QED BY <1>3, <1>4

\* A failure is received, and the invariant stays.
LEMMA RecvHandoverPreparationFailureStep ==
    ASSUME Here, NEW t \in Gnb, NEW g \in Gnb, RecvHandoverPreparationFailure(t, g)
    PROVE  IInv'
<1>1. PICK o \in Id, n \in Id : Head(x2[t][g]).old = o /\ Sent("failure", t, g, o, n)
  BY HeadOf DEF RecvHandoverPreparationFailure
<1>2. o \in Rnti /\ St(g, o) \in {"NONE", "HANDOVER_PREPARATION", "HANDOVER_LEAVING"}
  BY <1>1, HereFacts DEF Failures, FailureMeets
<1>3. CASE St(g, o) = "NONE"
  <2>1. ~Exists(g, o)
    BY <1>3 DEF Exists, St
  <2> QED BY <2>1, <1>1, FailureIgnored
<1>4. CASE St(g, o) = "HANDOVER_PREPARATION"
  BY <1>1, <1>2, <1>4, PreparationFailed
<1>5. CASE St(g, o) = "HANDOVER_LEAVING"
  BY <1>1, <1>2, <1>5, UeReleased
<1> QED BY <1>2, <1>3, <1>4, <1>5

\* The preparation of a handover keeps the invariant.
LEMMA PreparationKeeps ==
    ASSUME Here, Preparation
    PROVE  IInv'
<1>1. ASSUME NEW g \in Gnb, NEW t \in Gnb, NEW r \in Rnti, TriggerHandover(g, r, t)
      PROVE  IInv'
  BY <1>1, HandoverTriggered
<1>2. ASSUME NEW s \in Gnb, NEW t \in Gnb, RefuseHandover(s, t)
      PROVE  IInv'
  BY <1>2, HandoverRefused
<1>3. ASSUME NEW s \in Gnb, NEW t \in Gnb, AdmitHandover(s, t)
      PROVE  IInv'
  BY <1>3, AdmitHandoverStep
<1>4. ASSUME NEW t \in Gnb, NEW g \in Gnb, RecvHandoverRequestAck(t, g)
      PROVE  IInv'
  BY <1>4, RecvHandoverRequestAckStep
<1>5. ASSUME NEW t \in Gnb, NEW g \in Gnb, RecvHandoverPreparationFailure(t, g)
      PROVE  IInv'
  BY <1>5, RecvHandoverPreparationFailureStep
<1> QED BY <1>1, <1>2, <1>3, <1>4, <1>5 DEF Preparation

\* Random access succeeds, and the invariant stays.
LEMMA RandomAccessSucceedsStep ==
    ASSUME Here, RandomAccessSucceeds
    PROVE  IInv'
<1>1. ue.st \in {"CONNECTED_HANDOVER", "IDLE_RANDOM_ACCESS"}
  BY DEF RandomAccessSucceeds
<1>2. CASE Exists(ue.cell, ue.rnti)
  BY <1>2, PreambleAnswered
<1>3. CASE ~Exists(ue.cell, ue.rnti)
  BY <1>1, <1>3, HandoverToNewContext, ConnectionToNewContext
<1> QED BY <1>2, <1>3

\* Random access fails, and the invariant stays.
LEMMA RandomAccessFailsStep ==
    ASSUME Here, RandomAccessFails
    PROVE  IInv'
<1>1. now' = <<RemoveRequest>>
  BY Single DEF RandomAccessFails, Running
<1> QED BY <1>1, UeLeaves DEF RandomAccessFails, Running

\* The gNB learns that a reconfiguration is complete, and the invariant stays.
LEMMA RecvReconfigurationCompletedStep ==
    ASSUME Here, RecvReconfigurationCompleted
    PROVE  IInv'
<1>1. now = <<>> /\ ul # <<>> /\ Head(ul) = "completed"
  BY DEF RecvReconfigurationCompleted, Running
<1>2. /\ ue.cell \in Gnb /\ ue.rnti \in Rnti
      /\ St(ue.cell, ue.rnti) \in {"CONNECTION_RECONFIGURATION", "NONE", "INITIAL_RANDOM_ACCESS",
                                   "HANDOVER_JOINING"}
  BY <1>1, HereFacts, UlMeets, Single
<1>3. PICK g \in Gnb, w \in Rnti : g = ue.cell /\ w = ue.rnti
  BY <1>2
<1>4. CASE St(g, w) = "CONNECTION_RECONFIGURATION"
  BY <1>3, <1>4, ReconfigurationCompleted
<1>5. CASE St(g, w) = "HANDOVER_JOINING"
  BY <1>3, <1>5, UeJoins
<1>6. CASE St(g, w) \in {"NONE", "INITIAL_RANDOM_ACCESS"}
  <2>1. Abort("completed")
    BY <1>3, <1>6 DEF RecvReconfigurationCompleted, ExpectsCompleted, St
  <2> QED BY <2>1, Aborts
<1> QED BY <1>2, <1>3, <1>4, <1>5, <1>6

\* The answer of the core finds the context that asked for it, or none.
LEMMA AnswerMeets ==
    ASSUME Here, s1 # <<>>, NEW k, Head(s1).kind = k
    PROVE  \E g \in Gnb, w \in Rnti :
              /\ g = Head(s1).gnb /\ w = imsiRnti[g]
              /\ k = "switched" => St(g, w) \in {"NONE", "HANDOVER_PATH_SWITCH"}
              /\ k = "attached" => St(g, w) \in {"NONE", "ATTACH_REQUEST"}
<1>1. PICK i \in {"switched", "attached"}, g \in Gnb : s1 = <<[kind |-> i, gnb |-> g]>>
  BY HereFacts DEF Messages
<1>2. Head(s1).kind = i /\ Head(s1).gnb = g
  BY <1>1, Single
<1>3. /\ imsiRnti[g] \in Rnti
      /\ i = "switched" => St(g, imsiRnti[g]) \in {"NONE", "HANDOVER_PATH_SWITCH"}
      /\ i = "attached" => St(g, imsiRnti[g]) \in {"NONE", "ATTACH_REQUEST"}
  BY <1>1, HereFacts DEF Answers
<1> QED BY <1>2, <1>3

\* The answer to a path switch is received, and the invariant stays.
LEMMA RecvPathSwitchAckStep ==
    ASSUME Here, RecvPathSwitchAck
    PROVE  IInv'
<1>1. s1 # <<>> /\ Head(s1).kind = "switched"
  BY Zenon DEF RecvPathSwitchAck
<1>2. PICK g \in Gnb, w \in Rnti : /\ g = Head(s1).gnb /\ w = imsiRnti[g]
                                   /\ St(g, w) \in {"NONE", "HANDOVER_PATH_SWITCH"}
  BY <1>1, AnswerMeets
<1>3. CASE St(g, w) = "NONE"
  <2>1. Abort("path_switch_ack")
    BY <1>2, <1>3 DEF RecvPathSwitchAck, Exists, St
  <2> QED BY <2>1, Aborts
<1>4. CASE St(g, w) = "HANDOVER_PATH_SWITCH"
  BY <1>2, <1>4, PathSwitched
<1> QED BY <1>2, <1>3, <1>4

\* A context release is received, and the invariant stays.
LEMMA RecvUeContextReleaseStep ==
    ASSUME Here, NEW t \in Gnb, NEW g \in Gnb, RecvUeContextRelease(t, g)
    PROVE  IInv'
<1>1. PICK o \in Id, n \in Id : Head(x2[t][g]).old = o /\ Sent("context_release", t, g, o, n)
  BY HeadOf DEF RecvUeContextRelease
<1>2. o \in Rnti /\ St(g, o) \in {"NONE", "HANDOVER_LEAVING"}
  BY <1>1, HereFacts DEF Releases, ReleaseMeets
<1>3. CASE St(g, o) = "NONE"
  <2>1. ~Exists(g, o)
    BY <1>3 DEF Exists, St
  <2> QED BY <2>1, <1>1, ReleaseIgnored
<1>4. CASE St(g, o) = "HANDOVER_LEAVING"
  BY <1>1, <1>2, <1>4, SourceReleased
<1> QED BY <1>2, <1>3, <1>4

\* The execution of a handover keeps the invariant.
LEMMA ExecutionKeeps ==
    ASSUME Here, Execution
    PROVE  IInv'
<1>1. CASE UeRecvReconfiguration
  BY <1>1, CommandReceived, ReconfigurationReceived
<1>2. CASE RandomAccessSucceeds
  BY <1>2, RandomAccessSucceedsStep
<1>3. CASE RandomAccessFails
  BY <1>3, RandomAccessFailsStep
<1>4. CASE RecvReconfigurationCompleted
  BY <1>4, RecvReconfigurationCompletedStep
<1>5. CASE RecvPathSwitchAck
  BY <1>5, RecvPathSwitchAckStep
<1>6. ASSUME NEW t \in Gnb, NEW g \in Gnb, RecvUeContextRelease(t, g)
      PROVE  IInv'
  BY <1>6, RecvUeContextReleaseStep
<1> QED BY <1>1, <1>2, <1>3, <1>4, <1>5, <1>6 DEF Execution

\* A cancel is received, and the invariant stays.
LEMMA RecvHandoverCancelStep ==
    ASSUME Here, NEW s \in Gnb, NEW g \in Gnb, RecvHandoverCancel(s, g)
    PROVE  IInv'
<1>1. now = <<>> /\ \E o, n \in Id : Head(x2[s][g]).new = n /\ Sent("cancel", s, g, o, n)
  BY HeadOf DEF RecvHandoverCancel
<1>2. PICK o \in Id, n \in Id : Head(x2[s][g]).new = n /\ Sent("cancel", s, g, o, n)
  BY <1>1
<1>3. CancelMeets(s, g, o, n)
  BY <1>2, HereFacts DEF Cancels
<1>4. ~Home(g, n)
  BY <1>1, <1>3 DEF CancelMeets, Released, Home, Leaves, UeAt, Idle
<1>5. n \in Rnti /\ St(g, n) \in {"NONE", "HANDOVER_JOINING"}
  BY <1>3, <1>4 DEF CancelMeets
<1>6. CASE St(g, n) = "NONE"
  <2>1. ~Exists(g, Head(x2[s][g]).new)
    BY <1>2, <1>6 DEF Exists, St
  <2> QED BY <2>1, CancelIgnored
<1>7. CASE St(g, n) = "HANDOVER_JOINING"
  BY <1>2, <1>5, <1>7, WaitCancelled
<1> QED BY <1>5, <1>6, <1>7

\* The timers of the contexts keep the invariant.
LEMMA TimersKeep ==
    ASSUME Here, Timers
    PROVE  IInv'
<1>1. ASSUME NEW g \in Gnb, NEW r \in Rnti, JoiningTimeout(g, r)
      PROVE  IInv'
  BY <1>1, JoiningExpires
<1>2. ASSUME NEW g \in Gnb, NEW r \in Rnti, LeavingTimeout(g, r)
      PROVE  IInv'
  BY <1>2, LeavingExpires
<1>3. ASSUME NEW s \in Gnb, NEW g \in Gnb, RecvHandoverCancel(s, g)
      PROVE  IInv'
  BY <1>3, RecvHandoverCancelStep
<1>4. ASSUME NEW g \in Gnb, NEW r \in Rnti, SetupTimeout(g, r)
      PROVE  IInv'
  BY <1>4, SetupExpires
<1> QED BY <1>1, <1>2, <1>3, <1>4 DEF Timers

\* The UE is released, and the invariant stays.
LEMMA UeRecvReleaseStep ==
    ASSUME Here, UeRecvRelease
    PROVE  IInv'
<1>1. CASE ue.left
  BY <1>1, ReleaseUnheard
<1>2. CASE ~ue.left
  <2>1. now # <<>> /\ Head(now).kind = "release"
    BY DEF UeRecvRelease
  <2>2. \A h, q : ~Leaves(h, q)
    BY <2>1, Single DEF Leaves
  <2>3. PICK g \in Gnb, w \in Id : Released(g, w)
    BY <2>1, <2>2, HereFacts DEF Messages
  <2>4. now' = <<RemoveRequest>>
    BY <1>2, <2>3, Single DEF UeRecvRelease, Released
  <2> QED BY <1>2, <2>3, <2>4, UeLeaves DEF UeRecvRelease
<1> QED BY <1>1, <1>2

\* The request to remove a context is received, and the invariant stays.
LEMMA RecvRemoveRequestStep ==
    ASSUME Here, RecvRemoveRequest
    PROVE  IInv'
<1>1. now # <<>> /\ Head(now).kind = "remove"
  BY Zenon DEF RecvRemoveRequest
<1>2. \A h, q : ~Released(h, q)
  BY <1>1, Single DEF Released
<1>3. PICK g \in Gnb, w \in Id : Leaves(g, w)
  BY <1>1, <1>2, HereFacts DEF Messages
<1>4. g = Head(now).cell /\ w = Head(now).rnti
  BY <1>3, Single DEF Leaves
<1>5. CASE ~Exists(g, w)
  BY <1>4, <1>5, RemovalIgnored
<1>6. CASE Exists(g, w)
  <2>1. w \in Rnti /\ St(g, w) # "NONE"
    BY <1>6 DEF Exists, St
  <2> QED BY <1>4, <2>1, ContextDeleted, JoiningDeleted
<1> QED BY <1>5, <1>6

\* The radio link fails, and the invariant stays.
LEMMA RadioLinkFailureStep ==
    ASSUME Here, RadioLinkFailure
    PROVE  IInv'
<1>1. now' = <<RemoveRequest>>
  BY Single DEF RadioLinkFailure, Running
<1> QED BY <1>1, UeLeaves DEF RadioLinkFailure, Running

\* Forwarded data is received, and the invariant stays.
LEMMA RecvUeDataStep ==
    ASSUME Here, NEW s \in Gnb, NEW g \in Gnb, RecvUeData(s, g)
    PROVE  IInv'
<1>1. CASE teid[g] = 0
  <2>1. Abort("data")
    BY <1>1 DEF RecvUeData
  <2> QED BY <2>1, Aborts
<1>2. CASE teid[g] # 0
  BY <1>2, DataReceived
<1> QED BY <1>1, <1>2

\* The end of a connection and the data keep the invariant.
LEMMA ConnectionKeeps ==
    ASSUME Here, Connection
    PROVE  IInv'
<1>1. ASSUME NEW g \in Gnb, NEW r \in Rnti, ForwardData(g, r)
      PROVE  IInv'
  BY <1>1, DataForwarded
<1>2. ASSUME NEW s \in Gnb, NEW g \in Gnb, RecvUeData(s, g)
      PROVE  IInv'
  BY <1>2, RecvUeDataStep
<1> QED BY <1>1, <1>2, UeRecvReleaseStep, RecvRemoveRequestStep, RadioLinkFailureStep
    DEF Connection

\* A connection request is received, and the invariant stays.
LEMMA RecvConnectionRequestStep ==
    ASSUME Here, RecvConnectionRequest
    PROVE  IInv'
<1>1. now = <<>> /\ ul # <<>> /\ Head(ul) = "request"
  BY DEF RecvConnectionRequest, Running
<1>2. /\ dl = <<>> /\ ul = <<"request">> /\ ue.st = "IDLE_CONNECTING"
      /\ ue.cell \in Gnb /\ ue.rnti \in Rnti
      /\ St(ue.cell, ue.rnti) \in {"NONE", "INITIAL_RANDOM_ACCESS"}
  BY <1>1, HereFacts, UlMeets, Single
<1>3. PICK g \in Gnb, w \in Rnti : g = ue.cell /\ w = ue.rnti
  BY <1>2
<1>4. CASE St(g, w) = "NONE"
  <2>1. Abort("uplink")
    BY <1>3, <1>4 DEF RecvConnectionRequest, Exists, St
  <2> QED BY <2>1, Aborts
<1>5. CASE St(g, w) = "INITIAL_RANDOM_ACCESS"
  <2>1. Exists(g, w) /\ ctx[g][w].st = "INITIAL_RANDOM_ACCESS"
    BY <1>5 DEF Exists, St
  <2>2. /\ ul' = Tail(ul)
        /\ UNCHANGED <<last, teid, imsiRnti, ue, x2, s1, now, failures, fault>>
        /\ \/ /\ ctx' = [ctx EXCEPT ![g][w].st = "CONNECTION_SETUP", ![g][w].timer = "setup"]
              /\ dl' = Append(dl, Setup)
           \/ /\ ctx' = [ctx EXCEPT ![g][w].st = "CONNECTION_REJECTED", ![g][w].timer = "rejected"]
              /\ dl' = Append(dl, Reject)
    BY <1>3, <2>1 DEF RecvConnectionRequest, Setup, Reject
  <2> QED BY <1>2, <1>3, <1>5, <2>2, RequestAdmitted, RequestRefused
<1> QED BY <1>2, <1>3, <1>4, <1>5

\* The UE is rejected, and the invariant stays.
LEMMA UeRecvRejectStep ==
    ASSUME Here, UeRecvReject
    PROVE  IInv'
<1>1. ue.st = "IDLE_CONNECTING"
  BY HereFacts, DlMeets, Kinds, Single DEF UeRecvReject, Running
<1> QED BY <1>1, TriesAgainStep DEF UeRecvReject

\* The report of a set-up is received, and the invariant stays.
LEMMA RecvSetupCompletedStep ==
    ASSUME Here, RecvSetupCompleted
    PROVE  IInv'
<1>1. now = <<>> /\ ul # <<>> /\ Head(ul) = "setup_completed"
  BY DEF RecvSetupCompleted, Running
<1>2. /\ ue.cell \in Gnb /\ ue.rnti \in Rnti
      /\ St(ue.cell, ue.rnti) \in {"NONE", "CONNECTION_SETUP"}
  BY <1>1, HereFacts, UlMeets, Single
<1>3. PICK g \in Gnb, w \in Rnti : g = ue.cell /\ w = ue.rnti
  BY <1>2
<1>4. CASE St(g, w) = "NONE"
  <2>1. Abort("uplink")
    BY <1>3, <1>4 DEF RecvSetupCompleted, Exists, St
  <2> QED BY <2>1, Aborts
<1>5. CASE St(g, w) = "CONNECTION_SETUP"
  BY <1>3, <1>5, SetupReported
<1> QED BY <1>2, <1>3, <1>4, <1>5

\* The answer to an attach request is received, and the invariant stays.
LEMMA RecvInitialContextSetupStep ==
    ASSUME Here, RecvInitialContextSetup
    PROVE  IInv'
<1>1. s1 # <<>> /\ Head(s1).kind = "attached"
  BY DEF RecvInitialContextSetup
<1>2. PICK g \in Gnb, w \in Rnti : g = Head(s1).gnb /\ w = imsiRnti[g]
  BY <1>1, AnswerMeets
<1>3. CASE St(g, w) = "NONE"
  <2>1. Abort("initial_context_setup")
    BY <1>2, <1>3 DEF RecvInitialContextSetup, Exists, St
  <2> QED BY <2>1, Aborts
<1>4. CASE St(g, w) # "NONE"
  BY <1>2, <1>4, AttachAnswered
<1> QED BY <1>3, <1>4

\* The set-up of a connection keeps the invariant.
LEMMA SetUpKeeps ==
    ASSUME Here, SetUp
    PROVE  IInv'
<1>1. ASSUME NEW g \in Gnb, StartConnection(g)
      PROVE  IInv'
  BY <1>1, StartConnectionStep
<1>2. CASE RecvConnectionRequest
  BY <1>2, RecvConnectionRequestStep
<1>3. CASE UeRecvSetup
  BY <1>3, UeRecvSetupStep
<1>4. CASE UeRecvReject
  BY <1>4, UeRecvRejectStep
<1>5. CASE ConnectionTimeout
  BY <1>5, TriesAgainStep, GivesUp DEF ConnectionTimeout
<1>6. CASE RecvSetupCompleted
  BY <1>6, RecvSetupCompletedStep
<1>7. CASE RecvInitialContextSetup
  BY <1>7, RecvInitialContextSetupStep
<1>8. CASE LoseSrb0
  BY <1>8, Srb0Lost
<1> QED BY <1>1, <1>2, <1>3, <1>4, <1>5, <1>6, <1>7, <1>8 DEF SetUp

\* Nothing happens after an abort.
LEMMA StoppedForGood ==
    ASSUME Next, fault # "none"
    PROVE  FALSE
<1>1. ~Running
  BY DEF Running
<1>2. ~Preparation
  BY <1>1, Zenon DEF Preparation, TriggerHandover, RefuseHandover, AdmitHandover,
              RecvHandoverRequestAck, RecvHandoverPreparationFailure, Arrives
<1>3. ~Execution
  BY <1>1, Zenon DEF Execution, UeRecvReconfiguration, RandomAccessSucceeds, RandomAccessFails,
              RecvReconfigurationCompleted, RecvPathSwitchAck, RecvUeContextRelease, Arrives
<1>4. ~Timers
  BY <1>1 DEF Timers, JoiningTimeout, LeavingTimeout, RecvHandoverCancel, SetupTimeout, Arrives
<1>5. ~Connection
  BY <1>1, Zenon DEF Connection, UeRecvRelease, RecvRemoveRequest, RadioLinkFailure,
                     ForwardData, RecvUeData, Arrives
<1>6. ~SetUp
  BY <1>1, Zenon DEF SetUp, StartConnection, RecvConnectionRequest, UeRecvSetup, UeRecvReject,
              ConnectionTimeout, RecvSetupCompleted, RecvInitialContextSetup, LoseSrb0
<1> QED BY <1>2, <1>3, <1>4, <1>5, <1>6 DEF Next

\* What the contexts and the UE are at the start.
LEMMA InitFacts ==
    ASSUME Init
    PROVE  \E g \in Gnb, w \in Rnti :
              /\ w = 1 /\ TypeOK
              /\ St(g, w) = "CONNECTED_NORMALLY"
              /\ \A h \in Gnb, q \in Rnti : h # g \/ q # w => St(h, q) = "NONE"
              /\ \A h \in Gnb, q \in Rnti : ~Pend(h, q)
              /\ last[g] = 1 /\ imsiRnti[g] = 1
              /\ \A h \in Gnb : last[h] \in Nat /\ teid[h] = 0 /\ imsiRnti[h] = last[h]
              /\ ue.st = "CONNECTED_NORMALLY" /\ ue.cell = g /\ ue.rnti = w /\ ~ue.left
              /\ dl = <<>> /\ ul = <<>> /\ s1 = <<>> /\ now = <<>> /\ fault = "none"
              /\ x2 = [s \in Gnb |-> [t \in Gnb |-> <<>>]]
<1>1. MaxRnti \in Nat \ {0} /\ First \subseteq Gnb /\ 1 \in Rnti /\ 1 \in 0 .. MaxRnti
      /\ 0 \in 0 .. MaxRnti
  BY HandoverAssumption DEF Rnti
<1>2. PICK g \in Gnb :
        /\ ctx = [h \in Gnb |-> [r \in Rnti |->
                    IF h = g /\ r = 1 THEN [NoCtx EXCEPT !.st = "CONNECTED_NORMALLY"]
                                      ELSE NoCtx]]
        /\ last = [h \in Gnb |-> IF h = g THEN 1 ELSE 0]
        /\ imsiRnti = [h \in Gnb |-> IF h = g THEN 1 ELSE 0]
        /\ ue = [IdleUe EXCEPT !.st = "CONNECTED_NORMALLY", !.cell = g,
                               !.rnti = 1, !.left = FALSE]
        /\ teid = [h \in Gnb |-> 0]
        /\ dl = <<>> /\ ul = <<>>
        /\ x2 = [s \in Gnb |-> [t \in Gnb |-> <<>>]]
        /\ s1 = <<>> /\ now = <<>>
        /\ fault = "none"
  BY <1>1, Zenon DEF Init
<1>3. PICK c \in ContextType : c = [NoCtx EXCEPT !.st = "CONNECTED_NORMALLY"]
  BY NoCtxType DEF NoCtx, ContextType
<1>4. c.st = "CONNECTED_NORMALLY" /\ c.pend = FALSE /\ c.timer = "none" /\ Guarded(c)
  BY <1>3 DEF NoCtx, Guarded
<1>5. PICK n \in ContextType : n = NoCtx
  BY NoCtxType
<1>6. n.st = "NONE" /\ n.pend = FALSE /\ Guarded(n)
  BY <1>5, NoCtxType DEF NoCtx
<1>7. ctx = [h \in Gnb |-> [r \in Rnti |-> IF h = g /\ r = 1 THEN c ELSE n]]
  BY <1>2, <1>3, <1>5
<1>8. /\ ctx \in [Gnb -> [Rnti -> ContextType]]
      /\ \A h \in Gnb, q \in Rnti : ctx[h][q] = IF h = g /\ q = 1 THEN c ELSE n
  BY <1>7
<1>9. \A h \in Gnb, q \in Rnti : Guarded(ctx[h][q])
  BY <1>4, <1>6, <1>8
<1>10. ue \in UeType /\ ue.st = "CONNECTED_NORMALLY" /\ ue.cell = g /\ ue.rnti = 1
               /\ ue.left = FALSE
  BY <1>1, <1>2, IdleUeType DEF IdleUe, UeType
<1>11. /\ last \in [Gnb -> 0 .. MaxRnti] /\ teid \in [Gnb -> 0 .. MaxRnti]
       /\ imsiRnti \in [Gnb -> 0 .. MaxRnti]
  BY <1>1, <1>2
<1>12. TypeOK
  <2>1. dl = <<>> /\ ul = <<>>
    BY <1>2
  <2>2. Len(dl) <= 2 /\ Len(ul) <= 2
    BY ONLY <2>1
  <2> QED BY ONLY <1>8, <1>9, <1>10, <1>11, <2>2 DEF TypeOK
<1>13. \A h \in Gnb : last[h] \in Nat /\ teid[h] = 0 /\ imsiRnti[h] = last[h]
  BY <1>2
<1>14. /\ St(g, 1) = "CONNECTED_NORMALLY"
       /\ \A h \in Gnb, q \in Rnti : h # g \/ q # 1 => St(h, q) = "NONE"
       /\ \A h \in Gnb, q \in Rnti : ~Pend(h, q)
  BY <1>1, <1>4, <1>6, <1>8 DEF St, Pend
<1> QED BY <1>1, <1>2, <1>10, <1>12, <1>13, <1>14

\* The invariant holds at the start.
LEMMA InitGood ==
    ASSUME Init
    PROVE  IInv
<1>1. PICK g \in Gnb, w \in Rnti :
              /\ w = 1 /\ TypeOK
              /\ St(g, w) = "CONNECTED_NORMALLY"
              /\ \A h \in Gnb, q \in Rnti : h # g \/ q # w => St(h, q) = "NONE"
              /\ \A h \in Gnb, q \in Rnti : ~Pend(h, q)
              /\ last[g] = 1 /\ imsiRnti[g] = 1
              /\ \A h \in Gnb : last[h] \in Nat /\ teid[h] = 0 /\ imsiRnti[h] = last[h]
              /\ ue.st = "CONNECTED_NORMALLY" /\ ue.cell = g /\ ue.rnti = w /\ ~ue.left
              /\ dl = <<>> /\ ul = <<>> /\ s1 = <<>> /\ now = <<>> /\ fault = "none"
              /\ x2 = [s \in Gnb |-> [t \in Gnb |-> <<>>]]
  BY InitFacts
<1>2. \A s, t \in Gnb : x2[s][t] = <<>>
  BY <1>1
<1>3. \A k, s, t, o, n : s \in Gnb /\ t \in Gnb => ~Sent(k, s, t, o, n)
  BY <1>1, <1>2, NothingSent DEF Settled
<1>4. \A h, q : ~Released(h, q) /\ ~Leaves(h, q)
  BY <1>1 DEF Released, Leaves
<1>5. UeAt(g, w) /\ Home(g, w) /\ ~Idle
  BY <1>1 DEF UeAt, Home, Idle
<1>6. Messages
  BY <1>1 DEF Messages
<1>7. Queues
  BY <1>2 DEF Queues, Ordered
<1>8. \A h \in Gnb, q \in Rnti :
         /\ St(h, q) \in {"NONE", "CONNECTED_NORMALLY"}
         /\ St(h, q) # "NONE" => h = g /\ q = w
  BY <1>1
<1>9. Contexts
  <2>1. \A q \in Rnti : q # 0
    BY HandoverAssumption DEF Rnti
  <2>2. \A h \in Gnb, q \in Rnti : St(h, q) # "NONE" => q <= last[h] /\ Home(h, q)
    BY <1>1, <1>5, <1>8
  <2>3. \A h \in Gnb : teid[h] <= last[h] /\ imsiRnti[h] <= last[h]
    BY <1>1
  <2> QED BY <2>1, <2>2, <2>3, <1>1, <1>8 DEF Contexts, ContextFits, Attached
<1>10. Leavings /\ Joinings /\ Switchings
  BY <1>8 DEF Leavings, Joinings, Switchings
<1>11. OneSource
  BY <1>8 DEF OneSource, OneTarget, Source, Target
<1>12. Requests /\ Acks /\ Failures /\ Releases /\ Cancels
  BY <1>3 DEF Requests, Acks, Failures, Releases, Cancels
<1>13. Answers
  BY <1>1 DEF Answers
<1>14. UeIdle
  BY <1>1, <1>4, <1>5 DEF UeIdle
<1>15. UeConnecting /\ UeMoving
  BY <1>1 DEF UeConnecting, UeMoving
<1>16. UeConnected
  BY <1>1 DEF UeConnected
<1> QED BY <1>1, <1>6, <1>7, <1>9, <1>10, <1>11, <1>12, <1>13, <1>14, <1>15, <1>16
        DEF IInv, Good

\* Every step keeps the invariant.
LEMMA NextKeeps ==
    ASSUME IInv, [Next]_<<vars, leavingLast>>
    PROVE  IInv'
<1>1. CASE Next /\ fault = "none"
  <2>1. Good /\ TypeOK
    BY <1>1 DEF IInv, Excused
  <2>2. Here
    BY <1>1, <2>1 DEF Here, Next
  <2> QED BY <1>1, <2>2, PreparationKeeps, ExecutionKeeps, TimersKeep, ConnectionKeeps,
             SetUpKeeps DEF Next
<1>2. CASE Next /\ fault # "none"
  BY <1>2, StoppedForGood
<1>3. CASE UNCHANGED <<vars, leavingLast>>
  <2>1. UNCHANGED <<ctx, last, teid, imsiRnti, ue, dl, ul, x2, s1, now, fault, leavingLast>>
    BY <1>3 DEF vars
  <2>2. TypeOK' <=> TypeOK
    BY <2>1 DEF TypeOK
  <2>3. Excused' <=> Excused
    BY <2>1 DEF Excused
  <2>4. CASE Excused
    BY <2>2, <2>3, <2>4 DEF IInv
  <2>5. CASE Good /\ fault = "none"
    <3>p. /\ Messages /\ Queues /\ Contexts /\ Leavings /\ OneSource
          /\ Requests /\ Acks /\ Failures /\ Releases /\ Cancels
          /\ Joinings /\ Switchings /\ Answers
          /\ UeIdle /\ UeConnecting /\ UeMoving /\ UeConnected
      BY <2>5 DEF Good
    <3>c. \A g, r : /\ St(g, r)' = St(g, r) /\ Peer(g, r)' = Peer(g, r)
                    /\ Timer(g, r)' = Timer(g, r) /\ Pend(g, r)' = Pend(g, r)
                    /\ \A p, i : Linked(g, r, p, i)' <=> Linked(g, r, p, i)
      BY <2>1, ContextsSame
    <3>s. \A k, s, t, o, n : Sent(k, s, t, o, n)' <=> Sent(k, s, t, o, n)
      BY <2>1, LinksSame
    <3>u. /\ Idle' <=> Idle
          /\ \A g, r : /\ UeAt(g, r)' <=> UeAt(g, r)
                       /\ On(g, r)' <=> On(g, r)
                       /\ Home(g, r)' <=> Home(g, r)
                       /\ Leaves(g, r)' <=> Leaves(g, r)
                       /\ Released(g, r)' <=> Released(g, r)
      BY <2>1, UeSame
    <3>1. Messages' /\ Queues'
      BY <3>p, <2>1, <3>u DEF Messages, Queues
    <3>2. Contexts' /\ OneSource' /\ Answers'
      BY <3>p, <2>1, <3>c, <3>u DEF Contexts, ContextFits, OneSource, OneTarget, Source, Target,
         Answers
    <3>3. Leavings'
      BY <3>p, <2>1, <3>c, <3>s, <3>u DEF Leavings, LeavingTo, Pending, Switched
    <3>4. Requests'
      BY <3>p, <2>1, <3>c, <3>s, <3>u DEF Requests, RequestMeets, NoTarget
    <3>5. Acks'
      BY <3>p, <2>1, <3>c, <3>s, <3>u DEF Acks, AckMeets
    <3>6. Failures'
      BY <3>p, <2>1, <3>c, <3>s DEF Failures, FailureMeets, NoTarget
    <3>7. Releases' /\ Cancels'
      BY <3>p, <2>1, <3>c, <3>s, <3>u DEF Releases, ReleaseMeets, Cancels, CancelMeets
    <3>8. Joinings' /\ Switchings'
      BY <3>p, <2>1, <3>c, <3>s DEF Joinings, JoiningFrom, Switchings, SwitchingFrom, Switched
    <3>9. UeIdle' /\ UeConnecting' /\ UeMoving' /\ UeConnected'
      BY <3>p, <2>1, <3>c, <3>u DEF UeIdle, UeConnecting, UeMoving, UeConnected, Away
    <3> QED BY <2>1, <2>2, <2>5, <3>1, <3>2, <3>3, <3>4, <3>5, <3>6, <3>7, <3>8, <3>9
            DEF IInv, Good
  <2> QED BY <2>4, <2>5 DEF IInv
<1> QED BY <1>1, <1>2, <1>3

(***************************************************************************)
(* What every state satisfies, for any number of gNBs and RNTIs and any    *)
(* order of the two timers: the types, and, as long as the program runs,   *)
(* what every message in flight will meet at the gNB or the UE it goes to, *)
(* what every context that waits is waiting for, and where the UE is; a    *)
(* program that has stopped did so in one of the handlers in which it may. *)
(***************************************************************************)
THEOREM InvIsInvariant == Spec => []IInv
<1>1. Init => IInv
  BY InitGood
<1>2. IInv /\ [Next]_<<vars, leavingLast>> => IInv'
  BY NextKeeps
<1> QED BY <1>1, <1>2, PTL DEF Spec

(***************************************************************************)
(* No refusal, context release or cancel, no timeout, no message to the UE *)
(* or of its set-up and no answer to its attachment meets a context or a   *)
(* UE in a state its handler aborts in (NrUeManager, NrGnbRrc, NrUeRrc),   *)
(* in whatever order they come.                                            *)
(***************************************************************************)
THEOREM AnswersAreExpected == Spec => []AnswersExpected
<1>1. IInv => AnswersExpected
  BY DEF IInv, Excused, AnswersExpected
<1> QED BY <1>1, InvIsInvariant, PTL

(***************************************************************************)
(* With the default order of the timers no X2-U tunnel of an earlier       *)
(* handover is in the way of a later one (SetupDataRadioBearer).           *)
(***************************************************************************)
THEOREM TunnelIsFree == Spec => []TunnelFree
<1>1. IInv => TunnelFree
  BY DEF IInv, Excused, TunnelFree
<1> QED BY <1>1, InvIsInvariant, PTL

(***************************************************************************)
(* A timer runs in the state it guards only, and a connected UE whose      *)
(* context the gNB has deleted is about to be released, or still has the   *)
(* context it left, or has yet to complete its set-up.                     *)
(***************************************************************************)
THEOREM ContextsFit == Spec => []ContextInv
<1>1. ASSUME IInv
      PROVE  NotOrphaned
  <2> SUFFICES ASSUME fault = "none", ue.st = "CONNECTED_NORMALLY", ~Exists(ue.cell, ue.rnti)
               PROVE  \/ \E i \in DOMAIN now : now[i].kind = "release"
                      \/ \E g \in Gnb, r \in Rnti : ctx[g][r].timer = "leaving"
                      \/ \E i \in DOMAIN ul : ul[i] = "setup_completed"
    BY DEF NotOrphaned
  <2>1. UeConnected /\ Contexts
    BY <1>1 DEF IInv, Excused, Good
  <2>2. ue.rnti \in Rnti /\ St(ue.cell, ue.rnti) = "NONE"
    BY <2>1 DEF UeConnected, Exists, St
  <2>3. \A g, r : Released(g, r) => \E i \in DOMAIN now : now[i].kind = "release"
    <3> SUFFICES ASSUME NEW g, NEW r, Released(g, r)
                 PROVE  \E i \in DOMAIN now : now[i].kind = "release"
      OBVIOUS
    <3>1. DOMAIN now = {1} /\ now[1].kind = "release"
      BY DEF Released
    <3> QED BY <3>1
  <2>4. ul = <<"setup_completed">> => \E i \in DOMAIN ul : ul[i] = "setup_completed"
    <3> SUFFICES ASSUME ul = <<"setup_completed">>
                 PROVE  \E i \in DOMAIN ul : ul[i] = "setup_completed"
      OBVIOUS
    <3>1. DOMAIN ul = {1} /\ ul[1] = "setup_completed"
      OBVIOUS
    <3> QED BY <3>1
  <2>5. Away => \/ \E g, r : Released(g, r)
                \/ \E g \in Gnb, r \in Rnti : ctx[g][r].timer = "leaving"
    BY <2>1 DEF Away, Contexts, ContextFits, Timer
  <2>6. Released(ue.cell, ue.rnti) \/ ul = <<"setup_completed">> \/ Away
    BY <2>1, <2>2 DEF UeConnected
  <2> QED BY <2>3, <2>4, <2>5, <2>6
<1>2. IInv => ContextInv
  BY <1>1 DEF IInv, ContextInv
<1> QED BY <1>2, InvIsInvariant, PTL

(***************************************************************************)
(* A release reaches the UE only under the context that sent it, or after  *)
(* the handover out of that context (SendRrcConnectionRelease).            *)
(***************************************************************************)
THEOREM ReleasesItsOwn == Spec => OwnRelease
<1>1. ASSUME IInv
      PROVE  OwnReleaseStep
  <2> SUFFICES ASSUME UeRecvRelease, ~ue.left
               PROVE  \/ UeAt(Head(now).cell, Head(now).rnti)
                      \/ ue.from = <<Head(now).cell, Head(now).rnti>>
    BY DEF OwnReleaseStep
  <2>1. fault = "none" /\ now # <<>> /\ Head(now).kind = "release"
    BY DEF UeRecvRelease
  <2>2. UeIdle /\ Messages
    BY <1>1, <2>1 DEF IInv, Excused, Good
  <2>3. \A h, q : ~Leaves(h, q)
    BY <2>1, Single DEF Leaves
  <2>4. PICK g \in Gnb, w \in Id : Released(g, w)
    BY <2>1, <2>2, <2>3 DEF Messages
  <2>5. Head(now).cell = g /\ Head(now).rnti = w
    BY <2>4, Single DEF Released
  <2>6. UeAt(g, w) \/ ue.from = <<g, w>>
    BY <2>2, <2>4 DEF UeIdle, Idle, On
  <2> QED BY <2>5, <2>6
<1>2. IInv /\ [Next]_<<vars, leavingLast>> => [OwnReleaseStep]_vars
  BY <1>1
<1> QED BY <1>2, InvIsInvariant, PTL DEF Spec, OwnRelease

=============================================================================

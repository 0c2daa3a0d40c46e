--------------------------- MODULE NrRach_proofs ---------------------------
(***************************************************************************)
(* RachInv, for any number of UEs, preambles and RNTIs, while the counter  *)
(* all UEs draw from stays below the preambles of handovers and a context  *)
(* waits for its UE as long as the UE tries.  Without either of the two it *)
(* is violated (NrRachIds.cfg, NrRachJoining.cfg).                         *)
(* ResultsExpected, as long as the SRS configurations are never used up    *)
(* (NrRachSrs.cfg shows what happens then).                                *)
(*                                                                         *)
(* The strengthening follows an RNTI from the preamble it answers to the   *)
(* UE that takes it, and the preamble of a handover from the gNB's map to  *)
(* the UE's access and back.                                               *)
(***************************************************************************)
EXTENDS NrRach, FiniteSetTheorems, TLAPS

\* No id of the counter is one of a handover.
IdsApart == MaxSent <= FirstDedicated

\* The RNTI a UE uses, or will when it reads its handover command.
Held(u) == IF command[u] # None THEN command[u].rnti ELSE rnti[u]

\* How the variables of one UE, and its context, go together.
Fits(u) ==
    /\ command[u] # None => rrc[u] = "elsewhere" /\ ctx[command[u].rnti] = "joining"
    /\ rrc[u] = "elsewhere" => timer[u] = "off" /\ phyId[u] = None
    /\ rrc[u] \in {"idle", "elsewhere", "access"} => rnti[u] = 0
    /\ timer[u] = "contention" => rrc[u] = "access"
    /\ timer[u] = "dedicated" => rrc[u] = "handover"
    /\ rrc[u] = "handover" => id[u] \in Dedicated /\ rnti[u] # 0 /\ ctx[rnti[u]] = "joining"
    /\ phyId[u] # None => /\ phyId[u] = id[u]
                          /\ phyId[u] \in Dedicated => rrc[u] = "handover"
                          /\ phyId[u] \notin Dedicated => phyId[u] < sent
UeFits == \A u \in Ue : Fits(u)

\* Two UEs do not wait for the answer to one preamble of the counter.
IdsDistinct ==
    \A u, v \in Ue :
        phyId[u] # None /\ phyId[u] \notin Dedicated /\ phyId[u] = phyId[v] => u = v

\* RNTIs in use are distinct, and have been handed out.
HeldDistinct == \A u, v \in Ue : Held(u) = Held(v) /\ Held(u) # 0 => u = v
HeldBounded == \A u \in Ue : Held(u) <= last

\* What the gNB keeps: each RNTI has at most one preamble for a handover, which is
\* the one its answer names.
NcFits ==
    \A p \in Dedicated : nc[p] # None =>
        /\ nc[p].rnti <= last
        /\ rapId[nc[p].rnti] \in {p, None}
        /\ \A q \in Dedicated : nc[q] # None /\ nc[q].rnti = nc[p].rnti => p = q
RapFits == \A r \in Rnti : r > last => rapId[r] = None

\* What is on the air: an RNTI names one preamble, that of a handover is for the UE
\* it was allocated to, and any other is new to all UEs, preambles and answers.
IsNew(i, r) ==
    /\ \A v \in Ue : Held(v) # r
    /\ \A d \in Dedicated : nc[d] # None => nc[d].rnti # r
    /\ \A j \in DOMAIN rar : j # i => \A q \in DOMAIN rar[j] : rar[j][q].rnti # r
AnswerFits(i, p) ==
    /\ rar[i][p].rnti <= last
    /\ \A q \in DOMAIN rar[i] : rar[i][q].rnti = rar[i][p].rnti => rar[i][q].id = rar[i][p].id
    /\ rar[i][p].rnti # 0 =>
          /\ rar[i][p].id \notin Dedicated => IsNew(i, rar[i][p].rnti)
          /\ \A u \in Ue : rrc[u] = "handover" /\ id[u] = rar[i][p].id
                              => rnti[u] = rar[i][p].rnti
RarFits == \A i \in DOMAIN rar : \A p \in DOMAIN rar[i] : AnswerFits(i, p)

\* The type of what is on the air, which TypeOK leaves out.
Rar == UNION {[D -> [id : Preamble, rnti : 0 .. MaxRnti]] : D \in SUBSET Preamble}
RarTyped == rar \in Seq(Rar)

IInv ==
    /\ TypeOK /\ RarTyped /\ PreambleKept /\ DedicatedBounded
    /\ UeFits /\ IdsDistinct /\ HeldDistinct /\ HeldBounded
    /\ NcFits /\ RapFits /\ RarFits

-----------------------------------------------------------------------------

LEMMA ConstantFacts ==
    /\ NumIds \in Nat /\ FirstDedicated \in Nat /\ LastDedicated \in Nat /\ MaxSent \in Nat
    /\ MaxRnti \in Nat /\ SrsIndices \in Nat /\ PreambleTransMax \in Nat
    /\ FirstDedicated <= LastDedicated /\ LastDedicated < NumIds
    /\ Dedicated \subseteq Preamble /\ Preamble \subseteq Nat /\ None \notin Preamble
    /\ None \notin [rnti : Rnti, expired : BOOLEAN]
  BY RachAssumption DEF Dedicated, Preamble, Rnti

\* A preamble of the counter is its number, and none of those of handovers.
LEMMA NextId ==
    ASSUME IdsApart, sent \in Nat, sent < MaxSent
    PROVE  /\ sent % NumIds = sent
           /\ sent \in Preamble /\ sent \notin Dedicated
<1>1. sent < NumIds
  BY ConstantFacts DEF IdsApart
<1>2. sent % NumIds = sent
  BY <1>1, ConstantFacts
<1>3. QED
  BY <1>1, <1>2, ConstantFacts DEF IdsApart, Preamble, Dedicated

\* Each UE's own types.
LEMMA UeTypes ==
    ASSUME TypeOK, NEW u \in Ue
    PROVE  /\ rnti[u] \in 0 .. MaxRnti /\ id[u] \in Preamble
           /\ phyId[u] \in Preamble \cup {None} /\ count[u] \in Nat
           /\ command[u] # None => command[u].id \in Dedicated /\ command[u].rnti \in Rnti
           /\ Held(u) \in 0 .. MaxRnti
  BY ConstantFacts DEF TypeOK, Held, Rnti

(***************************************************************************)
(* What a step keeps that leaves certain values as they are.               *)
(***************************************************************************)

LEMMA SameUe ==
    ASSUME TypeOK, NEW v \in Ue, Fits(v), HasPreamble(v), sent' \in Nat, sent <= sent',
           rrc'[v] = rrc[v], id'[v] = id[v], phyId'[v] = phyId[v], timer'[v] = timer[v],
           rnti'[v] = rnti[v], command'[v] = command[v],
           Held(v) # 0 => ctx'[Held(v)] = ctx[Held(v)],
           \A p \in Dedicated :
               (rrc[v] = "handover" \/ command[v] # None) /\ nc[p] # None /\ nc[p].rnti = Held(v)
                   => nc'[p] # None /\ nc'[p].rnti = nc[p].rnti
    PROVE  Fits(v)' /\ HasPreamble(v)' /\ Held(v)' = Held(v)
<1>1. /\ phyId[v] # None => phyId[v] \in Nat
      /\ command[v] # None => command[v].rnti \in Rnti
      /\ rnti[v] \in 0 .. MaxRnti /\ sent \in Nat
  <2>1. phyId[v] # None => phyId[v] \in Nat
    BY UeTypes, ConstantFacts
  <2>2. sent \in Nat
    BY ConstantFacts DEF TypeOK
  <2>3. QED
    BY <2>1, <2>2, UeTypes
<1>2. Held(v)' = Held(v)
  BY DEF Held
<1>3. command[v] # None => ctx'[command[v].rnti] = "joining"
  BY <1>1, ConstantFacts DEF Fits, Held, Rnti
<1>4. rrc[v] = "handover" => ctx'[rnti[v]] = "joining"
  BY <1>1 DEF Fits, Held, TypeOK, Rnti
<1>5. Fits(v)'
  BY <1>1, <1>2, <1>3, <1>4 DEF Fits
<1>6. command[v] # None => command[v].id \in Dedicated /\ command[v].rnti = Held(v)
  BY UeTypes DEF Held
<1>7. rrc[v] = "handover" => id[v] \in Dedicated /\ rnti[v] = Held(v)
  BY DEF Fits, Held
<1>8. HasPreamble(v)'
  BY <1>6, <1>7 DEF HasPreamble
<1>9. QED
  BY <1>2, <1>5, <1>8

\* RNTIs that stay, or are given up.
LEMMA SameHeld ==
    ASSUME IInv, last' \in Nat, last <= last', \A v \in Ue : Held(v)' \in {Held(v), 0}
    PROVE  HeldDistinct' /\ HeldBounded'
<1>1. last \in Nat /\ \A v \in Ue : Held(v) \in Nat
  BY UeTypes, ConstantFacts DEF IInv, TypeOK
<1>2. ASSUME NEW u \in Ue, NEW v \in Ue, Held(u)' = Held(v)', Held(u)' # 0 PROVE u = v
  BY <1>2 DEF IInv, HeldDistinct
<1>3. ASSUME NEW u \in Ue PROVE Held(u)' <= last'
  BY <1>1 DEF IInv, HeldBounded
<1>4. QED
  BY <1>2, <1>3 DEF HeldDistinct, HeldBounded

LEMMA RarTypes ==
    ASSUME RarTyped, NEW i \in DOMAIN rar
    PROVE  /\ DOMAIN rar[i] \subseteq Preamble
           /\ \A p \in DOMAIN rar[i] : /\ rar[i][p].id \in Preamble
                                       /\ rar[i][p].rnti \in 0 .. MaxRnti
<1>1. rar[i] \in Rar
  BY DEF RarTyped
<1>2. PICK D \in SUBSET Preamble : rar[i] \in [D -> [id : Preamble, rnti : 0 .. MaxRnti]]
  BY <1>1 DEF Rar
<1>3. QED
  BY <1>2

\* Answers on the air that stay, while RNTIs come up only anew.
LEMMA SameRar ==
    ASSUME IInv, rar' = rar, last' \in Nat, last <= last',
           \A v \in Ue : Held(v)' \in {Held(v), 0} \/ Held(v)' > last,
           \A d \in Dedicated : nc'[d] # None =>
               \/ nc[d] # None /\ nc'[d].rnti = nc[d].rnti
               \/ nc'[d].rnti > last,
           \A v \in Ue : rrc'[v] = "handover" =>
               \/ rrc[v] = "handover" /\ id'[v] = id[v] /\ rnti'[v] = rnti[v]
               \/ \A i \in DOMAIN rar : \A q \in DOMAIN rar[i] : rar[i][q].id # id'[v]
    PROVE  RarFits'
<1> SUFFICES ASSUME NEW i \in DOMAIN rar, NEW p \in DOMAIN rar[i] PROVE AnswerFits(i, p)'
  BY DEF RarFits
<1> DEFINE r == rar[i][p].rnti
<1>1. AnswerFits(i, p)
  BY DEF IInv, RarFits
<1>2. r \in Nat /\ last \in Nat /\ r <= last
  <2>2. r \in Nat
    BY RarTypes, ConstantFacts DEF IInv
  <2>3. QED
    BY <1>1, <2>2, ConstantFacts DEF IInv, TypeOK, AnswerFits
<1>r. r' = r
  OBVIOUS
<1> HIDE DEF r
<1>3. ASSUME r # 0, IsNew(i, r) PROVE IsNew(i, r)'
  <2>1. \A v \in Ue : Held(v)' # r
    BY <1>2, <1>3 DEF IsNew
  <2>2. \A d \in Dedicated : nc'[d] # None => nc'[d].rnti # r
    BY <1>2, <1>3 DEF IsNew
  <2>3. QED
    BY <1>3, <1>r, <2>1, <2>2 DEF IsNew
<1>4. QED
  BY <1>1, <1>2, <1>3, <1>r DEF AnswerFits, r

\* UEs that move no RNTI, while the gNB at most removes a context.
LEMMA SameGnb ==
    ASSUME IInv, rar' = rar, UNCHANGED gnbVars \/ \E r \in 0 .. MaxRnti : RemoveUe(r),
           \A v \in Ue : Held(v)' \in {Held(v), 0},
           \A v \in Ue : rrc'[v] = "handover" =>
               \/ rrc[v] = "handover" /\ id'[v] = id[v] /\ rnti'[v] = rnti[v]
               \/ \A i \in DOMAIN rar : \A q \in DOMAIN rar[i] : rar[i][q].id # id'[v]
    PROVE  /\ RarTyped' /\ HeldDistinct' /\ HeldBounded'
           /\ NcFits' /\ RapFits' /\ RarFits'
<1>1. /\ last' = last /\ last \in Nat /\ rapId' = rapId
      /\ \A p \in Dedicated : nc'[p] \in {nc[p], None}
  BY ConstantFacts DEF IInv, TypeOK, gnbVars, RemoveUe
<1>2. RarTyped' /\ RapFits'
  BY <1>1 DEF IInv, RarTyped, RapFits
<1>3. HeldDistinct' /\ HeldBounded'
  BY <1>1, SameHeld
<1>4. NcFits'
  BY <1>1 DEF IInv, NcFits
<1>5. RarFits'
  BY <1>1, SameRar
<1>6. QED
  BY <1>2, <1>3, <1>4, <1>5

LEMMA SameIds ==
    ASSUME IdsDistinct, \A v \in Ue : phyId'[v] \in {phyId[v], None}
    PROVE  IdsDistinct'
  BY DEF IdsDistinct

\* What removing a context leaves of the others.
LEMMA Removed ==
    ASSUME TypeOK, NEW r \in 0 .. MaxRnti, RemoveUe(r)
    PROVE  /\ \A q \in Rnti : q # r => ctx'[q] = ctx[q]
           /\ \A p \in Dedicated : nc[p] # None /\ nc[p].rnti # r => nc'[p] = nc[p]
           /\ ctx' \in [Rnti -> {"none", "access", "joining", "switching", "connected"}]
           /\ nc' \in [Dedicated -> [rnti : Rnti, expired : BOOLEAN] \cup {None}]
           /\ heard' \in [Preamble -> 0 .. 2] /\ last' = last /\ rapId' = rapId
  BY DEF TypeOK, RemoveUe, Own

\* RNTIs in use are distinct also without those of commands.
LEMMA Implies == IInv => RachInv
<1> SUFFICES ASSUME IInv PROVE OneUeEach
  BY DEF IInv, RachInv
<1> SUFFICES ASSUME NEW u \in Ue, NEW v \in Ue, rnti[u] = rnti[v], rnti[u] # 0
             PROVE  u = v
  BY DEF OneUeEach
<1>1. Held(u) = rnti[u] /\ Held(v) = rnti[v]
  BY DEF IInv, UeFits, Fits, Held
<1>2. QED
  BY <1>1 DEF IInv, HeldDistinct

-----------------------------------------------------------------------------

LEMMA Starts == Init => IInv
<1> SUFFICES ASSUME Init PROVE IInv
  OBVIOUS
<1>1. TypeOK /\ RarTyped
  BY ConstantFacts DEF Init, TypeOK, RarTyped, Preamble
<1>2. PreambleKept /\ DedicatedBounded /\ UeFits /\ IdsDistinct
  BY DEF Init, PreambleKept, HasPreamble, DedicatedBounded, UeFits, Fits, IdsDistinct
<1>3. HeldDistinct /\ HeldBounded /\ NcFits /\ RapFits /\ RarFits
  BY ConstantFacts DEF Init, HeldDistinct, HeldBounded, Held, NcFits, RapFits, RarFits, Rnti
<1>4. QED
  BY <1>1, <1>2, <1>3 DEF IInv

-----------------------------------------------------------------------------
(* One lemma for each action. *)

LEMMA StartAccessKeeps ==
    ASSUME IdsApart, IInv, NEW u \in Ue, StartAccess(u)
    PROVE  IInv'
<1> DEFINE p == sent % NumIds
<1>0. sent \in Nat /\ sent < MaxSent /\ sent + 1 \in 0 .. MaxSent
  BY ConstantFacts DEF IInv, TypeOK, StartAccess, SendNext
<1>1. /\ p \in Preamble /\ p \notin Dedicated /\ p = sent
      /\ sent \in Nat /\ sent < MaxSent /\ sent + 1 \in 0 .. MaxSent
  BY <1>0, NextId
<1> HIDE DEF p
<1>2. /\ rrc[u] = "idle"
      /\ rrc' = [rrc EXCEPT ![u] = "access"] /\ id' = [id EXCEPT ![u] = p]
      /\ phyId' = [phyId EXCEPT ![u] = p] /\ out' = [out EXCEPT ![u] = @ \cup {p}]
      /\ timer' = [timer EXCEPT ![u] = "contention"] /\ sent' = sent + 1
      /\ UNCHANGED <<rnti, waiting, count, air, ctx, last, nc, heard, rapId, rar, command>>
  BY DEF StartAccess, SendNext, Send, gnbVars, p
<1>3. TypeOK' /\ RarTyped'
  BY <1>1, <1>2 DEF IInv, TypeOK, RarTyped
<1>4. PreambleKept' /\ DedicatedBounded'
  BY <1>2 DEF IInv, TypeOK, PreambleKept, HasPreamble, DedicatedBounded
<1>5. ASSUME NEW v \in Ue PROVE Fits(v)'
  <2>1. Fits(v) /\ Fits(u) /\ id[v] \in Preamble
    BY UeTypes DEF IInv, UeFits
  <2>2. CASE v = u
    <3>1. /\ rrc'[u] = "access" /\ id'[u] = p /\ phyId'[u] = p
          /\ timer'[u] = "contention" /\ sent' = sent + 1
          /\ rnti'[u] = 0 /\ command'[u] = None
      BY <1>2, <2>1 DEF IInv, TypeOK, Fits
    <3>2. QED
      BY <1>1, <2>2, <3>1 DEF Fits
  <2>3. CASE v # u
    <3>1. /\ rrc'[v] = rrc[v] /\ id'[v] = id[v] /\ phyId'[v] = phyId[v]
          /\ timer'[v] = timer[v] /\ sent' = sent + 1
          /\ UNCHANGED <<rnti, command, ctx>>
      BY <1>2, <2>3 DEF IInv, TypeOK
    <3>2. phyId[v] # None => phyId[v] \in Nat
      BY <2>1, ConstantFacts DEF Fits
    <3>3. QED
      BY <1>1, <2>1, <3>1, <3>2 DEF Fits
  <2>4. QED
    BY <2>2, <2>3
<1>6. IdsDistinct'
  BY <1>1, <1>2, UeTypes, ConstantFacts DEF IInv, TypeOK, UeFits, Fits, IdsDistinct
<1>7. HeldDistinct' /\ HeldBounded' /\ NcFits' /\ RapFits'
  BY <1>2 DEF IInv, HeldDistinct, HeldBounded, Held, NcFits, RapFits
<1>8. RarFits'
  BY <1>2 DEF IInv, TypeOK, RarFits, AnswerFits, IsNew, Held
<1>9. QED
  BY <1>3, <1>4, <1>5, <1>6, <1>7, <1>8 DEF IInv, UeFits

LEMMA AccessElsewhereKeeps ==
    ASSUME IInv, AccessElsewhere
    PROVE  IInv'
<1>1. /\ sent' = sent + 1 /\ sent \in Nat /\ sent' \in 0 .. MaxSent
      /\ UNCHANGED <<rrc, rnti, id, phyId, waiting, timer, count, out, air, gnbVars, rar,
                     command>>
  BY ConstantFacts DEF IInv, TypeOK, AccessElsewhere
<1>2. TypeOK' /\ DedicatedBounded'
  BY <1>1 DEF IInv, TypeOK, DedicatedBounded, gnbVars
<1>3. ASSUME NEW v \in Ue PROVE Fits(v)' /\ HasPreamble(v)' /\ Held(v)' = Held(v)
  BY <1>1, <1>3, SameUe DEF IInv, UeFits, PreambleKept, gnbVars
<1>4. IdsDistinct'
  BY <1>1, SameIds DEF IInv
<1>5. RarTyped' /\ HeldDistinct' /\ HeldBounded' /\ NcFits' /\ RapFits' /\ RarFits'
  BY <1>1, <1>3, SameGnb
<1>6. QED
  BY <1>2, <1>3, <1>4, <1>5 DEF IInv, UeFits, PreambleKept

LEMMA StartHandoverKeeps ==
    ASSUME IdsApart, IInv, NEW u \in Ue, StartHandover(u)
    PROVE  IInv'
<1> DEFINE p == command[u].id
<1>1. /\ p \in Dedicated /\ command[u].rnti \in Rnti /\ command[u] # None
  BY UeTypes DEF IInv, StartHandover
<1>2. /\ rrc' = [rrc EXCEPT ![u] = "handover"] /\ rnti' = [rnti EXCEPT ![u] = command[u].rnti]
      /\ count' = [count EXCEPT ![u] = 0] /\ id' = [id EXCEPT ![u] = p]
      /\ phyId' = [phyId EXCEPT ![u] = p] /\ out' = [out EXCEPT ![u] = @ \cup {p}]
      /\ timer' = [timer EXCEPT ![u] = "dedicated"] /\ command' = [command EXCEPT ![u] = None]
      /\ UNCHANGED <<waiting, air, sent, gnbVars, rar>>
      /\ \A i \in DOMAIN rar : \A q \in DOMAIN rar[i] : rar[i][q].id # p
  BY DEF StartHandover, Send, Settled
<1>h. Fits(u) /\ HasPreamble(u) /\ sent \in Nat
  BY ConstantFacts DEF IInv, UeFits, PreambleKept, TypeOK
<1> HIDE DEF p
<1>3. TypeOK'
  BY <1>1, <1>2, ConstantFacts DEF IInv, TypeOK, gnbVars, Rnti
<1>4. DedicatedBounded'
  BY <1>2, ConstantFacts DEF IInv, TypeOK, DedicatedBounded
<1>5. /\ rrc'[u] = "handover" /\ id'[u] = p /\ phyId'[u] = p /\ timer'[u] = "dedicated"
      /\ rnti'[u] = command[u].rnti /\ command'[u] = None
  BY <1>2 DEF IInv, TypeOK
<1>6. Fits(u)' /\ HasPreamble(u)' /\ Held(u)' = Held(u)
  <2>1. nc[p] # None /\ nc[p].rnti = command[u].rnti
    BY <1>1, <1>h DEF HasPreamble, p
  <2>2. ctx[command[u].rnti] = "joining" /\ command[u].rnti # 0
    BY <1>1, <1>h DEF Fits, Rnti
  <2>3. QED
    BY <1>1, <1>2, <1>5, <2>1, <2>2 DEF Fits, HasPreamble, Held, gnbVars
<1>7. ASSUME NEW v \in Ue, v # u PROVE Fits(v)' /\ HasPreamble(v)' /\ Held(v)' = Held(v)
  <2>1. /\ rrc'[v] = rrc[v] /\ id'[v] = id[v] /\ phyId'[v] = phyId[v] /\ timer'[v] = timer[v]
        /\ rnti'[v] = rnti[v] /\ command'[v] = command[v] /\ sent' = sent
        /\ ctx' = ctx /\ nc' = nc
    BY <1>2, <1>7 DEF IInv, TypeOK, gnbVars
  <2>2. QED
    BY <1>h, <2>1, SameUe DEF IInv, UeFits, PreambleKept
<1>8. IdsDistinct'
  BY <1>1, <1>2 DEF IInv, TypeOK, IdsDistinct
<1>9. RarTyped' /\ HeldDistinct' /\ HeldBounded' /\ NcFits' /\ RapFits' /\ RarFits'
  <2>1. \A v \in Ue : Held(v)' = Held(v)
    BY <1>6, <1>7
  <2>2. \A v \in Ue : rrc'[v] = "handover" =>
               \/ rrc[v] = "handover" /\ id'[v] = id[v] /\ rnti'[v] = rnti[v]
               \/ \A i \in DOMAIN rar : \A q \in DOMAIN rar[i] : rar[i][q].id # id'[v]
    BY <1>2, <1>5 DEF IInv, TypeOK
  <2>3. QED
    BY <1>2, <2>1, <2>2, SameGnb
<1>10. QED
  BY <1>3, <1>4, <1>6, <1>7, <1>8, <1>9 DEF IInv, UeFits, PreambleKept

\* A step that touches neither the variables of Fits nor the gNB.
LEMMA OthersKeep ==
    ASSUME IInv, TypeOK', DedicatedBounded',
           UNCHANGED <<rrc, rnti, id, phyId, timer, sent, command, ctx, last, nc, rapId, rar>>
    PROVE  IInv'
<1>1. sent \in Nat /\ sent' = sent /\ gnbVars' = <<ctx, last, nc, heard', rapId>>
  BY ConstantFacts DEF IInv, TypeOK, gnbVars
<1>2. UeFits' /\ PreambleKept' /\ IdsDistinct'
  BY DEF IInv, UeFits, Fits, PreambleKept, HasPreamble, IdsDistinct
<1>3. RarTyped' /\ HeldDistinct' /\ HeldBounded' /\ NcFits' /\ RapFits' /\ RarFits'
  BY DEF IInv, RarTyped, HeldDistinct, HeldBounded, Held, NcFits, RapFits, RarFits, AnswerFits,
         IsNew
<1>4. QED
  BY <1>2, <1>3 DEF IInv

LEMMA StartWaitingKeeps ==
    ASSUME IInv, NEW u \in Ue, StartWaitingForRaResponse(u)
    PROVE  IInv'
<1>1. TypeOK'
  BY DEF IInv, TypeOK, StartWaitingForRaResponse, gnbVars
<1>2. DedicatedBounded'
  BY DEF IInv, DedicatedBounded, StartWaitingForRaResponse
<1>3. QED
  BY <1>1, <1>2, OthersKeep DEF StartWaitingForRaResponse, gnbVars

LEMMA ReceivePreambleKeeps ==
    ASSUME IInv, NEW u \in Ue, NEW p \in Preamble, ReceiveRachPreamble(u, p)
    PROVE  IInv'
<1>1. TypeOK'
  BY DEF IInv, TypeOK, ReceiveRachPreamble
<1>2. DedicatedBounded'
  BY DEF IInv, DedicatedBounded, ReceiveRachPreamble
<1>3. QED
  BY <1>1, <1>2, OthersKeep DEF ReceiveRachPreamble

LEMMA AbortKeeps ==
    ASSUME IInv, NEW h, Abort(h)
    PROVE  IInv'
<1>1. TypeOK'
  BY DEF IInv, TypeOK, Abort, ueVars, gnbVars
<1>2. DedicatedBounded'
  BY DEF IInv, DedicatedBounded, Abort, ueVars
<1>3. QED
  BY <1>1, <1>2, OthersKeep DEF Abort, ueVars, gnbVars

\* What the end of an access or a connection leaves: RNTIs are distinct, so that no
\* other UE's context or preamble is removed.
LEMMA LeaveKeeps ==
    ASSUME IInv, NEW u \in Ue, NEW removed \in BOOLEAN, Leave(u, removed),
           rrc[u] # "elsewhere", waiting' \in [Ue -> BOOLEAN], count' \in [Ue -> Nat],
           \A v \in Ue : v # u => count'[v] = count[v],
           UNCHANGED <<rar, command>>
    PROVE  IInv'
<1>1. /\ rrc' = [rrc EXCEPT ![u] = "idle"] /\ rnti' = [rnti EXCEPT ![u] = 0]
      /\ timer' = [timer EXCEPT ![u] = "off"] /\ phyId' = [phyId EXCEPT ![u] = None]
      /\ UNCHANGED <<id, out, air, sent, rar, command>>
  BY DEF Leave
<1>2. sent \in Nat /\ Fits(u) /\ HasPreamble(u) /\ command[u] = None /\ Held(u) = rnti[u]
  BY ConstantFacts DEF IInv, TypeOK, UeFits, Fits, PreambleKept, Held
<1>3. rnti[u] \in 0 .. MaxRnti /\ (UNCHANGED gnbVars \/ RemoveUe(rnti[u]))
  BY UeTypes DEF IInv, Leave
<1>4. /\ \A q \in Rnti : q # rnti[u] => ctx'[q] = ctx[q]
      /\ \A p \in Dedicated : nc[p] # None /\ nc[p].rnti # rnti[u] => nc'[p] = nc[p]
      /\ ctx' \in [Rnti -> {"none", "access", "joining", "switching", "connected"}]
      /\ nc' \in [Dedicated -> [rnti : Rnti, expired : BOOLEAN] \cup {None}]
      /\ heard' \in [Preamble -> 0 .. 2] /\ last' = last /\ rapId' = rapId
  <2>1. CASE UNCHANGED gnbVars
    BY <2>1 DEF IInv, TypeOK, gnbVars
  <2>2. CASE RemoveUe(rnti[u])
    BY <1>3, <2>2, Removed DEF IInv
  <2>3. QED
    BY <1>3, <2>1, <2>2
<1>5. TypeOK'
  BY <1>1, <1>4, ConstantFacts DEF IInv, TypeOK
<1>6. /\ rrc'[u] = "idle" /\ rnti'[u] = 0 /\ timer'[u] = "off" /\ phyId'[u] = None
      /\ command'[u] = None
  BY <1>1, <1>2 DEF IInv, TypeOK
<1>7. Fits(u)' /\ HasPreamble(u)' /\ Held(u)' = 0
  BY <1>6 DEF Fits, HasPreamble, Held
<1>8. ASSUME NEW v \in Ue, v # u
      PROVE  Fits(v)' /\ HasPreamble(v)' /\ Held(v)' = Held(v) /\ count'[v] = count[v]
             /\ timer'[v] = timer[v] /\ phyId'[v] = phyId[v]
             /\ rrc'[v] = rrc[v] /\ id'[v] = id[v] /\ rnti'[v] = rnti[v]
  <2>1. /\ rrc'[v] = rrc[v] /\ id'[v] = id[v] /\ phyId'[v] = phyId[v] /\ timer'[v] = timer[v]
        /\ rnti'[v] = rnti[v] /\ command'[v] = command[v] /\ sent' = sent
    BY <1>1, <1>8 DEF IInv, TypeOK
  <2>2. Held(v) # 0 => Held(v) # rnti[u] /\ Held(v) \in Rnti
    BY <1>2, <1>8, UeTypes, ConstantFacts DEF IInv, HeldDistinct, Rnti
  <2>3. \A p \in Dedicated : nc[p] # None => nc[p].rnti \in Rnti /\ nc[p].rnti # 0
    BY ConstantFacts DEF IInv, TypeOK, Rnti
  <2>4. /\ Held(v) # 0 => ctx'[Held(v)] = ctx[Held(v)]
        /\ \A p \in Dedicated : nc[p] # None /\ nc[p].rnti = Held(v) =>
               nc'[p] # None /\ nc'[p].rnti = nc[p].rnti
    BY <1>4, <2>2, <2>3
  <2>5. QED
    BY <1>2, <1>8, <2>1, <2>4, SameUe DEF IInv, UeFits, PreambleKept
<1>9. DedicatedBounded'
  BY <1>6, <1>8 DEF IInv, DedicatedBounded
<1>10. IdsDistinct'
  BY <1>6, <1>8, SameIds DEF IInv
<1>11. RarTyped' /\ HeldDistinct' /\ HeldBounded' /\ NcFits' /\ RapFits' /\ RarFits'
  <2>1. \A v \in Ue : Held(v)' \in {Held(v), 0}
    BY <1>7, <1>8
  <2>2. \A v \in Ue : rrc'[v] = "handover" =>
               rrc[v] = "handover" /\ id'[v] = id[v] /\ rnti'[v] = rnti[v]
    BY <1>6, <1>8
  <2>3. QED
    BY <1>1, <1>3, <2>1, <2>2, SameGnb
<1>12. QED
  BY <1>5, <1>7, <1>8, <1>9, <1>10, <1>11 DEF IInv, UeFits, PreambleKept

LEMMA RadioLinkFailureKeeps ==
    ASSUME IInv, NEW u \in Ue, RadioLinkFailureDetected(u)
    PROVE  IInv'
  BY LeaveKeeps DEF IInv, TypeOK, RadioLinkFailureDetected

LEMMA DisconnectKeeps ==
    ASSUME IInv, NEW u \in Ue, Disconnect(u)
    PROVE  IInv'
  BY LeaveKeeps DEF IInv, TypeOK, Disconnect

\* A step of one UE that is not waiting for a context: it gives up its RNTI or keeps it.
LEMMA OneUeKeeps ==
    ASSUME IInv, NEW u \in Ue, TypeOK', DedicatedBounded',
           sent' = sent, UNCHANGED <<gnbVars, rar>>,
           \A v \in Ue : v # u => /\ rrc'[v] = rrc[v] /\ id'[v] = id[v]
                                  /\ phyId'[v] = phyId[v] /\ timer'[v] = timer[v]
                                  /\ rnti'[v] = rnti[v] /\ command'[v] = command[v],
           Fits(u)', HasPreamble(u)', Held(u)' \in {Held(u), 0},
           phyId'[u] \in {phyId[u], None},
           rrc'[u] = "handover" =>
               rrc[u] = "handover" /\ id'[u] = id[u] /\ rnti'[u] = rnti[u]
    PROVE  IInv'
<1>1. sent \in Nat
  BY ConstantFacts DEF IInv, TypeOK
<1>2. ASSUME NEW v \in Ue, v # u PROVE Fits(v)' /\ HasPreamble(v)' /\ Held(v)' = Held(v)
  BY <1>1, <1>2, SameUe DEF IInv, UeFits, PreambleKept, gnbVars
<1>3. IdsDistinct'
  BY SameIds DEF IInv
<1>4. RarTyped' /\ HeldDistinct' /\ HeldBounded' /\ NcFits' /\ RapFits' /\ RarFits'
  <2>1. \A v \in Ue : Held(v)' \in {Held(v), 0}
    BY <1>2
  <2>2. \A v \in Ue : rrc'[v] = "handover" =>
               rrc[v] = "handover" /\ id'[v] = id[v] /\ rnti'[v] = rnti[v]
    OBVIOUS
  <2>3. QED
    BY <2>1, <2>2, SameGnb
<1>5. QED
  BY <1>2, <1>3, <1>4 DEF IInv, UeFits, PreambleKept

LEMMA ConnectionTimeoutKeeps ==
    ASSUME IInv, NEW u \in Ue, ConnectionTimeout(u)
    PROVE  IInv'
<1>1. /\ rrc[u] = "connecting" /\ rrc' = [rrc EXCEPT ![u] = "idle"]
      /\ rnti' = [rnti EXCEPT ![u] = 0]
      /\ UNCHANGED <<id, phyId, waiting, timer, count, out, air, sent, gnbVars, rar, command>>
  BY DEF ConnectionTimeout
<1>2. TypeOK' /\ DedicatedBounded'
  BY <1>1, ConstantFacts DEF IInv, TypeOK, DedicatedBounded, gnbVars
<1>3. Fits(u) /\ command[u] = None /\ timer[u] = "off" /\ rrc'[u] = "idle" /\ rnti'[u] = 0
  BY <1>1 DEF IInv, TypeOK, UeFits, Fits
<1>4. Fits(u)' /\ HasPreamble(u)' /\ Held(u)' = 0
  BY <1>1, <1>3 DEF Fits, HasPreamble, Held
<1>5. \A v \in Ue : v # u => rrc'[v] = rrc[v] /\ rnti'[v] = rnti[v]
  BY <1>1 DEF IInv, TypeOK
<1>6. QED
  BY <1>1, <1>2, <1>3, <1>4, <1>5, OneUeKeeps

LEMMA FindsCellKeeps ==
    ASSUME IInv, NEW u \in Ue, FindsCell(u)
    PROVE  IInv'
<1>1. /\ rrc[u] = "elsewhere" /\ rrc' = [rrc EXCEPT ![u] = "idle"]
      /\ command' = [command EXCEPT ![u] = None]
      /\ UNCHANGED <<rnti, id, phyId, waiting, timer, count, out, air, sent, gnbVars, rar>>
  BY DEF FindsCell
<1>2. TypeOK' /\ DedicatedBounded'
  BY <1>1 DEF IInv, TypeOK, DedicatedBounded, gnbVars
<1>3. Fits(u) /\ command'[u] = None /\ rrc'[u] = "idle"
  BY <1>1 DEF IInv, TypeOK, UeFits
<1>4. Fits(u)' /\ HasPreamble(u)' /\ Held(u)' = 0
  BY <1>1, <1>3 DEF Fits, HasPreamble, Held
<1>5. \A v \in Ue : v # u => rrc'[v] = rrc[v] /\ command'[v] = command[v]
  BY <1>1 DEF IInv, TypeOK
<1>6. QED
  BY <1>1, <1>2, <1>3, <1>4, <1>5, OneUeKeeps

LEMMA RaResponseTimeoutKeeps ==
    ASSUME IdsApart, IInv, NEW u \in Ue, RaResponseTimeout(u)
    PROVE  IInv'
<1> DEFINE n == Counted(u)
           over == n = PreambleTransMax + 1
<1>1. n \in Nat /\ n = count[u] + 1 /\ sent \in Nat /\ Fits(u) /\ HasPreamble(u)
  BY UeTypes, ConstantFacts DEF IInv, TypeOK, Counted, UeFits, PreambleKept
<1>2. CASE over /\ rrc[u] \notin {"access", "handover"}
  BY <1>2, AbortKeeps DEF RaResponseTimeout
<1>3. CASE ~(over /\ rrc[u] \notin {"access", "handover"})
  <2>1. /\ count' = [count EXCEPT ![u] = n] /\ waiting' = [waiting EXCEPT ![u] = FALSE]
        /\ UNCHANGED <<rar, command>> /\ timer[u] # "off"
    BY <1>3 DEF RaResponseTimeout
  <2>2. /\ count' \in [Ue -> Nat] /\ waiting' \in [Ue -> BOOLEAN] /\ count'[u] = n
        /\ \A v \in Ue : v # u => count'[v] = count[v]
    BY <1>1, <2>1 DEF IInv, TypeOK
  <2>3. CASE over /\ Fails(u)
    <3>1. CASE rrc[u] = "access" /\ rrc' = [rrc EXCEPT ![u] = "idle"]
               /\ timer' = [timer EXCEPT ![u] = "off"]
               /\ UNCHANGED <<rnti, phyId, id, out, air, sent, gnbVars>>
      <4>1. /\ rrc'[u] = "idle" /\ timer'[u] = "off" /\ rnti'[u] = 0 /\ command'[u] = None
            /\ rnti[u] = 0 /\ phyId'[u] = phyId[u] /\ id'[u] = id[u] /\ sent' = sent
            /\ command[u] = None
        BY <1>1, <2>1, <3>1 DEF IInv, TypeOK, Fits
      <4>2. Fits(u)' /\ HasPreamble(u)' /\ Held(u)' = 0
        BY <1>1, <3>1, <4>1 DEF Fits, HasPreamble, Held
      <4>3. TypeOK'
        BY <2>1, <2>2, <3>1 DEF IInv, TypeOK, gnbVars
      <4>4. \A v \in Ue : v # u => rrc'[v] = rrc[v] /\ timer'[v] = timer[v]
        BY <3>1 DEF IInv, TypeOK
      <4>5. DedicatedBounded'
        BY <2>2, <4>1, <4>4 DEF IInv, DedicatedBounded
      <4>6. QED
        BY <2>1, <3>1, <4>1, <4>2, <4>3, <4>4, <4>5, OneUeKeeps
    <3>2. CASE rrc[u] = "handover" /\ Leave(u, TRUE)
      BY <2>1, <2>2, <3>2, LeaveKeeps
    <3>3. QED
      BY <2>3, <3>1, <3>2 DEF Fails
  <2>4. CASE /\ ~over /\ timer[u] = "contention" /\ SendNext(u)
             /\ UNCHANGED <<rrc, rnti, air, gnbVars>>
    <3> DEFINE p == sent % NumIds
    <3>0. sent < MaxSent /\ sent + 1 \in 0 .. MaxSent
      BY <1>1, <2>4, ConstantFacts DEF SendNext
    <3>1. p \in Preamble /\ p \notin Dedicated /\ p = sent
      BY <1>1, <3>0, NextId
    <3>2. /\ id' = [id EXCEPT ![u] = p] /\ phyId' = [phyId EXCEPT ![u] = p]
          /\ out' = [out EXCEPT ![u] = @ \cup {p}]
          /\ timer' = [timer EXCEPT ![u] = "contention"] /\ sent' = sent + 1
      BY <2>4 DEF SendNext, Send
    <3> HIDE DEF p
    <3>3. TypeOK'
      BY <2>1, <2>2, <2>4, <3>0, <3>1, <3>2 DEF IInv, TypeOK, gnbVars
    <3>4. /\ rrc'[u] = "access" /\ id'[u] = p /\ phyId'[u] = p /\ rrc[u] = "access"
          /\ timer'[u] = "contention" /\ sent' = sent + 1
          /\ rnti'[u] = 0 /\ rnti[u] = 0 /\ command'[u] = None /\ command[u] = None
      BY <1>1, <2>1, <2>4, <3>2 DEF IInv, TypeOK, Fits
    <3>5. Fits(u)' /\ HasPreamble(u)' /\ Held(u)' = Held(u)
      BY <1>1, <3>1, <3>4 DEF Fits, HasPreamble, Held
    <3>6. ASSUME NEW v \in Ue, v # u
          PROVE  /\ Fits(v)' /\ HasPreamble(v)' /\ Held(v)' = Held(v)
                 /\ timer'[v] = timer[v] /\ phyId'[v] = phyId[v]
                 /\ rrc'[v] = rrc[v] /\ id'[v] = id[v] /\ rnti'[v] = rnti[v]
      <4>1. /\ rrc'[v] = rrc[v] /\ id'[v] = id[v] /\ phyId'[v] = phyId[v]
            /\ timer'[v] = timer[v] /\ rnti'[v] = rnti[v] /\ command'[v] = command[v]
            /\ ctx' = ctx /\ nc' = nc
        BY <2>1, <2>4, <3>2, <3>6 DEF IInv, TypeOK, gnbVars
      <4>2. QED
        BY <1>1, <3>0, <3>2, <3>6, <4>1, SameUe, ConstantFacts DEF IInv, UeFits, PreambleKept
    <3>7. DedicatedBounded'
      BY <2>2, <3>4, <3>6 DEF IInv, DedicatedBounded
    <3>8. IdsDistinct'
      <4>1. \A v \in Ue : v # u /\ phyId[v] # None /\ phyId[v] \notin Dedicated => phyId[v] # sent
        BY <1>1, UeTypes, ConstantFacts DEF IInv, UeFits, Fits
      <4>2. QED
        BY <3>1, <3>4, <3>6, <4>1 DEF IInv, IdsDistinct
    <3>9. RarTyped' /\ HeldDistinct' /\ HeldBounded' /\ NcFits' /\ RapFits' /\ RarFits'
      <4>1. \A v \in Ue : Held(v)' \in {Held(v), 0}
        BY <3>5, <3>6
      <4>2. \A v \in Ue : rrc'[v] = "handover" =>
                rrc[v] = "handover" /\ id'[v] = id[v] /\ rnti'[v] = rnti[v]
        BY <3>4, <3>6
      <4>3. QED
        BY <2>1, <2>4, <4>1, <4>2, SameGnb
    <3>10. QED
      BY <3>3, <3>5, <3>6, <3>7, <3>8, <3>9 DEF IInv, UeFits, PreambleKept
  <2>5. CASE /\ ~over /\ timer[u] = "dedicated" /\ Send(u, id[u], "dedicated")
             /\ UNCHANGED <<rrc, rnti, air, sent, gnbVars>>
    <3>1. /\ id' = [id EXCEPT ![u] = id[u]] /\ phyId' = [phyId EXCEPT ![u] = id[u]]
          /\ out' = [out EXCEPT ![u] = @ \cup {id[u]}]
          /\ timer' = [timer EXCEPT ![u] = "dedicated"]
      BY <2>5 DEF Send
    <3>2. id' = id /\ timer' = timer
      BY <2>5, <3>1 DEF IInv, TypeOK
    <3>3. id[u] \in Preamble
      BY UeTypes DEF IInv
    <3>4. TypeOK'
      BY <2>1, <2>2, <2>5, <3>1, <3>2, <3>3 DEF IInv, TypeOK, gnbVars
    <3>5. phyId'[u] = id[u] /\ \A v \in Ue : v # u => phyId'[v] = phyId[v]
      BY <3>1 DEF IInv, TypeOK
    <3>6. rrc[u] = "handover" /\ id[u] \in Dedicated
      BY <1>1, <2>5 DEF Fits
    <3>7. DedicatedBounded'
      <4>1. count[u] <= PreambleTransMax
        BY <2>5 DEF IInv, DedicatedBounded
      <4>2. n <= PreambleTransMax
        <5>1. PreambleTransMax \in Nat /\ count[u] \in Nat /\ n = count[u] + 1
          BY <1>1, UeTypes, ConstantFacts DEF IInv
        <5>2. n # PreambleTransMax + 1
          BY <2>5
        <5>3. QED
          BY <4>1, <5>1, <5>2
      <4>3. ASSUME NEW v \in Ue, timer[v] = "dedicated" PROVE count'[v] <= PreambleTransMax
        <5>1. CASE v = u
          BY <2>2, <4>2, <5>1
        <5>2. CASE v # u
          BY <2>2, <4>3, <5>2 DEF IInv, DedicatedBounded
        <5>3. QED
          BY <5>1, <5>2
      <4>4. QED
        BY <3>2, <4>3 DEF DedicatedBounded
    <3>8. ASSUME NEW v \in Ue PROVE Fits(v)' /\ HasPreamble(v)' /\ Held(v)' = Held(v)
      <4>1. CASE v = u
        BY <1>1, <2>1, <2>5, <3>2, <3>5, <3>6, <4>1 DEF Fits, HasPreamble, Held, gnbVars
      <4>2. CASE v # u
        BY <1>1, <2>1, <2>5, <3>2, <3>5, <4>2, SameUe
           DEF IInv, UeFits, PreambleKept, gnbVars
      <4>3. QED
        BY <4>1, <4>2
    <3>9. IdsDistinct'
      BY <3>5, <3>6 DEF IInv, IdsDistinct
    <3>10. RarTyped' /\ HeldDistinct' /\ HeldBounded' /\ NcFits' /\ RapFits' /\ RarFits'
      BY <2>1, <2>5, <3>2, <3>8, SameGnb
    <3>11. QED
      BY <3>4, <3>7, <3>8, <3>9, <3>10 DEF IInv, UeFits, PreambleKept
  <2>6. QED
    BY <1>3, <2>3, <2>4, <2>5 DEF RaResponseTimeout
<1>4. QED
  BY <1>2, <1>3

-----------------------------------------------------------------------------
(* The gNB's steps. *)

\* A step that changes contexts and preambles only for RNTIs no UE is about to use.
LEMMA GnbKeeps ==
    ASSUME IInv, UNCHANGED <<rnti, id, phyId, waiting, timer, count, out, air, sent, last,
                             rapId, rar, command>>,
           rrc' \in [Ue -> {"idle", "elsewhere", "access", "handover", "connecting",
                            "completing", "connected"}],
           ctx' \in [Rnti -> {"none", "access", "joining", "switching", "connected"}],
           nc' \in [Dedicated -> [rnti : Rnti, expired : BOOLEAN] \cup {None}],
           heard' \in [Preamble -> 0 .. 2],
           \A v \in Ue : \/ rrc'[v] = rrc[v]
                         \/ rrc[v] \in {"connecting", "completing"} /\ rrc'[v] = "connected",
           \A v \in Ue : rrc[v] = "handover" \/ command[v] # None => ctx'[Held(v)] = ctx[Held(v)],
           \A p \in Dedicated : nc'[p] # None => nc[p] # None /\ nc'[p].rnti = nc[p].rnti,
           \A v \in Ue, p \in Dedicated :
               (rrc[v] = "handover" \/ command[v] # None) /\ nc[p] # None /\ nc[p].rnti = Held(v)
                   => nc'[p] # None
    PROVE  IInv'
<1>1. TypeOK' /\ RarTyped' /\ DedicatedBounded'
  BY DEF IInv, TypeOK, RarTyped, DedicatedBounded
<1>2. ASSUME NEW v \in Ue PROVE Fits(v)' /\ HasPreamble(v)' /\ Held(v)' = Held(v)
  <2>1. /\ Fits(v) /\ HasPreamble(v)
        /\ command[v] # None => command[v].id \in Dedicated /\ command[v].rnti = Held(v)
        /\ rrc[v] = "handover" => id[v] \in Dedicated /\ command[v] = None /\ rnti[v] = Held(v)
    BY UeTypes DEF IInv, UeFits, Fits, PreambleKept, Held
  <2>2. Held(v)' = Held(v)
    BY DEF Held
  <2>3. Fits(v)'
    BY <2>1 DEF Fits
  <2>4. HasPreamble(v)'
    BY <2>1 DEF HasPreamble
  <2>5. QED
    BY <2>2, <2>3, <2>4
<1>3. IdsDistinct'
  BY SameIds DEF IInv
<1>4. last \in Nat /\ last' = last
  BY ConstantFacts DEF IInv, TypeOK
<1>5. HeldDistinct' /\ HeldBounded'
  BY <1>2, <1>4, SameHeld
<1>6. NcFits' /\ RapFits'
  BY DEF IInv, NcFits, RapFits
<1>7. RarFits'
  BY <1>2, <1>4, SameRar
<1>8. QED
  BY <1>1, <1>2, <1>3, <1>5, <1>6, <1>7 DEF IInv, UeFits, PreambleKept

LEMMA RecvFirstMessageKeeps ==
    ASSUME IInv, NEW u \in Ue, RecvFirstMessage(u)
    PROVE  IInv'
<1>1. CASE ctx[rnti[u]] \notin Expecting(rrc[u])
  BY <1>1, AbortKeeps DEF RecvFirstMessage
<1>2. CASE ctx[rnti[u]] \in Expecting(rrc[u])
  <2>1. /\ rrc[u] \in {"connecting", "completing"} /\ rnti[u] \in Rnti
        /\ rrc' = [rrc EXCEPT ![u] = "connected"]
        /\ ctx' = [ctx EXCEPT ![rnti[u]] = IF @ = "joining" THEN "switching" ELSE "connected"]
        /\ UNCHANGED <<rnti, id, phyId, waiting, timer, count, out, air, sent, last, nc, heard,
                       rapId, rar, command>>
    BY <1>2 DEF RecvFirstMessage, Contexts
  <2>2. Held(u) = rnti[u] /\ rnti[u] # 0 /\ command[u] = None
    BY <2>1, ConstantFacts DEF IInv, UeFits, Fits, Held, Rnti
  <2>3. \A v \in Ue : v # u => Held(v) # rnti[u]
    BY <2>2 DEF IInv, HeldDistinct
  <2>4. ASSUME NEW v \in Ue, rrc[v] = "handover" \/ command[v] # None
        PROVE  ctx'[Held(v)] = ctx[Held(v)]
    BY <2>1, <2>2, <2>3, <2>4 DEF IInv, TypeOK
  <2>5. ctx' \in [Rnti -> {"none", "access", "joining", "switching", "connected"}]
    BY <2>1 DEF IInv, TypeOK
  <2>6. /\ rrc' \in [Ue -> {"idle", "elsewhere", "access", "handover", "connecting",
                            "completing", "connected"}]
        /\ \A v \in Ue : \/ rrc'[v] = rrc[v]
                         \/ rrc[v] \in {"connecting", "completing"} /\ rrc'[v] = "connected"
    BY <2>1 DEF IInv, TypeOK
  <2>7. QED
    BY <2>1, <2>4, <2>5, <2>6, GnbKeeps DEF IInv, TypeOK
<1>3. QED
  BY <1>1, <1>2

LEMMA PathSwitchedKeeps ==
    ASSUME IInv, NEW r \in Rnti, PathSwitched(r)
    PROVE  IInv'
<1>1. /\ ctx[r] = "switching" /\ ctx' = [ctx EXCEPT ![r] = "connected"]
      /\ UNCHANGED <<ueVars, last, nc, heard, rapId, rar, command>>
  BY DEF PathSwitched
<1>2. ASSUME NEW v \in Ue, rrc[v] = "handover" \/ command[v] # None
      PROVE  ctx'[Held(v)] = ctx[Held(v)]
  <2>1. ctx[Held(v)] = "joining"
    BY <1>2 DEF IInv, UeFits, Fits, Held
  <2>2. QED
    BY <1>1, <2>1 DEF IInv, TypeOK
<1>3. ctx' \in [Rnti -> {"none", "access", "joining", "switching", "connected"}]
  BY <1>1 DEF IInv, TypeOK
<1>4. QED
  BY <1>1, <1>2, <1>3, GnbKeeps DEF IInv, TypeOK, ueVars

LEMMA ExpireKeeps ==
    ASSUME IInv, NEW p \in Dedicated, Expire(p)
    PROVE  IInv'
<1>1. /\ nc[p] # None /\ nc' = [nc EXCEPT ![p].expired = TRUE]
      /\ UNCHANGED <<ueVars, ctx, last, heard, rapId, rar, command>>
  BY DEF Expire
<1>2. nc[p] \in [rnti : Rnti, expired : BOOLEAN]
  BY <1>1 DEF IInv, TypeOK
<1> DEFINE e == [nc[p] EXCEPT !.expired = TRUE]
<1>3. /\ nc' = [nc EXCEPT ![p] = e]
      /\ e \in [rnti : Rnti, expired : BOOLEAN] /\ e.rnti = nc[p].rnti /\ e # None
  BY <1>1, <1>2, ConstantFacts
<1> HIDE DEF e
<1>4. /\ nc' \in [Dedicated -> [rnti : Rnti, expired : BOOLEAN] \cup {None}]
      /\ \A q \in Dedicated : nc'[q] # None => nc[q] # None /\ nc'[q].rnti = nc[q].rnti
      /\ \A q \in Dedicated : nc[q] # None => nc'[q] # None
  BY <1>1, <1>3 DEF IInv, TypeOK
<1>5. QED
  BY <1>1, <1>4, GnbKeeps DEF IInv, TypeOK, ueVars

LEMMA ContextTimeoutKeeps ==
    ASSUME PatientJoining, IInv, NEW r \in Rnti, ContextTimeout(r)
    PROVE  IInv'
<1>1. /\ ctx[r] = "access" \/ (ctx[r] = "joining" /\ ~Joining(r))
      /\ RemoveUe(r) /\ UNCHANGED <<ueVars, rar, command>>
  BY DEF ContextTimeout
<1>2. r \in 0 .. MaxRnti
  BY ConstantFacts DEF Rnti
<1>3. ASSUME NEW v \in Ue, rrc[v] = "handover" \/ command[v] # None
      PROVE  Held(v) \in Rnti /\ Held(v) # r
  <2>1. Held(v) \in Rnti /\ ctx[Held(v)] = "joining"
    BY <1>3, UeTypes, ConstantFacts DEF IInv, UeFits, Fits, Held, Rnti
  <2>2. Joining(Held(v))
    BY <1>3 DEF IInv, UeFits, Fits, Held, Joining
  <2>3. QED
    BY <1>1, <2>1, <2>2
<1>4. /\ \A q \in Rnti : q # r => ctx'[q] = ctx[q]
      /\ \A p \in Dedicated : nc[p] # None /\ nc[p].rnti # r => nc'[p] = nc[p]
      /\ ctx' \in [Rnti -> {"none", "access", "joining", "switching", "connected"}]
      /\ nc' \in [Dedicated -> [rnti : Rnti, expired : BOOLEAN] \cup {None}]
      /\ heard' \in [Preamble -> 0 .. 2] /\ last' = last /\ rapId' = rapId
  BY <1>1, <1>2, Removed DEF IInv
<1>5. \A p \in Dedicated : nc'[p] # None => nc[p] # None /\ nc'[p].rnti = nc[p].rnti
  BY <1>1 DEF RemoveUe
<1>6. \A v \in Ue : rrc[v] = "handover" \/ command[v] # None => ctx'[Held(v)] = ctx[Held(v)]
  BY <1>3, <1>4
<1>7. \A v \in Ue, p \in Dedicated :
          (rrc[v] = "handover" \/ command[v] # None) /\ nc[p] # None /\ nc[p].rnti = Held(v)
              => nc'[p] # None
  BY <1>3, <1>4
<1>8. QED
  BY <1>1, <1>4, <1>5, <1>6, <1>7, GnbKeeps DEF IInv, TypeOK, ueVars

LEMMA AdmitHandoverKeeps ==
    ASSUME IInv, NEW u \in Ue, AdmitHandover(u)
    PROVE  IInv'
<1> DEFINE r == last + 1
<1>1. /\ rrc[u] = "elsewhere" /\ command[u] = None /\ last' = r /\ last < MaxRnti
      /\ UNCHANGED <<ueVars, heard, rapId, rar>>
  BY DEF AdmitHandover
<1>2. /\ last \in Nat /\ last + 1 \in 0 .. MaxRnti /\ r \in Rnti /\ r # 0 /\ r = last + 1
      /\ sent \in Nat /\ Fits(u)
  BY <1>1, ConstantFacts DEF IInv, TypeOK, UeFits, Rnti
<1>3. \A v \in Ue : Held(v) \in Nat /\ Held(v) <= last
  BY UeTypes, ConstantFacts DEF IInv, HeldBounded
<1>4. \A d \in Dedicated : nc[d] # None => nc[d].rnti \in Rnti /\ nc[d].rnti <= last
  BY ConstantFacts DEF IInv, TypeOK, NcFits
<1>5. rapId[r] = None
  BY <1>2 DEF IInv, RapFits
<1> HIDE DEF r
<1>6. RapFits'
  BY <1>1, <1>2, ConstantFacts DEF IInv, RapFits, Rnti
<1>7. RarTyped' /\ IdsDistinct' /\ DedicatedBounded'
  BY <1>1 DEF IInv, RarTyped, IdsDistinct, DedicatedBounded, ueVars
<1>8. CASE UNCHANGED <<nc, ctx, command>>
  <2>1. TypeOK'
    BY <1>1, <1>2, <1>8 DEF IInv, TypeOK, ueVars
  <2>2. ASSUME NEW v \in Ue PROVE Fits(v)' /\ HasPreamble(v)' /\ Held(v)' = Held(v)
    BY <1>1, <1>2, <1>8, SameUe DEF IInv, UeFits, PreambleKept, ueVars
  <2>3. HeldDistinct' /\ HeldBounded'
    BY <1>1, <1>2, <2>2, SameHeld
  <2>4. NcFits'
    BY <1>1, <1>2, <1>4, <1>8, ConstantFacts DEF IInv, NcFits, Rnti
  <2>5. RarFits'
    BY <1>1, <1>2, <1>8, <2>2, SameRar DEF ueVars
  <2>6. QED
    BY <1>6, <1>7, <2>1, <2>2, <2>3, <2>4, <2>5 DEF IInv, UeFits, PreambleKept
<1>9. ASSUME NEW p \in Dedicated, Free(p),
             nc' = [nc EXCEPT ![p] = [rnti |-> last + 1, expired |-> FALSE]],
             ctx' = [ctx EXCEPT ![last + 1] = "joining"],
             command' = [command EXCEPT ![u] = [id |-> p, rnti |-> last + 1]]
      PROVE  IInv'
  <2> DEFINE e == [rnti |-> last + 1, expired |-> FALSE]
             c == [id |-> p, rnti |-> last + 1]
  <2>1. /\ nc' = [nc EXCEPT ![p] = e] /\ command' = [command EXCEPT ![u] = c]
        /\ ctx' = [ctx EXCEPT ![r] = "joining"]
        /\ e \in [rnti : Rnti, expired : BOOLEAN] /\ e # None /\ e.rnti = r
        /\ c \in [id : Dedicated, rnti : Rnti] /\ c.id = p /\ c.rnti = r
    <3>1. e \in [rnti : Rnti, expired : BOOLEAN] /\ e.rnti = r
      BY <1>2
    <3>2. e # None
      BY <3>1, ConstantFacts
    <3>3. c \in [id : Dedicated, rnti : Rnti] /\ c.id = p /\ c.rnti = r
      BY <1>2, <1>9
    <3>4. /\ nc' = [nc EXCEPT ![p] = e] /\ command' = [command EXCEPT ![u] = c]
          /\ ctx' = [ctx EXCEPT ![r] = "joining"]
      BY <1>2, <1>9
    <3>5. QED
      BY <3>1, <3>2, <3>3, <3>4
  <2> HIDE DEF e, c
  <2>n. /\ nc'[p] = e /\ \A q \in Dedicated : q # p => nc'[q] = nc[q]
        /\ ctx'[r] = "joining" /\ \A q \in Rnti : q # r => ctx'[q] = ctx[q]
        /\ command'[u] = c /\ \A v \in Ue : v # u => command'[v] = command[v]
    BY <1>2, <2>1 DEF IInv, TypeOK
  <2>2. TypeOK'
    BY <1>1, <1>2, <2>1 DEF IInv, TypeOK, ueVars
  <2>3. c # None => Fits(u)' /\ HasPreamble(u)' /\ Held(u)' = r
    BY <1>1, <1>2, <2>1, <2>n DEF Fits, HasPreamble, Held, ueVars
  <2>4. c = None => Fits(u)' /\ HasPreamble(u)' /\ Held(u)' = 0
    BY <1>1, <1>2, <2>1, <2>n DEF Fits, HasPreamble, Held, ueVars
  <2>5. ASSUME NEW v \in Ue, v # u PROVE Fits(v)' /\ HasPreamble(v)' /\ Held(v)' = Held(v)
    <3>1. /\ rrc'[v] = rrc[v] /\ id'[v] = id[v] /\ phyId'[v] = phyId[v] /\ timer'[v] = timer[v]
          /\ rnti'[v] = rnti[v] /\ command'[v] = command[v] /\ sent' = sent
      BY <1>1, <2>5, <2>n DEF ueVars
    <3>2. Held(v) # 0 => ctx'[Held(v)] = ctx[Held(v)]
      BY <1>2, <1>3, <2>n, UeTypes, ConstantFacts DEF IInv, Rnti
    <3>3. ASSUME NEW q \in Dedicated, rrc[v] = "handover" \/ command[v] # None,
                 nc[q] # None, nc[q].rnti = Held(v)
          PROVE  nc'[q] = nc[q]
      <4>1. ctx[Held(v)] = "joining"
        BY <3>3 DEF IInv, UeFits, Fits, Held
      <4>2. q # p
        BY <1>9, <3>3, <4>1 DEF Free, Completed
      <4>3. QED
        BY <2>n, <4>2
    <3>4. QED
      BY <1>2, <3>1, <3>2, <3>3, SameUe DEF IInv, UeFits, PreambleKept
  <2>6. HeldDistinct' /\ HeldBounded'
    <3>1. \A v \in Ue : Held(v)' <= last'
      BY <1>1, <1>2, <1>3, <2>3, <2>4, <2>5
    <3>2. \A v \in Ue : v # u => Held(v)' = 0 \/ Held(v)' # Held(u)'
      BY <1>2, <1>3, <2>3, <2>4, <2>5
    <3>3. \A v, w \in Ue : v # u /\ w # u /\ Held(v)' = Held(w)' /\ Held(v)' # 0 => v = w
      BY <2>5 DEF IInv, HeldDistinct
    <3>4. QED
      BY <3>1, <3>2, <3>3 DEF HeldDistinct, HeldBounded
  <2>7. NcFits'
    <3>1. ASSUME NEW d \in Dedicated, nc'[d] # None
          PROVE  /\ nc'[d].rnti <= last' /\ rapId'[nc'[d].rnti] \in {d, None}
                 /\ \A q \in Dedicated : nc'[q] # None /\ nc'[q].rnti = nc'[d].rnti => d = q
      <4>1. CASE d = p
        BY <1>1, <1>2, <1>4, <1>5, <2>1, <2>n, <4>1
      <4>2. CASE d # p
        <5>1. nc'[d] = nc[d] /\ nc[d].rnti \in Nat /\ nc[d].rnti <= last
          BY <1>4, <2>n, <3>1, <4>2, ConstantFacts DEF Rnti
        <5>2. /\ rapId[nc[d].rnti] \in {d, None}
              /\ \A q \in Dedicated : nc[q] # None /\ nc[q].rnti = nc[d].rnti => d = q
          BY <3>1, <5>1 DEF IInv, NcFits
        <5>3. QED
          BY <1>1, <1>2, <2>1, <2>n, <5>1, <5>2
      <4>3. QED
        BY <4>1, <4>2
    <3>2. QED
      BY <3>1 DEF NcFits
  <2>8. RarFits'
    <3>1. \A v \in Ue : Held(v)' \in {Held(v), 0} \/ Held(v)' > last
      BY <1>2, <2>3, <2>4, <2>5
    <3>2. \A d \in Dedicated : nc'[d] # None =>
              \/ nc[d] # None /\ nc'[d].rnti = nc[d].rnti
              \/ nc'[d].rnti > last
      BY <1>2, <2>1, <2>n
    <3>3. QED
      BY <1>1, <1>2, <3>1, <3>2, SameRar DEF ueVars
  <2>9. QED
    BY <1>6, <1>7, <2>2, <2>3, <2>4, <2>5, <2>6, <2>7, <2>8 DEF IInv, UeFits, PreambleKept
<1>10. QED
  BY <1>8, <1>9 DEF AdmitHandover

-----------------------------------------------------------------------------
(* The answer. *)

LEMMA RecvRaResponseKeeps ==
    ASSUME IInv, RecvRaResponse
    PROVE  IInv'
<1> DEFINE done == {u \in Ue : Taken(u) # {}}
           P(u) == CHOOSE p \in Taken(u) : TRUE
           got(u) == Head(rar)[P(u)].rnti
<1>1. CASE \E u \in Ue : Taken(u) # {} /\ (rrc[u] \notin {"access", "handover"}
                                           \/ Cardinality(Taken(u)) > 1)
  BY <1>1, AbortKeeps DEF RecvRaResponse
<1>2. CASE ~(\E u \in Ue : Taken(u) # {} /\ (rrc[u] \notin {"access", "handover"}
                                             \/ Cardinality(Taken(u)) > 1))
  <2>1. /\ rar # <<>> /\ rar' = Tail(rar)
        /\ phyId' = [u \in Ue |-> IF Hears(u) THEN None ELSE phyId[u]]
        /\ waiting' = [u \in Ue |-> IF u \in done THEN FALSE ELSE waiting[u]]
        /\ timer' = [u \in Ue |-> IF u \in done THEN "off" ELSE timer[u]]
        /\ rnti' = [u \in Ue |-> IF u \in done THEN got(u) ELSE rnti[u]]
        /\ rrc' = [u \in Ue |-> IF u \notin done THEN rrc[u]
                                ELSE IF rrc[u] = "access" THEN "connecting"
                                ELSE "completing"]
        /\ UNCHANGED <<id, count, out, air, sent, gnbVars, command>>
        /\ \A u \in done : rrc[u] \in {"access", "handover"}
    BY <1>2 DEF RecvRaResponse
  <2>2. /\ rar \in Seq(Rar) /\ Len(rar) \in Nat /\ Len(rar) >= 1 /\ DOMAIN rar = 1 .. Len(rar)
        /\ 1 \in DOMAIN rar /\ Head(rar) = rar[1]
        /\ Len(rar') = Len(rar) - 1 /\ DOMAIN rar' = 1 .. Len(rar) - 1
        /\ \A i \in DOMAIN rar' : i + 1 \in DOMAIN rar /\ i + 1 # 1 /\ rar'[i] = rar[i + 1]
    BY <2>1 DEF IInv, RarTyped
  <2>3. RarTyped'
    BY <2>1, <2>2 DEF RarTyped
  \* What a UE that takes an answer learns from it.
  <2>4. ASSUME NEW u \in done
        PROVE  /\ Hears(u) /\ phyId[u] # None /\ phyId[u] = id[u] /\ command[u] = None
               /\ P(u) \in DOMAIN rar[1] /\ rar[1][P(u)].id = id[u]
               /\ got(u) = rar[1][P(u)].rnti /\ got(u) \in 0 .. MaxRnti /\ got(u) <= last
               /\ id[u] \in Dedicated => rrc[u] = "handover" /\ got(u) \in {Held(u), 0}
               /\ id[u] \notin Dedicated =>
                     /\ rrc[u] = "access" /\ Held(u) = 0
                     /\ got(u) # 0 => IsNew(1, got(u))
    <3>1. Hears(u) /\ P(u) \in Mine(u) /\ rrc[u] \in {"access", "handover"} /\ u \in Ue
      BY <2>1 DEF Taken
    <3>2. PICK p \in DOMAIN rar[1] : rar[1][p].id = phyId[u]
      BY <2>2, <3>1 DEF Hears
    <3>3. phyId[u] # None
      BY <2>2, <3>2, RarTypes, ConstantFacts DEF IInv
    <3>4. /\ phyId[u] = id[u] /\ command[u] = None
          /\ id[u] \in Dedicated => rrc[u] = "handover"
          /\ id[u] \notin Dedicated => rrc[u] = "access" /\ rnti[u] = 0
      BY <3>1, <3>3 DEF IInv, UeFits, Fits
    <3>5. P(u) \in DOMAIN rar[1] /\ rar[1][P(u)].id = id[u] /\ got(u) = rar[1][P(u)].rnti
      BY <2>2, <3>1 DEF Mine
    <3> HIDE DEF P, got
    <3>6. got(u) \in 0 .. MaxRnti
      BY <2>2, <3>5, RarTypes DEF IInv
    <3>7. AnswerFits(1, P(u))
      BY <2>2, <3>5 DEF IInv, RarFits
    <3>8. /\ got(u) <= last
          /\ got(u) # 0 => /\ id[u] \notin Dedicated => IsNew(1, got(u))
                           /\ rrc[u] = "handover" => rnti[u] = got(u)
      BY <3>1, <3>5, <3>7 DEF AnswerFits
    <3>9. Held(u) = rnti[u]
      BY <3>4 DEF Held
    <3>10. QED
      BY <3>1, <3>3, <3>4, <3>5, <3>6, <3>8, <3>9
  <2>5. \A u, v \in done : got(u) = got(v) /\ got(u) # 0 => id[u] = id[v]
    <3> HIDE DEF P, done
    <3>1. ASSUME NEW u \in done, NEW v \in done, got(u) = got(v) PROVE id[u] = id[v]
      <4>1. AnswerFits(1, P(u))
        BY <2>2, <2>4 DEF IInv, RarFits
      <4>2. QED
        BY <2>4, <3>1, <4>1 DEF AnswerFits
    <3>2. QED
      BY <3>1
  <2>d. done \subseteq Ue
    OBVIOUS
  <2> HIDE DEF P, got, done
  <2>6. TypeOK'
    BY <2>1, <2>4 DEF IInv, TypeOK, gnbVars
  <2>7. ASSUME NEW u \in done
        PROVE  Fits(u)' /\ HasPreamble(u)' /\ Held(u)' = got(u)
    <3>1. /\ rrc'[u] \in {"connecting", "completing"} /\ timer'[u] = "off"
          /\ phyId'[u] = None /\ command'[u] = None /\ rnti'[u] = got(u)
      BY <2>1, <2>4, <2>d
    <3>2. QED
      BY <3>1 DEF Fits, HasPreamble, Held
  <2>8. ASSUME NEW u \in Ue, u \notin done
        PROVE  Fits(u)' /\ HasPreamble(u)' /\ Held(u)' = Held(u) /\ timer'[u] = timer[u]
               /\ rrc'[u] = rrc[u] /\ rnti'[u] = rnti[u]
    <3>1. /\ rrc'[u] = rrc[u] /\ timer'[u] = timer[u] /\ phyId'[u] \in {phyId[u], None}
          /\ rnti'[u] = rnti[u] /\ command' = command /\ id' = id /\ sent' = sent
          /\ ctx' = ctx /\ nc' = nc
      BY <2>1, <2>8 DEF gnbVars
    <3>2. QED
      BY <3>1 DEF IInv, UeFits, PreambleKept, Fits, HasPreamble, Held
  <2>9. DedicatedBounded'
    BY <2>1, <2>8 DEF IInv, DedicatedBounded
  <2>10. IdsDistinct'
    BY <2>1, SameIds DEF IInv
  <2>11. HeldBounded'
    BY <2>1, <2>4, <2>7, <2>8 DEF IInv, HeldBounded, gnbVars
  <2>12. HeldDistinct'
    <3>1. ASSUME NEW u \in done, id[u] \notin Dedicated, NEW v \in Ue,
                 Held(u)' = Held(v)', Held(u)' # 0
          PROVE  u = v
      <4>1. Held(u)' = got(u) /\ IsNew(1, got(u)) /\ Held(v) # got(u)
        BY <2>4, <2>7, <2>d, <3>1 DEF IsNew
      <4>2. v \in done /\ got(v) = got(u) /\ got(u) # 0 /\ id[v] \notin Dedicated
        BY <2>4, <2>7, <2>8, <3>1, <4>1
      <4>3. phyId[u] # None /\ phyId[u] \notin Dedicated /\ phyId[u] = phyId[v]
        BY <2>4, <2>5, <3>1, <4>2
      <4>4. QED
        BY <2>d, <4>3 DEF IInv, IdsDistinct
    <3>2. \A u \in Ue : ~(u \in done /\ id[u] \notin Dedicated) => Held(u)' \in {Held(u), 0}
      BY <2>4, <2>7, <2>8
    <3>3. QED
      BY <3>1, <3>2 DEF IInv, HeldDistinct
  <2>13. NcFits' /\ RapFits'
    BY <2>1 DEF IInv, NcFits, RapFits, gnbVars
  <2>14. RarFits'
    <3> SUFFICES ASSUME NEW i \in DOMAIN rar', NEW p \in DOMAIN rar'[i]
                 PROVE  AnswerFits(i, p)'
      BY DEF RarFits
    <3>0. PICK r : r = rar'[i][p].rnti
      OBVIOUS
    <3>1. /\ rar[i + 1][p].rnti = r
          /\ i + 1 \in DOMAIN rar /\ i + 1 # 1 /\ rar'[i] = rar[i + 1]
          /\ p \in DOMAIN rar[i + 1] /\ AnswerFits(i + 1, p)
      BY <2>2, <3>0 DEF IInv, RarFits
    <3>2. last' = last /\ nc' = nc
      BY <2>1 DEF gnbVars
    <3>3. /\ r <= last
          /\ \A q \in DOMAIN rar'[i] : rar'[i][q].rnti = r => rar'[i][q].id = rar'[i][p].id
      BY <3>1 DEF AnswerFits
    <3>4. ASSUME r # 0, rar'[i][p].id \notin Dedicated PROVE IsNew(i, r)'
      <4>1. IsNew(i + 1, r)
        BY <3>1, <3>4 DEF AnswerFits
      <4>2. ASSUME NEW v \in Ue PROVE Held(v)' # r
        <5>1. CASE v \in done
          <6>1. rar[1][P(v)].rnti # r
            BY <2>2, <2>4, <3>1, <4>1, <5>1 DEF IsNew
          <6>2. QED
            BY <2>4, <2>7, <5>1, <6>1
        <5>2. CASE v \notin done
          BY <2>8, <4>1, <5>2 DEF IsNew
        <5>3. QED
          BY <5>1, <5>2
      <4>3. \A d \in Dedicated : nc'[d] # None => nc'[d].rnti # r
        BY <3>2, <4>1 DEF IsNew
      <4>4. ASSUME NEW j \in DOMAIN rar', j # i, NEW q \in DOMAIN rar'[j]
            PROVE  rar'[j][q].rnti # r
        <5>1. j + 1 \in DOMAIN rar /\ j + 1 # i + 1 /\ rar'[j] = rar[j + 1]
          BY <2>2, <4>4
        <5>2. QED
          BY <4>1, <4>4, <5>1 DEF IsNew
      <4>5. QED
        BY <4>2, <4>3, <4>4 DEF IsNew
    <3>5. \A u \in Ue : rrc'[u] = "handover" =>
              u \notin done /\ rrc[u] = "handover" /\ rnti'[u] = rnti[u] /\ id' = id
      BY <2>1, <2>8
    <3>6. r # 0 => \A u \in Ue : rrc[u] = "handover" /\ id[u] = rar'[i][p].id => rnti[u] = r
      BY <3>1 DEF AnswerFits
    <3>7. QED
      BY <3>0, <3>2, <3>3, <3>4, <3>5, <3>6 DEF AnswerFits
  <2>15. QED
    BY <2>3, <2>6, <2>7, <2>8, <2>9, <2>10, <2>11, <2>12, <2>13, <2>14
       DEF IInv, UeFits, PreambleKept
<1>3. QED
  BY <1>1, <1>2

-----------------------------------------------------------------------------
(* The uplink slot. *)

\* Numbers up to a member, of a finite set of them: the least such set is of the
\* least member.
LEMMA Least ==
    ASSUME NEW S \in SUBSET Nat, IsFiniteSet(S), S # {}
    PROVE  \E m \in S : \A n \in S : m <= n
<1> DEFINE Upto(p) == {q \in S : q <= p}
           T == {Upto(p) : p \in S}
           R == StrictSubsetOrdering(S)
<1>1. T \subseteq FiniteSubsetsOf(S) /\ T # {}
  <2>1. \A p \in S : Upto(p) \in SUBSET S
    OBVIOUS
  <2>2. \A p \in S : IsFiniteSet(Upto(p))
    BY <2>1, FS_Subset
  <2>3. QED
    BY <2>1, <2>2 DEF FiniteSubsetsOf
<1>2. IsWellFoundedOn(R, FiniteSubsetsOf(S))
  BY FS_StrictSubsetOrderingWellFounded
<1>3. \E x \in T : \A y \in T : <<y, x>> \notin R
  <2> HIDE DEF T, R
  <2>1. QED
    BY <1>1, <1>2, WFMin
<1>4. PICK m \in S : \A n \in S : <<Upto(n), Upto(m)>> \notin R
  BY <1>3
<1>5. ASSUME NEW n \in S, n < m PROVE FALSE
  <2>1. n \in Nat /\ m \in Nat
    OBVIOUS
  <2>2. Upto(n) \subseteq Upto(m)
    <3>1. ASSUME NEW q \in S, q <= n PROVE q <= m
      <4>1. q \in Nat
        OBVIOUS
      <4>2. QED
        BY <1>5, <2>1, <3>1, <4>1
    <3>2. QED
      BY <3>1
  <2>3. m \in Upto(m) /\ m \notin Upto(n)
    BY <1>5, <2>1
  <2>4. <<Upto(n), Upto(m)>> \in R
    BY <2>2, <2>3 DEF StrictSubsetOrdering
  <2>5. QED
    BY <1>4, <2>4
<1>6. QED
  BY <1>5

\* Ranks count upwards.
LEMMA Ranks ==
    ASSUME NEW S \in SUBSET Nat, IsFiniteSet(S)
    PROVE  /\ \A p \in S : Rank(S, p) \in Nat /\ Rank(S, p) >= 1
           /\ \A p, q \in S : p < q => Rank(S, p) < Rank(S, q)
<1> DEFINE Upto(p) == {q \in S : q <= p}
<1>1. ASSUME NEW p \in S PROVE IsFiniteSet(Upto(p)) /\ Rank(S, p) = Cardinality(Upto(p))
  <2>1. Upto(p) \in SUBSET S
    OBVIOUS
  <2>2. QED
    BY <2>1, FS_Subset DEF Rank
<1>2. ASSUME NEW p \in S PROVE Rank(S, p) \in Nat /\ Rank(S, p) >= 1
  <2>1. Cardinality(Upto(p)) \in Nat
    BY <1>1, FS_CardinalityType
  <2>2. p \in Upto(p)
    OBVIOUS
  <2>3. Cardinality(Upto(p)) # 0
    BY <1>1, <2>2, FS_EmptySet
  <2>4. QED
    BY <1>1, <2>1, <2>3
<1>3. ASSUME NEW p \in S, NEW q \in S, p < q PROVE Rank(S, p) < Rank(S, q)
  <2>0. p \in Nat /\ q \in Nat
    OBVIOUS
  <2>1. Upto(p) \in SUBSET Upto(q)
    <3>1. ASSUME NEW s \in S, s <= p PROVE s <= q
      <4>1. s \in Nat
        OBVIOUS
      <4>2. QED
        BY <1>3, <2>0, <3>1, <4>1
    <3>2. QED
      BY <3>1
  <2>n. q \in Upto(q) /\ q \notin Upto(p)
    BY <1>3, <2>0
  <2>2. Cardinality(Upto(p)) <= Cardinality(Upto(q))
        /\ Cardinality(Upto(q)) # Cardinality(Upto(p))
    BY <1>1, <2>1, <2>n, FS_Subset
  <2>3. QED
    BY <1>1, <1>2, <2>2
<1>4. QED
  BY <1>2, <1>3

\* The RNTIs of a slot are the next ones, each for one preamble.
LEMMA Numbered ==
    ASSUME TypeOK
    PROVE  /\ Cardinality(NewRntis) \in Nat
           /\ \A p \in Unknown : \/ RntiOf(p) = 0
                                 \/ RntiOf(p) \in last + 1 .. last + Cardinality(NewRntis)
           /\ \A p, q \in Unknown : RntiOf(p) = RntiOf(q) /\ RntiOf(p) # 0 => p = q
<1> DEFINE U == Unknown
           B == {p \in U : Cardinality(Contexts) + Rank(U, p) <= SrsIndices}
           f == [p \in B |-> last + Rank(U, p)]
<1>1. U \in SUBSET Preamble /\ U \in SUBSET Nat /\ last \in Nat
  <2>1. U \subseteq Preamble
    BY DEF Unknown, Answered
  <2>2. last \in Nat
    BY ConstantFacts DEF TypeOK
  <2>3. QED
    BY <2>1, <2>2, ConstantFacts
<1>2. IsFiniteSet(U)
  <2>1. IsFiniteSet(Preamble)
    BY ConstantFacts, FS_Interval DEF Preamble
  <2>2. QED
    BY <1>1, <2>1, FS_Subset
<1>3. IsFiniteSet(B) /\ B \in SUBSET U
  BY <1>2, FS_Subset
<1>r. /\ \A p \in U : Rank(U, p) \in Nat /\ Rank(U, p) >= 1
      /\ \A p, q \in U : p < q => Rank(U, p) < Rank(U, q)
  BY <1>1, <1>2, Ranks
<1>4. \A p \in U : RntiOf(p) = IF p \in B THEN last + Rank(U, p) ELSE 0
  BY DEF RntiOf, Unknown
<1>c. IsFiniteSet(Contexts) /\ Cardinality(Contexts) \in Nat
  <2>1. IsFiniteSet(Rnti)
    BY ConstantFacts, FS_Interval DEF Rnti
  <2>2. Contexts \in SUBSET Rnti
    BY DEF Contexts
  <2>3. QED
    BY <2>1, <2>2, FS_Subset, FS_CardinalityType
<1> HIDE DEF U
<1>5. \A p, q \in B : f[p] = f[q] => p = q
  BY <1>1, <1>3, <1>r
<1>6. NewRntis = {f[p] : p \in B}
  BY <1>1, <1>r, <1>4 DEF NewRntis, U
<1>7. f \in Bijection(B, NewRntis)
  <2>1. f \in [B -> NewRntis] /\ \A t \in NewRntis : \E p \in B : f[p] = t
    BY <1>6
  <2>2. QED
    BY <1>5, <2>1 DEF Bijection, Injection, Surjection, IsInjective
<1>8. IsFiniteSet(NewRntis) /\ Cardinality(NewRntis) = Cardinality(B)
      /\ Cardinality(B) \in Nat
  BY <1>3, <1>7, FS_Bijection, FS_CardinalityType DEF ExistsBijection
<1>9. ASSUME NEW p \in B PROVE Rank(U, p) <= Cardinality(B)
  <2>1. \A q \in U : q <= p => Rank(U, q) <= Rank(U, p)
    BY <1>1, <1>3, <1>r
  <2>2. {q \in U : q <= p} \in SUBSET B
    BY <1>3, <1>r, <1>c, <2>1, ConstantFacts
  <2>3. QED
    BY <1>3, <2>2, FS_Subset DEF Rank
<1>10. \A p \in U : RntiOf(p) = 0 \/ RntiOf(p) \in last + 1 .. last + Cardinality(NewRntis)
  BY <1>1, <1>r, <1>4, <1>8, <1>9
<1>11. \A p, q \in U : RntiOf(p) = RntiOf(q) /\ RntiOf(p) # 0 => p = q
  BY <1>4, <1>5
<1>12. QED
  BY <1>8, <1>10, <1>11 DEF U

\* Each RNTI stands for one preamble in the answers.
LEMMA MappedFacts ==
    ASSUME IInv, last + Cardinality(NewRntis) <= MaxRnti
    PROVE  /\ Mapped \in [0 .. MaxRnti -> Preamble \cup {None}]
           /\ \A p \in Answered : RntiOf(p) \in 0 .. MaxRnti /\ Mapped[RntiOf(p)] \in Preamble
           /\ \A p \in Answered : Known(p) =>
                 RntiOf(p) = nc[p].rnti /\ RntiOf(p) <= last /\ Mapped[RntiOf(p)] = p
           /\ \A p \in Answered : ~Known(p) /\ RntiOf(p) # 0 =>
                 /\ RntiOf(p) > last /\ RntiOf(p) <= last + Cardinality(NewRntis)
                 /\ Mapped[RntiOf(p)] = p
           /\ \A p \in Dedicated : nc[p] # None => Mapped[nc[p].rnti] \in {p, None}
           /\ \A r \in Rnti : r > last + Cardinality(NewRntis) => Mapped[r] = None
<1> DEFINE k == Cardinality(NewRntis)
           Ps(r) == {p \in Answered : RntiOf(p) = r}
<1>1. /\ k \in Nat /\ last \in Nat /\ MaxRnti \in Nat /\ last + k <= MaxRnti
      /\ Answered \subseteq Preamble
      /\ \A p \in Answered : ~Known(p) => RntiOf(p) = 0 \/ RntiOf(p) \in last + 1 .. last + k
      /\ \A p, q \in Answered : ~Known(p) /\ ~Known(q) /\ RntiOf(p) = RntiOf(q)
                                    /\ RntiOf(p) # 0 => p = q
  <2>1. last \in Nat /\ MaxRnti \in Nat
    BY ConstantFacts DEF IInv, TypeOK
  <2>2. Answered \subseteq Preamble
    BY DEF Answered
  <2>3. QED
    BY <2>1, <2>2, Numbered DEF IInv, Unknown
<1> HIDE DEF k
<1>2. \A p \in Dedicated : nc[p] # None =>
          /\ nc[p].rnti \in 1 .. MaxRnti /\ nc[p].rnti <= last /\ rapId[nc[p].rnti] \in {p, None}
          /\ \A q \in Dedicated : nc[q] # None /\ nc[q].rnti = nc[p].rnti => p = q
  BY DEF IInv, TypeOK, NcFits, Rnti
<1>3. \A p \in Answered : Known(p) => RntiOf(p) = nc[p].rnti /\ p \in Dedicated /\ nc[p] # None
  BY DEF RntiOf, Known
<1>4. \A p \in Answered : RntiOf(p) \in 0 .. MaxRnti
  BY <1>1, <1>2, <1>3
<1>5. \A r \in 0 .. MaxRnti :
          Mapped[r] = IF rapId[r] # None \/ Ps(r) = {} THEN rapId[r]
                      ELSE CHOOSE p \in Ps(r) : \A q \in Ps(r) : p <= q
  BY DEF Mapped
<1>6. ASSUME NEW r \in 0 .. MaxRnti, Ps(r) # {}
      PROVE  /\ \E p \in Ps(r) : \A q \in Ps(r) : p <= q
             /\ (CHOOSE p \in Ps(r) : \A q \in Ps(r) : p <= q) \in Ps(r)
  <2>1. Ps(r) \in SUBSET Preamble /\ Ps(r) \in SUBSET Nat
    BY <1>1, ConstantFacts
  <2>2. IsFiniteSet(Preamble)
    BY ConstantFacts, FS_Interval DEF Preamble
  <2>3. IsFiniteSet(Ps(r))
    BY <2>1, <2>2, FS_Subset
  <2> HIDE DEF Ps
  <2>4. \E p \in Ps(r) : \A q \in Ps(r) : p <= q
    BY <1>6, <2>1, <2>3, Least
  <2>5. QED
    BY <2>4
<1>7. \A r \in 0 .. MaxRnti : Ps(r) \subseteq Answered
  OBVIOUS
<1>8. \A r \in 0 .. MaxRnti : rapId[r] \in Preamble \cup {None}
  BY DEF IInv, TypeOK
<1>9. \A p \in Answered : p \in Ps(RntiOf(p))
  OBVIOUS
\* The preambles of an RNTI, when it has at most one.
<1>10. \A p \in Answered : Known(p) => \A q \in Ps(RntiOf(p)) : q = p
  BY <1>1, <1>2, <1>3
<1>11. \A p \in Answered : ~Known(p) /\ RntiOf(p) # 0 => \A q \in Ps(RntiOf(p)) : q = p
  BY <1>1, <1>2, <1>3
<1>12. \A p \in Dedicated : nc[p] # None => \A q \in Ps(nc[p].rnti) : q = p
  BY <1>1, <1>2, <1>3
<1>13. \A r \in Rnti : r > last + k => Ps(r) = {} /\ rapId[r] = None
  <2>1. ASSUME NEW r \in Rnti, r > last + k, NEW p \in Answered PROVE RntiOf(p) # r
    <3>1. r \in Nat /\ r # 0
      BY <2>1, ConstantFacts DEF Rnti
    <3>2. CASE Known(p)
      BY <1>1, <1>2, <1>3, <2>1, <3>1, <3>2
    <3>3. CASE ~Known(p)
      BY <1>1, <2>1, <3>1, <3>3
    <3>4. QED
      BY <3>2, <3>3
  <2>2. \A r \in Rnti : r > last + k => r > last
    BY <1>1, ConstantFacts DEF Rnti
  <2>3. QED
    BY <2>1, <2>2 DEF IInv, RapFits
<1> HIDE DEF Ps
<1>14. Mapped \in [0 .. MaxRnti -> Preamble \cup {None}]
  <2>1. \A r \in 0 .. MaxRnti : Mapped[r] \in Preamble \cup {None}
    BY <1>1, <1>5, <1>6, <1>7, <1>8
  <2>2. QED
    BY <2>1 DEF Mapped
<1>15. \A p \in Answered : Mapped[RntiOf(p)] \in Preamble
  BY <1>1, <1>4, <1>5, <1>6, <1>7, <1>8, <1>9
<1>16. \A p \in Answered : Known(p) => Mapped[RntiOf(p)] = p
  BY <1>2, <1>3, <1>4, <1>5, <1>6, <1>9, <1>10
<1>17. ASSUME NEW p \in Answered, ~Known(p), RntiOf(p) # 0 PROVE Mapped[RntiOf(p)] = p
  <2>1. RntiOf(p) \in Rnti /\ RntiOf(p) > last
    BY <1>1, <1>4, <1>17 DEF Rnti
  <2>2. rapId[RntiOf(p)] = None
    BY <2>1 DEF IInv, RapFits
  <2>3. QED
    BY <1>4, <1>5, <1>6, <1>9, <1>11, <1>17, <2>2
<1>18. ASSUME NEW p \in Dedicated, nc[p] # None PROVE Mapped[nc[p].rnti] \in {p, None}
  <2>1. PICK r \in 0 .. MaxRnti : r = nc[p].rnti
    BY <1>1, <1>2, <1>18
  <2>2. rapId[r] \in {p, None} /\ \A q \in Ps(r) : q = p
    BY <1>2, <1>12, <1>18, <2>1
  <2>3. Mapped[r] \in {p, None}
    BY <1>5, <1>6, <2>2
  <2>4. QED
    BY <2>1, <2>3
<1>19. \A r \in Rnti : r > last + k => Mapped[r] = None
  BY <1>5, <1>13 DEF Rnti
<1>20. \A p \in Answered : Known(p) => RntiOf(p) = nc[p].rnti /\ RntiOf(p) <= last
  BY <1>2, <1>3
<1>21. \A p \in Answered : ~Known(p) /\ RntiOf(p) # 0 =>
           RntiOf(p) > last /\ RntiOf(p) <= last + k
  BY <1>1
<1>22. QED
  BY <1>4, <1>14, <1>15, <1>16, <1>17, <1>18, <1>19, <1>20, <1>21 DEF k

LEMMA UlSlotKeeps ==
    ASSUME IInv, NEW room \in 0 .. Cardinality(Ue), UlSlot(room)
    PROVE  IInv'
<1> DEFINE built == {p \in Answered : Rank(Answered, p) <= room}
           k == Cardinality(NewRntis)
           new == [p \in built |-> [id |-> Mapped[RntiOf(p)], rnti |-> RntiOf(p)]]
<1>1. /\ last + k <= MaxRnti /\ last' = last + k
      /\ ctx' = [r \in Rnti |-> IF r \in NewRntis THEN "access" ELSE ctx[r]]
      /\ heard' = [p \in Preamble |-> 0] /\ UNCHANGED <<ueVars, nc, command>>
      /\ \/ rapId' = Mapped /\ rar' = rar
         \/ rapId' = [r \in 0 .. MaxRnti |-> None] /\ rar' = Append(rar, new)
  BY DEF UlSlot
<1>k. k \in Nat
  BY Numbered DEF IInv
<1>t. last \in Nat /\ sent \in Nat /\ sent' = sent
  BY <1>1, ConstantFacts DEF IInv, TypeOK, ueVars
<1>2. /\ k \in Nat /\ last \in Nat /\ last' \in Nat /\ last <= last' /\ last' \in 0 .. MaxRnti
      /\ sent \in Nat /\ sent' = sent
  <2> HIDE DEF k
  <2>1. QED
    BY <1>1, <1>k, <1>t, ConstantFacts
<1>m. /\ Mapped \in [0 .. MaxRnti -> Preamble \cup {None}]
      /\ \A p \in Answered : RntiOf(p) \in 0 .. MaxRnti /\ Mapped[RntiOf(p)] \in Preamble
      /\ \A p \in Answered : Known(p) =>
            RntiOf(p) = nc[p].rnti /\ RntiOf(p) <= last /\ Mapped[RntiOf(p)] = p
      /\ \A p \in Answered : ~Known(p) /\ RntiOf(p) # 0 =>
            RntiOf(p) > last /\ RntiOf(p) <= last' /\ Mapped[RntiOf(p)] = p
      /\ \A p \in Dedicated : nc[p] # None => Mapped[nc[p].rnti] \in {p, None}
      /\ \A r \in Rnti : r > last' => Mapped[r] = None
  BY <1>1, MappedFacts
<1>3. \A r \in Rnti : r <= last => ctx'[r] = ctx[r]
  <2>1. \A r \in NewRntis : r > last
    BY <1>2, Numbered DEF IInv, NewRntis
  <2>2. \A r \in Rnti : r <= last => r \notin NewRntis
    BY <1>2, <2>1, ConstantFacts DEF Rnti
  <2>3. QED
    BY <1>1, <2>2
<1>b. built \subseteq Answered /\ Answered \subseteq Preamble
  BY DEF Answered
<1>4. new \in Rar
  <2>1. new \in [built -> [id : Preamble, rnti : 0 .. MaxRnti]]
    BY <1>m, <1>b
  <2>2. built \in SUBSET Preamble
    BY <1>b
  <2> HIDE DEF built, new
  <2>3. QED
    BY <2>1, <2>2 DEF Rar
<1>5. /\ \A p \in DOMAIN new : p \in Answered
      /\ \A p \in DOMAIN new : new[p].id = Mapped[RntiOf(p)] /\ new[p].rnti = RntiOf(p)
  BY <1>b
<1> HIDE DEF built, k, new
<1>6. TypeOK'
  <2>1. rapId' \in [0 .. MaxRnti -> Preamble \cup {None}]
    BY <1>1, <1>m
  <2>2. /\ ctx' \in [Rnti -> {"none", "access", "joining", "switching", "connected"}]
        /\ heard' \in [Preamble -> 0 .. 2]
    BY <1>1 DEF IInv, TypeOK
  <2>3. QED
    BY <1>1, <1>2, <2>1, <2>2 DEF IInv, TypeOK, ueVars
<1>7. RarTyped'
  BY <1>1, <1>4 DEF IInv, RarTyped
<1>8. ASSUME NEW v \in Ue
      PROVE  Fits(v)' /\ HasPreamble(v)' /\ Held(v)' = Held(v) /\ Held(v) <= last
             /\ rrc'[v] = rrc[v] /\ id'[v] = id[v] /\ rnti'[v] = rnti[v]
  <2>1. Held(v) <= last /\ (Held(v) # 0 => Held(v) \in Rnti)
    BY UeTypes, ConstantFacts DEF IInv, HeldBounded, Rnti
  <2>2. /\ rrc'[v] = rrc[v] /\ id'[v] = id[v] /\ phyId'[v] = phyId[v] /\ timer'[v] = timer[v]
        /\ rnti'[v] = rnti[v] /\ command'[v] = command[v] /\ nc' = nc
    BY <1>1 DEF ueVars
  <2>3. Held(v) # 0 => ctx'[Held(v)] = ctx[Held(v)]
    BY <1>3, <2>1
  <2>4. QED
    BY <1>2, <2>1, <2>2, <2>3, SameUe DEF IInv, UeFits, PreambleKept
<1>9. DedicatedBounded' /\ IdsDistinct'
  BY <1>1 DEF IInv, DedicatedBounded, IdsDistinct, ueVars
<1>10. HeldDistinct' /\ HeldBounded'
  BY <1>2, <1>8, SameHeld
<1>11. \A d \in Dedicated : nc[d] # None => nc[d].rnti \in 0 .. MaxRnti /\ nc[d].rnti <= last
  BY ConstantFacts DEF IInv, TypeOK, NcFits, Rnti
<1>12. NcFits'
  <2>1. ASSUME NEW p \in Dedicated, nc[p] # None
        PROVE  nc[p].rnti <= last' /\ rapId'[nc[p].rnti] \in {p, None}
    <3>1. nc[p].rnti \in 0 .. MaxRnti /\ nc[p].rnti <= last
      BY <1>11, <2>1
    <3>2. nc[p].rnti <= last'
      BY <1>2, <3>1, ConstantFacts
    <3>3. QED
      BY <1>1, <1>m, <2>1, <3>1, <3>2
  <2>2. QED
    BY <1>1, <2>1 DEF IInv, NcFits
<1>13. RapFits'
  <2>1. ASSUME NEW r \in Rnti, r > last' PROVE rapId'[r] = None
    <3>1. r \in 0 .. MaxRnti
      BY ConstantFacts DEF Rnti
    <3>2. QED
      BY <1>1, <1>m, <2>1, <3>1
  <2>2. QED
    BY <2>1 DEF RapFits
<1>14. RarFits'
  <2>1. CASE rar' = rar
    <3>1. /\ nc' = nc
          /\ \A v \in Ue : Held(v)' = Held(v) /\ rrc'[v] = rrc[v] /\ id'[v] = id[v]
                           /\ rnti'[v] = rnti[v]
      BY <1>1, <1>8
    <3>2. QED
      BY <1>2, <2>1, <3>1, SameRar
  <2>2. CASE rar' = Append(rar, new)
    <3>0. PICK n : n = Len(rar) + 1
      OBVIOUS
    <3>1. /\ rar \in Seq(Rar) /\ DOMAIN rar = 1 .. Len(rar) /\ Len(rar) \in Nat
          /\ DOMAIN rar' = 1 .. n /\ rar'[n] = new
          /\ \A i \in DOMAIN rar' : i # n => i \in DOMAIN rar /\ rar'[i] = rar[i]
          /\ \A i \in DOMAIN rar : i # n
      BY <1>4, <2>2, <3>0 DEF IInv, RarTyped
    \* The new answer, for an RNTI of its own or one allocated for a handover.
    <3>2. ASSUME NEW p \in DOMAIN new, NEW r, r = new[p].rnti, r # 0
          PROVE  /\ \/ r > last /\ ~Known(p) /\ new[p].id = p
                    \/ p \in Dedicated /\ nc[p] # None /\ nc[p].rnti = r /\ new[p].id = p
                 /\ r \in Nat /\ r <= last'
      <4>1. r = RntiOf(p) /\ new[p].id = Mapped[RntiOf(p)] /\ p \in Answered
        BY <1>5, <3>2
      <4>2. r \in Nat
        BY <1>m, <4>1, ConstantFacts
      <4>3. CASE Known(p)
        BY <1>2, <1>m, <4>1, <4>2, <4>3 DEF Known
      <4>4. CASE ~Known(p)
        BY <1>m, <3>2, <4>1, <4>2, <4>4
      <4>5. QED
        BY <4>3, <4>4
    \* An answer already on the air.
    <3>3. ASSUME NEW i \in DOMAIN rar, NEW p \in DOMAIN rar[i], NEW r, r = rar[i][p].rnti
          PROVE  /\ r \in Nat /\ r <= last /\ AnswerFits(i, p)
      <4>1. r \in 0 .. MaxRnti
        BY <3>3, RarTypes DEF IInv
      <4>2. AnswerFits(i, p)
        BY DEF IInv, RarFits
      <4>3. QED
        BY <3>3, <4>1, <4>2, ConstantFacts DEF AnswerFits
    <3>u. /\ nc' = nc
          /\ \A v \in Ue : /\ Held(v)' = Held(v) /\ Held(v) <= last /\ Held(v) \in Nat
                           /\ rrc'[v] = rrc[v] /\ id'[v] = id[v] /\ rnti'[v] = rnti[v]
      BY <1>1, <1>8, UeTypes, ConstantFacts DEF IInv
    <3>4. ASSUME NEW i \in DOMAIN rar', i # n, NEW p \in DOMAIN rar'[i] PROVE AnswerFits(i, p)'
      <4>1. PICK r : r = rar[i][p].rnti
        OBVIOUS
      <4>2. i \in DOMAIN rar /\ rar'[i] = rar[i] /\ p \in DOMAIN rar[i]
        BY <3>1, <3>4
      <4>3. r \in Nat /\ r <= last /\ AnswerFits(i, p)
        BY <3>3, <4>1, <4>2
      <4>4. ASSUME r # 0, IsNew(i, r) PROVE IsNew(i, r)'
        <5>1. \A v \in Ue : Held(v)' # r
          BY <3>u, <4>4 DEF IsNew
        <5>2. \A d \in Dedicated : nc'[d] # None => nc'[d].rnti # r
          BY <3>u, <4>4 DEF IsNew
        <5>3. ASSUME NEW j \in DOMAIN rar', j # i, NEW q \in DOMAIN rar'[j]
              PROVE  rar'[j][q].rnti # r
          <6>1. CASE j = n
            <7>1. SUFFICES ASSUME new[q].rnti = r PROVE FALSE
              BY <3>1, <6>1
            <7>2. q \in DOMAIN new
              BY <3>1, <5>3, <6>1
            <7>3. r > last \/ \E d \in Dedicated : nc[d] # None /\ nc[d].rnti = r
              BY <3>2, <4>4, <7>1, <7>2
            <7>4. QED
              BY <1>2, <4>3, <4>4, <7>3 DEF IsNew
          <6>2. CASE j # n
            BY <3>1, <4>4, <5>3, <6>2 DEF IsNew
          <6>3. QED
            BY <6>1, <6>2
        <5>4. QED
          BY <5>1, <5>2, <5>3 DEF IsNew
      <4>5. r <= last'
        BY <1>2, <4>3
      <4>6. QED
        BY <3>u, <4>1, <4>2, <4>3, <4>4, <4>5 DEF AnswerFits
    <3>5. ASSUME NEW p \in DOMAIN rar'[n] PROVE AnswerFits(n, p)'
      <4>1. PICK r : r = new[p].rnti
        OBVIOUS
      <4>2. p \in DOMAIN new /\ rar'[n] = new
        BY <3>1, <3>5
      <4>3. r # 0 => /\ \/ r > last /\ ~Known(p) /\ new[p].id = p
                        \/ p \in Dedicated /\ nc[p] # None /\ nc[p].rnti = r /\ new[p].id = p
                     /\ r \in Nat /\ r <= last'
        BY <3>2, <4>1, <4>2
      <4>4. r <= last'
        BY <1>2, <4>3
      <4>5. \A q \in DOMAIN new : new[q].rnti = r => new[q].id = new[p].id
        BY <1>5, <4>1, <4>2
      <4>6. ASSUME r # 0, new[p].id \notin Dedicated PROVE IsNew(n, r)'
        <5>1. r > last /\ r \in Nat
          BY <4>3, <4>6
        <5>2. \A v \in Ue : Held(v)' # r
          BY <1>2, <3>u, <5>1
        <5>3. \A d \in Dedicated : nc'[d] # None => nc'[d].rnti # r
          BY <1>2, <1>11, <3>u, <5>1, ConstantFacts
        <5>4. ASSUME NEW j \in DOMAIN rar', j # n, NEW q \in DOMAIN rar'[j]
              PROVE  rar'[j][q].rnti # r
          <6>1. j \in DOMAIN rar /\ rar'[j] = rar[j]
            BY <3>1, <5>4
          <6>2. rar[j][q].rnti \in Nat /\ rar[j][q].rnti <= last
            BY <3>3, <5>4, <6>1
          <6>3. QED
            BY <1>2, <5>1, <6>1, <6>2
        <5>5. QED
          BY <5>2, <5>3, <5>4 DEF IsNew
      <4>7. ASSUME r # 0, NEW u \in Ue, rrc[u] = "handover", id[u] = new[p].id
            PROVE  rnti[u] = r
        <5>1. id[u] \in Dedicated /\ nc[id[u]] # None /\ nc[id[u]].rnti = rnti[u]
          BY <4>7 DEF IInv, UeFits, Fits, PreambleKept, HasPreamble
        <5>2. QED
          BY <4>3, <4>7, <5>1 DEF Known
      <4>8. QED
        BY <3>u, <4>1, <4>2, <4>4, <4>5, <4>6, <4>7 DEF AnswerFits
    <3>6. QED
      BY <3>1, <3>4, <3>5 DEF RarFits
  <2>3. QED
    BY <1>1, <2>1, <2>2
<1>15. QED
  BY <1>6, <1>7, <1>8, <1>9, <1>10, <1>12, <1>13, <1>14 DEF IInv, UeFits, PreambleKept

-----------------------------------------------------------------------------

LEMMA Keeps ==
    ASSUME IdsApart, PatientJoining, IInv, [Next]_vars
    PROVE  IInv'
<1>1. CASE UNCHANGED vars
  <2>1. TypeOK' /\ DedicatedBounded'
    BY <1>1 DEF IInv, TypeOK, DedicatedBounded, vars, ueVars, gnbVars
  <2>2. QED
    BY <1>1, <2>1, OthersKeep DEF vars, ueVars, gnbVars
<1>2. CASE Next
  <2>1. CASE \E u \in Ue : \/ StartAccess(u) \/ StartHandover(u) \/ StartWaitingForRaResponse(u)
                           \/ RaResponseTimeout(u) \/ ConnectionTimeout(u)
                           \/ RadioLinkFailureDetected(u) \/ Disconnect(u) \/ FindsCell(u)
    BY <2>1, StartAccessKeeps, StartHandoverKeeps, StartWaitingKeeps, RaResponseTimeoutKeeps,
       ConnectionTimeoutKeeps, RadioLinkFailureKeeps, DisconnectKeeps, FindsCellKeeps
  <2>2. CASE AccessElsewhere \/ RecvRaResponse
    BY <2>2, AccessElsewhereKeeps, RecvRaResponseKeeps
  <2>3. CASE \/ \E u \in Ue : AdmitHandover(u) \/ RecvFirstMessage(u)
             \/ \E p \in Dedicated : Expire(p)
             \/ \E r \in Rnti : PathSwitched(r) \/ ContextTimeout(r)
    BY <2>3, AdmitHandoverKeeps, RecvFirstMessageKeeps, ExpireKeeps, PathSwitchedKeeps,
       ContextTimeoutKeeps
  <2>4. CASE \/ \E u \in Ue : \E p \in Preamble : ReceiveRachPreamble(u, p)
             \/ \E room \in 0 .. Cardinality(Ue) : UlSlot(room)
    BY <2>4, ReceivePreambleKeeps, UlSlotKeeps
  <2>5. QED
    BY <1>2, <2>1, <2>2, <2>3, <2>4 DEF Next
<1>3. QED
  BY <1>1, <1>2

\* For any number of UEs, preambles and RNTIs: a UE that joins by handover keeps the
\* preamble DoAllocateNcRaPreamble gave it until its access has ended, sends it at most
\* PreambleTransMax times, and no two UEs take the RNTI of one another, whatever is
\* lost, answered late or given up in between.  The ids of DoStartContentionBased-
\* RandomAccessProcedure must not have reached those of handovers, and the handover
\* joining timer must outlast the access.
THEOREM RachHolds ==
    ASSUME IdsApart, PatientJoining
    PROVE  Spec => []RachInv
<1>1. IInv /\ [Next]_vars => IInv'
  BY Keeps
<1>2. QED
  BY <1>1, Starts, Implies, PTL DEF Spec

-----------------------------------------------------------------------------
(* That no outcome of an access meets a state that does not expect it.  It *)
(* follows the SRS configurations: an answer without an RNTI is the one    *)
(* that two preambles can share.                                           *)

\* The SRS configurations suffice for the contexts there are and for those that the
\* preambles heard would create.
SrsSuffice == Cardinality(Contexts) + Cardinality(Unknown) <= SrsIndices
SlotsSuffice == (\E room \in 0 .. Cardinality(Ue) : UlSlot(room)) => SrsSuffice

\* A UE that has given up waits for no answer, and the context of one that is about
\* to send its first message expects that message, or is gone.
Expects(u) ==
    /\ phyId[u] # None /\ rrc[u] \notin {"access", "handover"} => ~waiting[u] /\ out[u] = {}
    /\ rrc[u] = "connecting" => rnti[u] # 0 /\ ctx[rnti[u]] \in {"access", "none"}
    /\ rrc[u] = "completing" => rnti[u] # 0 /\ ctx[rnti[u]] \in {"joining", "none"}

\* An answer is the only one to its preamble, and the context it creates is new.
AnswerStands(i, p) ==
    /\ rar[i][p].rnti # 0 /\ rar[i][p].id = p
    /\ p \notin Dedicated => ctx[rar[i][p].rnti] \in {"access", "none"}
RarStands == \A i \in DOMAIN rar : \A p \in DOMAIN rar[i] : AnswerStands(i, p)

ExpectInv == ResultsExpected /\ (\A u \in Ue : Expects(u)) /\ RarStands

\* What a step does to a context that is not for the UEs it moves.
Stays(q) == ctx[q] # "switching" => ctx'[q] \in {ctx[q], "none"}

LEMMA ExpectsStarts == Init => ExpectInv
  BY DEF Init, ExpectInv, ResultsExpected, Running, Expects, RarStands

\* UEs that a step leaves as they are.
LEMMA OthersExpect ==
    ASSUME IInv, ExpectInv, NEW U \in SUBSET Ue,
           \A u \in U : Expects(u)',
           \A v \in Ue : v \notin U => /\ rrc'[v] = rrc[v] /\ rnti'[v] = rnti[v]
                                       /\ phyId'[v] \in {phyId[v], None}
                                       /\ waiting'[v] = waiting[v] /\ out'[v] = out[v],
           \A q \in Rnti : q <= last /\ (\A u \in U : rnti[u] # q) => Stays(q)
    PROVE  \A v \in Ue : Expects(v)'
<1> SUFFICES ASSUME NEW v \in Ue, v \notin U PROVE Expects(v)'
  OBVIOUS
<1>1. Expects(v)
  BY DEF ExpectInv
<1>2. ASSUME rrc[v] \in {"connecting", "completing"} PROVE Stays(rnti[v])
  <2>1. Held(v) = rnti[v] /\ rnti[v] # 0
    BY <1>1, <1>2 DEF IInv, UeFits, Fits, Held, Expects
  <2>2. rnti[v] \in Rnti /\ rnti[v] <= last
    BY <2>1, UeTypes, ConstantFacts DEF IInv, HeldBounded, Rnti
  <2>3. ASSUME NEW u \in U PROVE rnti[u] # rnti[v]
    <3>1. rnti[u] # 0 => Held(u) = rnti[u]
      BY DEF IInv, UeFits, Fits, Held
    <3>2. QED
      BY <2>1, <3>1 DEF IInv, HeldDistinct
  <2>4. QED
    BY <2>2, <2>3
<1>3. /\ rrc'[v] = rrc[v] /\ rnti'[v] = rnti[v] /\ phyId'[v] \in {phyId[v], None}
      /\ waiting'[v] = waiting[v] /\ out'[v] = out[v]
  OBVIOUS
<1>4. QED
  BY <1>1, <1>2, <1>3 DEF Expects, Stays

\* Answers that a step leaves on the air.
LEMMA AnswersStand ==
    ASSUME IInv, RarStands, NEW U \in SUBSET Ue,
           \A q \in Rnti : q <= last /\ (\A u \in U : rnti[u] # q) => Stays(q),
           NEW i \in DOMAIN rar, NEW p \in DOMAIN rar[i]
    PROVE  /\ AnswerStands(i, p)
           /\ p \notin Dedicated => ctx'[rar[i][p].rnti] \in {"access", "none"}
<1>1. AnswerStands(i, p) /\ AnswerFits(i, p)
  BY DEF RarStands, IInv, RarFits
<1>2. ASSUME p \notin Dedicated PROVE ctx'[rar[i][p].rnti] \in {"access", "none"}
  <2>1. PICK r : r = rar[i][p].rnti
    OBVIOUS
  <2>2. IsNew(i, r) /\ r # 0 /\ r <= last /\ ctx[r] \in {"access", "none"}
    BY <1>1, <1>2, <2>1 DEF AnswerFits, AnswerStands
  <2>3. r \in Rnti
    BY <2>1, <2>2, RarTypes, ConstantFacts DEF IInv, Rnti
  <2>4. ASSUME NEW u \in U PROVE rnti[u] # r
    <3>1. rnti[u] # 0 => Held(u) = rnti[u]
      BY DEF IInv, UeFits, Fits, Held
    <3>2. QED
      BY <2>2, <3>1 DEF IsNew
  <2>5. QED
    BY <2>1, <2>2, <2>3, <2>4 DEF Stays
<1>3. QED
  BY <1>1, <1>2

\* A step that sends no answer and takes none.
LEMMA StillExpected ==
    ASSUME IInv, ExpectInv, NEW U \in SUBSET Ue, UNCHANGED <<rar, fault>>,
           \A u \in U : Expects(u)',
           \A v \in Ue : v \notin U => /\ rrc'[v] = rrc[v] /\ rnti'[v] = rnti[v]
                                       /\ phyId'[v] \in {phyId[v], None}
                                       /\ waiting'[v] = waiting[v] /\ out'[v] = out[v],
           \A q \in Rnti : q <= last /\ (\A u \in U : rnti[u] # q) => Stays(q)
    PROVE  ExpectInv'
<1>1. \A v \in Ue : Expects(v)'
  BY OthersExpect
<1>2. ASSUME NEW i \in DOMAIN rar, NEW p \in DOMAIN rar[i] PROVE AnswerStands(i, p)'
  BY AnswersStand DEF ExpectInv, AnswerStands
<1>3. QED
  BY <1>1, <1>2 DEF ExpectInv, RarStands, ResultsExpected, Running

\* The same, of one UE.
LEMMA OneUeExpects ==
    ASSUME IInv, ExpectInv, NEW u \in Ue, UNCHANGED <<rar, fault>>, Expects(u)',
           \A v \in Ue : v # u => /\ rrc'[v] = rrc[v] /\ rnti'[v] = rnti[v]
                                  /\ phyId'[v] = phyId[v]
                                  /\ waiting'[v] = waiting[v] /\ out'[v] = out[v],
           \A q \in Rnti : q <= last /\ rnti[u] # q => Stays(q)
    PROVE  ExpectInv'
<1>1. {u} \in SUBSET Ue
  OBVIOUS
<1>2. QED
  BY <1>1, StillExpected

\* The same, of a step of the gNB.
LEMMA GnbExpects ==
    ASSUME IInv, ExpectInv, UNCHANGED <<rrc, rnti, phyId, waiting, out, rar, fault>>,
           \A q \in Rnti : q <= last => Stays(q)
    PROVE  ExpectInv'
<1>1. {} \in SUBSET Ue
  OBVIOUS
<1>2. QED
  BY <1>1, StillExpected

LEMMA AccessExpected ==
    ASSUME IInv, ExpectInv, NEW u \in Ue, StartAccess(u) \/ StartHandover(u)
    PROVE  ExpectInv'
<1>1. /\ rrc'[u] \in {"access", "handover"}
      /\ \A v \in Ue : v # u => /\ rrc'[v] = rrc[v] /\ rnti'[v] = rnti[v]
                                /\ phyId'[v] = phyId[v]
                                /\ waiting'[v] = waiting[v] /\ out'[v] = out[v]
      /\ ctx' = ctx /\ rar' = rar /\ fault' = fault
  BY DEF IInv, TypeOK, StartAccess, StartHandover, SendNext, Send, gnbVars
<1>2. Expects(u)'
  BY <1>1 DEF Expects
<1>3. QED
  BY <1>1, <1>2, OneUeExpects DEF Stays

LEMMA WaitingExpected ==
    ASSUME IInv, ExpectInv, NEW u \in Ue, StartWaitingForRaResponse(u)
    PROVE  ExpectInv'
<1>1. /\ UNCHANGED <<rrc, rnti, phyId, ctx, rar, fault>> /\ out[u] # {}
      /\ \A v \in Ue : v # u => waiting'[v] = waiting[v] /\ out'[v] = out[v]
  BY DEF IInv, TypeOK, StartWaitingForRaResponse, gnbVars
<1>2. Expects(u)'
  BY <1>1 DEF ExpectInv, Expects
<1>3. QED
  BY <1>1, <1>2, OneUeExpects DEF Stays

LEMMA LeaveExpected ==
    ASSUME IInv, ExpectInv, NEW u \in Ue, NEW removed \in BOOLEAN, Leave(u, removed),
           UNCHANGED <<rar, fault>>, \A v \in Ue : v # u => waiting'[v] = waiting[v]
    PROVE  ExpectInv'
<1>1. /\ rrc'[u] = "idle" /\ phyId'[u] = None /\ out' = out
      /\ \A v \in Ue : v # u => rrc'[v] = rrc[v] /\ rnti'[v] = rnti[v] /\ phyId'[v] = phyId[v]
  BY DEF IInv, TypeOK, Leave
<1>2. \A q \in Rnti : q # rnti[u] => Stays(q)
  BY DEF Leave, RemoveUe, gnbVars, Stays
<1>3. Expects(u)'
  BY <1>1 DEF Expects
<1>4. QED
  BY <1>1, <1>2, <1>3, OneUeExpects

LEMMA TimeoutExpected ==
    ASSUME IInv, ExpectInv, NEW u \in Ue, RaResponseTimeout(u)
    PROVE  ExpectInv'
<1>1. Fits(u) /\ timer[u] # "off" /\ out[u] = {} /\ timer[u] \in {"off", "contention", "dedicated"}
  BY DEF IInv, TypeOK, UeFits, RaResponseTimeout
<1>2. rrc[u] \in {"access", "handover"}
  BY <1>1 DEF Fits
<1>3. /\ waiting' = [waiting EXCEPT ![u] = FALSE] /\ UNCHANGED <<rar, command, fault>>
      /\ \/ Fails(u)
         \/ timer[u] = "contention" /\ SendNext(u) /\ UNCHANGED <<rrc, rnti, air, gnbVars>>
         \/ /\ timer[u] = "dedicated" /\ Send(u, id[u], "dedicated")
            /\ UNCHANGED <<rrc, rnti, air, sent, gnbVars>>
  BY <1>2 DEF RaResponseTimeout
<1>4. waiting'[u] = FALSE /\ \A v \in Ue : v # u => waiting'[v] = waiting[v]
  BY <1>3 DEF IInv, TypeOK
<1>5. CASE rrc[u] = "handover" /\ Leave(u, TRUE)
  BY <1>3, <1>4, <1>5, LeaveExpected
<1>6. CASE /\ rrc[u] = "access" /\ rrc' = [rrc EXCEPT ![u] = "idle"]
           /\ UNCHANGED <<rnti, phyId, out, gnbVars>>
  <2>1. /\ rrc'[u] = "idle" /\ out'[u] = {} /\ \A v \in Ue : v # u => rrc'[v] = rrc[v]
        /\ ctx' = ctx
    BY <1>1, <1>6 DEF IInv, TypeOK, gnbVars
  <2>2. Expects(u)'
    BY <1>4, <2>1 DEF Expects
  <2>3. QED
    BY <1>3, <1>4, <1>6, <2>1, <2>2, OneUeExpects DEF Stays
<1>7. CASE (SendNext(u) \/ Send(u, id[u], "dedicated")) /\ UNCHANGED <<rrc, rnti, gnbVars>>
  <2>1. /\ \A v \in Ue : v # u => phyId'[v] = phyId[v] /\ out'[v] = out[v]
        /\ rrc'[u] \in {"access", "handover"} /\ ctx' = ctx
    BY <1>2, <1>7 DEF IInv, TypeOK, SendNext, Send, gnbVars
  <2>2. Expects(u)'
    BY <2>1 DEF Expects
  <2>3. QED
    BY <1>3, <1>4, <1>7, <2>1, <2>2, OneUeExpects DEF Stays
<1>8. QED
  BY <1>3, <1>5, <1>6, <1>7 DEF Fails

LEMMA IdleExpected ==
    ASSUME IInv, ExpectInv, NEW u \in Ue, ConnectionTimeout(u) \/ FindsCell(u)
    PROVE  ExpectInv'
<1>1. /\ rrc'[u] = "idle" /\ UNCHANGED <<phyId, waiting, out, ctx, rar, fault>>
      /\ \A v \in Ue : v # u => rrc'[v] = rrc[v] /\ rnti'[v] = rnti[v]
      /\ rrc[u] \in {"connecting", "elsewhere"}
  BY DEF IInv, TypeOK, ConnectionTimeout, FindsCell, gnbVars
<1>2. phyId[u] # None => ~waiting[u] /\ out[u] = {}
  BY <1>1 DEF ExpectInv, Expects
<1>3. Expects(u)'
  BY <1>1, <1>2 DEF Expects
<1>4. QED
  BY <1>1, <1>3, OneUeExpects DEF Stays

\* The first message meets the context it is for, or none.
LEMMA FirstMessageExpected ==
    ASSUME IInv, ExpectInv, NEW u \in Ue, RecvFirstMessage(u)
    PROVE  ExpectInv'
<1>0. rrc[u] \in {"connecting", "completing"} /\ rnti[u] \in Contexts
  BY Zenon DEF RecvFirstMessage
<1>1. rrc[u] \in {"connecting", "completing"} /\ rnti[u] \in Rnti /\ ctx[rnti[u]] # "none"
  BY <1>0 DEF Contexts
<1>2. ctx[rnti[u]] \in Expecting(rrc[u])
  BY <1>1 DEF ExpectInv, Expects, Expecting
<1>3. /\ rrc' = [rrc EXCEPT ![u] = "connected"]
      /\ ctx' = [ctx EXCEPT ![rnti[u]] = IF @ = "joining" THEN "switching" ELSE "connected"]
      /\ UNCHANGED <<rnti, phyId, waiting, out, rar, fault>>
  BY <1>2 DEF RecvFirstMessage
<1>4. /\ rrc'[u] = "connected" /\ \A v \in Ue : v # u => rrc'[v] = rrc[v]
      /\ \A q \in Rnti : rnti[u] # q => ctx'[q] = ctx[q]
  BY <1>3 DEF IInv, TypeOK
<1>5. Expects(u)'
  <2>1. phyId[u] # None => ~waiting[u] /\ out[u] = {}
    BY <1>1 DEF ExpectInv, Expects
  <2>2. QED
    BY <1>3, <1>4, <2>1 DEF Expects
<1>6. QED
  BY <1>3, <1>4, <1>5, OneUeExpects DEF Stays

LEMMA ContextsExpected ==
    ASSUME IInv, ExpectInv,
           \/ AccessElsewhere
           \/ \E u \in Ue : AdmitHandover(u)
           \/ \E u \in Ue : \E p \in Preamble : ReceiveRachPreamble(u, p)
           \/ \E p \in Dedicated : Expire(p)
           \/ \E r \in Rnti : PathSwitched(r) \/ ContextTimeout(r)
    PROVE  ExpectInv'
<1>0. last \in Nat
  BY ConstantFacts DEF IInv, TypeOK
<1>1. CASE AccessElsewhere \/ \E u \in Ue : \E p \in Preamble : ReceiveRachPreamble(u, p)
  <2>1. UNCHANGED <<rrc, rnti, phyId, waiting, out, rar, fault, ctx>>
    BY <1>1 DEF AccessElsewhere, ReceiveRachPreamble, gnbVars
  <2>2. QED
    BY <2>1, GnbExpects DEF Stays
<1>2. CASE \E u \in Ue : AdmitHandover(u)
  <2>1. UNCHANGED <<rrc, rnti, phyId, waiting, out, rar, fault>>
    BY <1>2 DEF AdmitHandover, ueVars
  <2>2. ctx' = ctx \/ ctx' = [ctx EXCEPT ![last + 1] = "joining"]
    BY <1>2 DEF AdmitHandover
  <2>3. \A q \in Rnti : q <= last => ctx'[q] = ctx[q]
    <3>1. \A q \in Rnti : q \in Nat /\ (q <= last => q # last + 1)
      BY <1>0, ConstantFacts DEF Rnti
    <3>2. QED
      BY <2>2, <3>1 DEF IInv, TypeOK
  <2>4. QED
    BY <2>1, <2>3, GnbExpects DEF Stays
<1>3. CASE \E p \in Dedicated : Expire(p)
  <2>1. UNCHANGED <<rrc, rnti, phyId, waiting, out, rar, fault, ctx>>
    BY <1>3 DEF Expire, ueVars
  <2>2. QED
    BY <2>1, GnbExpects DEF Stays
<1>4. CASE \E r \in Rnti : PathSwitched(r)
  <2>1. PICK r \in Rnti : PathSwitched(r)
    BY <1>4
  <2>2. UNCHANGED <<rrc, rnti, phyId, waiting, out, rar, fault>>
    BY <2>1 DEF PathSwitched, ueVars
  <2>3. ctx[r] = "switching" /\ \A q \in Rnti : q # r => ctx'[q] = ctx[q]
    BY <2>1 DEF PathSwitched, IInv, TypeOK
  <2>4. QED
    BY <2>2, <2>3, GnbExpects DEF Stays
<1>5. CASE \E r \in Rnti : ContextTimeout(r)
  <2>1. UNCHANGED <<rrc, rnti, phyId, waiting, out, rar, fault>>
    BY <1>5 DEF ContextTimeout, ueVars
  <2>2. \A q \in Rnti : Stays(q)
    BY <1>5 DEF ContextTimeout, RemoveUe, Stays
  <2>3. QED
    BY <2>1, <2>2, GnbExpects
<1>6. QED
  BY <1>1, <1>2, <1>3, <1>4, <1>5

\* A UE finds one answer at most, and it is still waiting for it.
LEMMA AnswerExpected ==
    ASSUME IInv, ExpectInv, RecvRaResponse
    PROVE  ExpectInv'
<1>1. /\ rar # <<>> /\ rar \in Seq(Rar) /\ Len(rar) \in Nat /\ Len(rar) >= 1
      /\ DOMAIN rar = 1 .. Len(rar) /\ 1 \in DOMAIN rar /\ Head(rar) = rar[1]
  BY DEF RecvRaResponse, IInv, RarTyped
<1>2. ASSUME NEW u \in Ue, Taken(u) # {}
      PROVE  /\ id[u] \in DOMAIN rar[1] /\ Taken(u) = {id[u]} /\ phyId[u] = id[u]
             /\ rar[1][id[u]].id = id[u]
             /\ rrc[u] \in {"access", "handover"} /\ Cardinality(Taken(u)) <= 1
             /\ Hears(u) /\ Fits(u)
  <2>1. Hears(u) /\ waiting[u] /\ Taken(u) = Mine(u)
    BY <1>2 DEF Taken
  <2>2. \A p \in DOMAIN rar[1] : rar[1][p].id = p
    BY <1>1 DEF ExpectInv, RarStands, AnswerStands
  <2>3. phyId[u] \in DOMAIN rar[1]
    BY <1>1, <2>1, <2>2 DEF Hears
  <2>4. phyId[u] # None
    BY <1>1, <2>3, RarTypes, ConstantFacts DEF IInv
  <2>5. phyId[u] = id[u] /\ Fits(u)
    BY <2>4 DEF IInv, UeFits, Fits
  <2>6. rrc[u] \in {"access", "handover"}
    BY <2>1, <2>4 DEF ExpectInv, Expects
  <2>7. Mine(u) = {id[u]}
    BY <1>1, <2>2, <2>3, <2>5 DEF Mine
  <2>8. Cardinality({id[u]}) = 1
    BY FS_Singleton
  <2>9. QED
    BY <2>1, <2>2, <2>3, <2>5, <2>6, <2>7, <2>8
<1> DEFINE done == {u \in Ue : Taken(u) # {}}
           P(u) == CHOOSE p \in Taken(u) : TRUE
<1>3. /\ rar' = Tail(rar) /\ UNCHANGED <<id, out, ctx, fault>>
      /\ phyId' = [u \in Ue |-> IF Hears(u) THEN None ELSE phyId[u]]
      /\ waiting' = [u \in Ue |-> IF u \in done THEN FALSE ELSE waiting[u]]
      /\ rnti' = [u \in Ue |-> IF u \in done THEN Head(rar)[P(u)].rnti ELSE rnti[u]]
      /\ rrc' = [u \in Ue |-> IF u \notin done THEN rrc[u]
                              ELSE IF rrc[u] = "access" THEN "connecting"
                              ELSE "completing"]
  <2>1. ASSUME NEW u \in Ue, Taken(u) # {}
        PROVE  rrc[u] \in {"access", "handover"} /\ ~(Cardinality(Taken(u)) > 1)
    <3>1. PICK c : c = Cardinality(Taken(u))
      OBVIOUS
    <3>2. rrc[u] \in {"access", "handover"} /\ Taken(u) = {id[u]}
      BY <1>2, <2>1
    <3>3. c = 1
      BY <3>1, <3>2, FS_Singleton
    <3>4. QED
      BY <3>1, <3>2, <3>3
  <2>2. ~(\E u \in Ue : Taken(u) # {} /\ (rrc[u] \notin {"access", "handover"}
                                          \/ Cardinality(Taken(u)) > 1))
    BY <2>1
  <2>3. QED
    BY <2>2 DEF RecvRaResponse, gnbVars
<1>4. \A q \in Rnti : Stays(q)
  BY <1>3 DEF Stays
<1>5. ASSUME NEW u \in done PROVE Expects(u)'
  <2>1. u \in Ue /\ Taken(u) # {}
    BY <1>5
  <2>2. P(u) = id[u]
    BY <1>2, <2>1
  <2>3. PICK r : r = rar[1][id[u]].rnti
    OBVIOUS
  <2>4. /\ rnti'[u] = r /\ phyId'[u] = None
        /\ rrc'[u] = IF rrc[u] = "access" THEN "connecting" ELSE "completing"
    BY <1>1, <1>2, <1>3, <1>5, <2>1, <2>2, <2>3
  <2>5. AnswerStands(1, id[u]) /\ AnswerFits(1, id[u])
    BY <1>1, <1>2, <2>1 DEF ExpectInv, RarStands, IInv, RarFits
  <2>6. r # 0
    BY <2>3, <2>5 DEF AnswerStands
  <2>7. CASE rrc[u] = "access"
    <3>1. id[u] \notin Dedicated
      BY <1>2, <2>1, <2>7, UeTypes, ConstantFacts DEF IInv, Fits
    <3>2. ctx[r] \in {"access", "none"}
      BY <2>3, <2>5, <3>1 DEF AnswerStands
    <3>3. QED
      BY <1>3, <2>4, <2>6, <2>7, <3>2 DEF Expects
  <2>8. CASE rrc[u] = "handover"
    <3>1. rnti[u] = r
      BY <1>2, <2>1, <2>3, <2>5, <2>6, <2>8 DEF AnswerFits
    <3>2. ctx[r] = "joining"
      BY <1>2, <2>1, <2>8, <3>1 DEF Fits
    <3>3. QED
      BY <1>3, <2>4, <2>6, <2>8, <3>2 DEF Expects
  <2>9. QED
    BY <1>2, <2>1, <2>7, <2>8
<1>6. done \in SUBSET Ue
  OBVIOUS
<1>7. \A v \in Ue : v \notin done => /\ rrc'[v] = rrc[v] /\ rnti'[v] = rnti[v]
                                     /\ phyId'[v] \in {phyId[v], None}
                                     /\ waiting'[v] = waiting[v] /\ out'[v] = out[v]
  BY <1>3
<1> HIDE DEF done, P
<1>8. \A v \in Ue : Expects(v)'
  BY <1>4, <1>5, <1>6, <1>7, OthersExpect
<1>9. ASSUME NEW i \in DOMAIN rar', NEW p \in DOMAIN rar'[i] PROVE AnswerStands(i, p)'
  <2>1. i + 1 \in DOMAIN rar /\ rar'[i] = rar[i + 1]
    BY <1>1, <1>3
  <2>2. AnswerStands(i + 1, p)
    BY <2>1 DEF ExpectInv, RarStands
  <2>3. QED
    BY <1>3, <2>1, <2>2 DEF AnswerStands
<1>10. QED
  BY <1>3, <1>8, <1>9 DEF ExpectInv, RarStands, ResultsExpected, Running

\* With SRS configurations to spare each preamble gets an RNTI of its own.
LEMMA AllNumbered ==
    ASSUME IInv, SrsSuffice, last + Cardinality(NewRntis) <= MaxRnti, NEW p \in Answered
    PROVE  /\ RntiOf(p) # 0 /\ Mapped[RntiOf(p)] = p
           /\ p \notin Dedicated => RntiOf(p) \in NewRntis
<1>0. Unknown \in SUBSET Preamble
  BY DEF Unknown, Answered
<1>1. last \in Nat /\ Unknown \in SUBSET Preamble /\ Unknown \in SUBSET Nat
  BY <1>0, ConstantFacts DEF IInv, TypeOK
<1>2. IsFiniteSet(Unknown) /\ Cardinality(Unknown) \in Nat
  <2>1. IsFiniteSet(Preamble)
    BY ConstantFacts, FS_Interval DEF Preamble
  <2>2. QED
    BY <1>1, <2>1, FS_Subset, FS_CardinalityType
<1>3. Cardinality(Contexts) \in Nat
  <2>1. IsFiniteSet(Rnti)
    BY ConstantFacts, FS_Interval DEF Rnti
  <2>2. Contexts \in SUBSET Rnti
    BY DEF Contexts
  <2>3. QED
    BY <2>1, <2>2, FS_Subset, FS_CardinalityType
<1>4. CASE Known(p)
  <2>1. RntiOf(p) = nc[p].rnti /\ nc[p].rnti \in Rnti /\ p \in Dedicated
    BY <1>4, ConstantFacts DEF RntiOf, Known, IInv, TypeOK
  <2>2. QED
    BY <1>4, <2>1, MappedFacts, ConstantFacts DEF Rnti
<1>5. CASE ~Known(p)
  <2>1. p \in Unknown
    BY <1>5 DEF Unknown
  <2>2. Rank(Unknown, p) \in Nat /\ Rank(Unknown, p) >= 1
    BY <1>1, <1>2, <2>1, Ranks
  <2>3. Rank(Unknown, p) <= Cardinality(Unknown)
    <3>1. {q \in Unknown : q <= p} \in SUBSET Unknown
      OBVIOUS
    <3>2. QED
      BY <1>2, <3>1, FS_Subset DEF Rank
  <2>4. Cardinality(Contexts) + Rank(Unknown, p) <= SrsIndices
    BY <1>2, <1>3, <2>2, <2>3, ConstantFacts DEF SrsSuffice
  <2>5. RntiOf(p) = last + Rank(Unknown, p)
    BY <1>5, <2>4 DEF RntiOf
  <2>6. RntiOf(p) # 0
    BY <1>1, <2>2, <2>5
  <2>7. RntiOf(p) \in NewRntis
    BY <2>1, <2>6 DEF NewRntis
  <2>8. QED
    BY <1>5, <2>6, <2>7, MappedFacts
<1>6. QED
  BY <1>4, <1>5

LEMMA SlotExpected ==
    ASSUME IInv, ExpectInv, SrsSuffice, NEW room \in 0 .. Cardinality(Ue), UlSlot(room)
    PROVE  ExpectInv'
<1> DEFINE built == {p \in Answered : Rank(Answered, p) <= room}
           new == [p \in built |-> [id |-> Mapped[RntiOf(p)], rnti |-> RntiOf(p)]]
<1>1. /\ last + Cardinality(NewRntis) <= MaxRnti
      /\ ctx' = [r \in Rnti |-> IF r \in NewRntis THEN "access" ELSE ctx[r]]
      /\ UNCHANGED <<rrc, rnti, phyId, waiting, out, fault>>
      /\ rar' = rar \/ rar' = Append(rar, new)
  BY DEF UlSlot, ueVars
<1>2. last \in Nat
  BY ConstantFacts DEF IInv, TypeOK
<1>3. \A q \in Rnti : q <= last => Stays(q)
  <2>1. \A q \in NewRntis : q > last
    BY <1>2, Numbered DEF IInv, NewRntis
  <2>2. \A q \in Rnti : q <= last => q \notin NewRntis
    BY <1>2, <2>1, ConstantFacts DEF Rnti
  <2>3. QED
    BY <1>1, <2>2 DEF Stays
<1>4. {} \in SUBSET Ue
  OBVIOUS
<1>5. \A v \in Ue : Expects(v)'
  BY <1>1, <1>3, <1>4, OthersExpect
<1>6. ASSUME NEW p \in DOMAIN new
      PROVE  /\ new[p].rnti # 0 /\ new[p].id = p
             /\ p \notin Dedicated => ctx'[new[p].rnti] = "access"
  <2>1. p \in Answered /\ new[p].id = Mapped[RntiOf(p)] /\ new[p].rnti = RntiOf(p)
    OBVIOUS
  <2> HIDE DEF new
  <2>2. RntiOf(p) # 0 /\ Mapped[RntiOf(p)] = p /\ (p \notin Dedicated => RntiOf(p) \in NewRntis)
    BY <1>1, <2>1, AllNumbered
  <2>3. RntiOf(p) \in Rnti
    BY <1>1, <2>1, <2>2, MappedFacts, ConstantFacts DEF Rnti
  <2>4. QED
    BY <1>1, <2>1, <2>2, <2>3
<1> HIDE DEF new
<1>7. ASSUME NEW i \in DOMAIN rar, NEW p \in DOMAIN rar[i], rar'[i] = rar[i]
      PROVE  AnswerStands(i, p)'
  <2>1. /\ AnswerStands(i, p)
        /\ p \notin Dedicated => ctx'[rar[i][p].rnti] \in {"access", "none"}
    BY <1>3, <1>4, AnswersStand DEF ExpectInv
  <2>2. QED
    BY <1>7, <2>1 DEF AnswerStands
<1>8. RarStands'
  <2>1. CASE rar' = rar
    BY <1>7, <2>1 DEF RarStands
  <2>2. CASE rar' = Append(rar, new)
    <3>1. PICK n : n = Len(rar) + 1
      OBVIOUS
    <3>2. /\ DOMAIN rar' = 1 .. n /\ rar'[n] = new
          /\ \A i \in DOMAIN rar' : i # n => i \in DOMAIN rar /\ rar'[i] = rar[i]
      BY <2>2, <3>1 DEF IInv, RarTyped
    <3>3. ASSUME NEW p \in DOMAIN rar'[n] PROVE AnswerStands(n, p)'
      BY <1>6, <3>2 DEF AnswerStands
    <3>4. ASSUME NEW i \in DOMAIN rar', i # n, NEW p \in DOMAIN rar'[i] PROVE AnswerStands(i, p)'
      BY <1>7, <3>2, <3>4
    <3>5. QED
      BY <3>3, <3>4 DEF RarStands
  <2>3. QED
    BY <1>1, <2>1, <2>2
<1>9. QED
  BY <1>1, <1>5, <1>8 DEF ExpectInv, ResultsExpected, Running

LEMMA ExpectationsKept ==
    ASSUME IInv, ExpectInv, [Next]_vars, SlotsSuffice
    PROVE  ExpectInv'
<1>1. CASE UNCHANGED vars
  BY <1>1, GnbExpects DEF vars, ueVars, gnbVars, Stays
<1>2. CASE \E u \in Ue : \/ StartAccess(u) \/ StartHandover(u) \/ StartWaitingForRaResponse(u)
                         \/ RaResponseTimeout(u) \/ ConnectionTimeout(u) \/ FindsCell(u)
                         \/ RecvFirstMessage(u)
  BY <1>2, AccessExpected, WaitingExpected, TimeoutExpected, IdleExpected, FirstMessageExpected
<1>3. CASE \E u \in Ue : RadioLinkFailureDetected(u) \/ Disconnect(u)
  BY <1>3, LeaveExpected DEF RadioLinkFailureDetected, Disconnect
<1>4. CASE RecvRaResponse
  BY <1>4, AnswerExpected
<1>5. CASE \E room \in 0 .. Cardinality(Ue) : UlSlot(room)
  BY <1>5, SlotExpected DEF SlotsSuffice
<1>6. CASE \/ AccessElsewhere
           \/ \E u \in Ue : AdmitHandover(u)
           \/ \E u \in Ue : \E p \in Preamble : ReceiveRachPreamble(u, p)
           \/ \E p \in Dedicated : Expire(p)
           \/ \E r \in Rnti : PathSwitched(r) \/ ContextTimeout(r)
  BY <1>6, ContextsExpected
<1>7. QED
  BY <1>1, <1>2, <1>3, <1>4, <1>5, <1>6 DEF Next

\* For any number of UEs, preambles and RNTIs: as long as no uplink slot finds the SRS
\* configurations used up, DoNotifyRandomAccessSuccessful, DoNotifyRandomAccessFailed
\* and the gNB's handlers of the first message are never called in a state for which
\* they end the program.
THEOREM NothingUnexpected ==
    ASSUME IdsApart, PatientJoining
    PROVE  Spec /\ [][SlotsSuffice]_vars => []ResultsExpected
<1>1. IInv /\ [Next]_vars => IInv'
  BY Keeps
<1>2. IInv /\ ExpectInv /\ [Next]_vars /\ [SlotsSuffice]_vars => ExpectInv'
  <2>1. CASE SlotsSuffice
    BY <2>1, ExpectationsKept
  <2>2. CASE UNCHANGED vars
    BY <2>2, GnbExpects DEF vars, ueVars, gnbVars, Stays
  <2>3. QED
    BY <2>1, <2>2
<1>3. ExpectInv => ResultsExpected
  BY DEF ExpectInv
<1>4. QED
  BY <1>1, <1>2, <1>3, Starts, ExpectsStarts, PTL DEF Spec
=============================================================================

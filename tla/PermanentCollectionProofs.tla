--------------------- MODULE PermanentCollectionProofs ---------------------
(***************************************************************************)
(* Proofs about the records core, for every dataset.                        *)
(*                                                                          *)
(* The inductive invariant IInv says, in first-order terms, how the custody *)
(* map, the log, the pending counters and the completion mask determine     *)
(* one another; the properties of PermanentCollection follow from it.       *)
(***************************************************************************)
EXTENDS PermanentCollection, FiniteSetTheorems, TLAPS

-----------------------------------------------------------------------------
(***************************************************************************)
(* The inductive invariant.                                                 *)
(***************************************************************************)
InAuction(p) == custody[p] = "InReturnAuction"
Vaulted(p) == custody[p] = "Vaulted"

\* The latest row of a Punk is a row of that Punk, with its live custody and a
\* target the Punk carries.
IndexInv ==
    \A p \in Punks :
        /\ acquisitionIndexOf[p] = 0 <=> custody[p] = "None"
        /\ acquisitionIndexOf[p] # 0 =>
              /\ acquisitionIndexOf[p] \in 1 .. Len(acquisitions)
              /\ RowOf(p).punk = p
              /\ RowOf(p).custody = custody[p]
              /\ TargetOf(p) \in Carries[p]

\* Rows that are not the latest of their Punk are older and settled.
OldRowsInv ==
    \A i \in 1 .. Len(acquisitions) :
        acquisitionIndexOf[acquisitions[i].punk] # i =>
            /\ i < acquisitionIndexOf[acquisitions[i].punk]
            /\ acquisitions[i].custody = "ReturnedToMarket"

\* A trait is pending exactly when one Punk is in auction for it.
ClaimInv ==
    /\ \A p \in Punks : InAuction(p) => pendingTraitCount[TargetOf(p)] = 1
    /\ \A t \in Traits : pendingTraitCount[t] # 0 =>
          /\ pendingTraitCount[t] = 1
          /\ t \notin collectedMask
          /\ \E p \in Punks : InAuction(p) /\ TargetOf(p) = t
    /\ \A p, q \in Punks :
          InAuction(p) /\ InAuction(q) /\ TargetOf(p) = TargetOf(q) => p = q

\* A collected trait was brought in by one vaulted Punk, the first vaulted.
VaultInv ==
    /\ \A p \in Punks : Vaulted(p) =>
          TargetOf(p) \in collectedMask /\ firstVaulted[TargetOf(p)] = p
    /\ \A t \in collectedMask :
          /\ firstVaulted[t] \in Punks
          /\ Vaulted(firstVaulted[t])
          /\ TargetOf(firstVaulted[t]) = t
    /\ \A t \in Traits \ collectedMask : firstVaulted[t] = NoPunk

IInv == TypeOK /\ IndexInv /\ OldRowsInv /\ ClaimInv /\ VaultInv

-----------------------------------------------------------------------------
(***************************************************************************)
(* Type correctness.                                                        *)
(***************************************************************************)
LEMMA RowType ==
    ASSUME TypeOK, NEW p \in Punks,
           acquisitionIndexOf[p] \in 1 .. Len(acquisitions)
    PROVE  RowOf(p) \in Acquisition /\ TargetOf(p) \in Traits
<1>1. RowOf(p) \in Acquisition
  BY DEF TypeOK, RowOf
<1>2. QED
  BY <1>1 DEF TargetOf, Acquisition

LEMMA RecordType ==
    ASSUME TypeOK, NEW p \in Punks, NEW t \in Traits, NEW a \in Accounts,
           NEW s \in Accounts, NEW c \in Prices, RecordAcquisition(p, t, a, s, c)
    PROVE  TypeOK'
<1> DEFINE row == [punk |-> p, target |-> t, acquirer |-> a, seller |-> s,
                   price |-> c, custody |-> "InReturnAuction"]
<1>1. row \in Acquisition
  BY DEF Acquisition, Custody
<1>2. acquisitions' = Append(acquisitions, row)
  BY DEF RecordAcquisition
<1>3. acquisitions' \in Seq(Acquisition) /\ Len(acquisitions') \in Nat
  BY <1>1, <1>2 DEF TypeOK
<1>4. QED
  BY <1>3 DEF TypeOK, RecordAcquisition, Custody

LEMMA MarkType ==
    ASSUME TypeOK, IndexInv, NEW p \in Punks, NEW o \in Custody, MarkCustody(p, o)
    PROVE  TypeOK'
<1>1. acquisitionIndexOf[p] \in 1 .. Len(acquisitions)
  BY DEF MarkCustody, IndexInv
<1>2. TargetOf(p) \in Traits
  BY <1>1, RowType
<1> DEFINE row == [RowOf(p) EXCEPT !.custody = o]
<1>3. acquisitions' = [acquisitions EXCEPT ![acquisitionIndexOf[p]] = row]
  BY DEF MarkCustody, RowOf
<1>4. row \in Acquisition
  BY <1>1, RowType DEF Acquisition
<1>5. acquisitions' \in Seq(Acquisition)
  BY <1>1, <1>3, <1>4 DEF TypeOK
<1>6. pendingTraitCount' \in [Traits -> Nat]
  BY <1>2 DEF TypeOK, MarkCustody, ReleaseClaim
<1>7. collectedMask' \subseteq Traits /\ firstVaulted' \in [Traits -> Punks \cup {NoPunk}]
  BY <1>2 DEF TypeOK, MarkCustody, Collect
<1>8. QED
  BY <1>5, <1>6, <1>7 DEF TypeOK, MarkCustody, Custody

-----------------------------------------------------------------------------
(***************************************************************************)
(* What each operation does to the rows of the log.                         *)
(***************************************************************************)
LEMMA RecordFrame ==
    ASSUME TypeOK, IndexInv, NEW p \in Punks, NEW t \in Traits, NEW a \in Accounts,
           NEW s \in Accounts, NEW c \in Prices, RecordAcquisition(p, t, a, s, c)
    PROVE  /\ Len(acquisitions') = Len(acquisitions) + 1
           /\ \A i \in 1 .. Len(acquisitions) : acquisitions'[i] = acquisitions[i]
           /\ acquisitionIndexOf'[p] = Len(acquisitions) + 1
           /\ RowOf(p)' = [punk |-> p, target |-> t, acquirer |-> a, seller |-> s,
                           price |-> c, custody |-> "InReturnAuction"]
           /\ TargetOf(p)' = t
           /\ \A q \in Punks \ {p} :
                 /\ acquisitionIndexOf'[q] = acquisitionIndexOf[q]
                 /\ custody'[q] = custody[q]
                 /\ acquisitionIndexOf[q] # 0 =>
                       RowOf(q)' = RowOf(q) /\ TargetOf(q)' = TargetOf(q)
<1> DEFINE row == [punk |-> p, target |-> t, acquirer |-> a, seller |-> s,
                   price |-> c, custody |-> "InReturnAuction"]
<1>1. row \in Acquisition
  BY DEF Acquisition, Custody
<1>2. acquisitions' = Append(acquisitions, row)
  BY DEF RecordAcquisition
<1> HIDE DEF row
<1>3. /\ Len(acquisitions') = Len(acquisitions) + 1
      /\ \A i \in 1 .. Len(acquisitions) : acquisitions'[i] = acquisitions[i]
      /\ acquisitions'[Len(acquisitions) + 1] = row
      /\ Len(acquisitions) \in Nat
  BY <1>1, <1>2 DEF TypeOK
<1>4. /\ acquisitionIndexOf' = [acquisitionIndexOf EXCEPT ![p] = Len(acquisitions')]
      /\ custody' = [custody EXCEPT ![p] = "InReturnAuction"]
  BY DEF RecordAcquisition
<1>5. acquisitionIndexOf'[p] = Len(acquisitions) + 1
  BY <1>3, <1>4 DEF TypeOK
<1>6. RowOf(p)' = row
  BY <1>3, <1>5 DEF RowOf
<1>7. ASSUME NEW q \in Punks \ {p}
      PROVE  /\ acquisitionIndexOf'[q] = acquisitionIndexOf[q]
             /\ custody'[q] = custody[q]
  BY <1>4 DEF TypeOK
<1>8. ASSUME NEW q \in Punks \ {p}, acquisitionIndexOf[q] # 0
      PROVE  RowOf(q)' = RowOf(q) /\ TargetOf(q)' = TargetOf(q)
  <2>1. acquisitionIndexOf[q] \in 1 .. Len(acquisitions)
    BY <1>8 DEF IndexInv
  <2>2. RowOf(q)' = RowOf(q)
    BY <1>3, <1>7, <2>1 DEF RowOf
  <2>3. QED
    BY <2>2 DEF TargetOf
<1>9. TargetOf(p)' = t
  BY <1>6 DEF TargetOf, row
<1>10. QED
  BY <1>3, <1>5, <1>6, <1>7, <1>8, <1>9 DEF row

LEMMA MarkFrame ==
    ASSUME TypeOK, IndexInv, NEW p \in Punks, NEW o \in Custody, MarkCustody(p, o)
    PROVE  /\ acquisitionIndexOf[p] # 0
           /\ acquisitionIndexOf' = acquisitionIndexOf
           /\ Len(acquisitions') = Len(acquisitions)
           /\ \A i \in 1 .. Len(acquisitions) :
                 IF i = acquisitionIndexOf[p]
                 THEN acquisitions'[i] = [acquisitions[i] EXCEPT !.custody = o]
                 ELSE acquisitions'[i] = acquisitions[i]
           /\ custody'[p] = o
           /\ RowOf(p)' = [RowOf(p) EXCEPT !.custody = o]
           /\ \A q \in Punks \ {p} :
                 /\ custody'[q] = custody[q]
                 /\ acquisitionIndexOf[q] # 0 => RowOf(q)' = RowOf(q)
           /\ \A q \in Punks : acquisitionIndexOf[q] # 0 => TargetOf(q)' = TargetOf(q)
<1>1. acquisitionIndexOf[p] \in 1 .. Len(acquisitions)
  BY DEF MarkCustody, IndexInv
<1> DEFINE row == [RowOf(p) EXCEPT !.custody = o]
<1>2. acquisitions' = [acquisitions EXCEPT ![acquisitionIndexOf[p]] = row]
  BY DEF MarkCustody, RowOf
<1>3. row \in Acquisition /\ row.target = TargetOf(p)
  BY <1>1, RowType DEF Acquisition, TargetOf
<1>4. /\ acquisitionIndexOf' = acquisitionIndexOf
      /\ custody' = [custody EXCEPT ![p] = o]
  BY DEF MarkCustody
<1>5. row = [acquisitions[acquisitionIndexOf[p]] EXCEPT !.custody = o]
  BY DEF RowOf
<1> HIDE DEF row
<1>6. /\ Len(acquisitions') = Len(acquisitions)
      /\ \A i \in 1 .. Len(acquisitions) :
            acquisitions'[i] = IF i = acquisitionIndexOf[p] THEN row ELSE acquisitions[i]
  BY <1>1, <1>2, <1>3 DEF TypeOK
<1>7. RowOf(p)' = row /\ TargetOf(p)' = TargetOf(p)
  BY <1>1, <1>3, <1>4, <1>6 DEF RowOf, TargetOf
<1>8. ASSUME NEW q \in Punks \ {p}
      PROVE  custody'[q] = custody[q]
  BY <1>4 DEF TypeOK
<1>9. ASSUME NEW q \in Punks \ {p}, acquisitionIndexOf[q] # 0
      PROVE  RowOf(q)' = RowOf(q) /\ TargetOf(q)' = TargetOf(q)
  <2>1. acquisitionIndexOf[q] \in 1 .. Len(acquisitions) /\ RowOf(q).punk = q
    BY <1>9 DEF IndexInv
  <2>2. acquisitionIndexOf[q] # acquisitionIndexOf[p]
    BY <1>1, <2>1 DEF IndexInv, RowOf
  <2>3. RowOf(q)' = RowOf(q)
    BY <1>4, <1>6, <2>1, <2>2 DEF RowOf
  <2>4. QED
    BY <2>3 DEF TargetOf
<1>10. custody'[p] = o
  BY <1>4 DEF TypeOK
<1>11. row = [RowOf(p) EXCEPT !.custody = o]
  BY <1>5 DEF RowOf
<1>12. \A i \in 1 .. Len(acquisitions) :
          IF i = acquisitionIndexOf[p]
          THEN acquisitions'[i] = [acquisitions[i] EXCEPT !.custody = o]
          ELSE acquisitions'[i] = acquisitions[i]
  BY <1>5, <1>6
<1>13. acquisitionIndexOf[p] # 0
  BY <1>1
<1>14. QED
  BY <1>4, <1>6, <1>7, <1>8, <1>9, <1>10, <1>11, <1>12, <1>13

-----------------------------------------------------------------------------
(***************************************************************************)
(* The two operations preserve each part of the inductive invariant.        *)
(***************************************************************************)
LEMMA InitInv == Init => IInv
<1> SUFFICES ASSUME Init PROVE IInv
  OBVIOUS
<1>1. TypeOK
  BY DatasetAssumption DEF Init, TypeOK, Custody
<1>2. IndexInv /\ OldRowsInv /\ ClaimInv /\ VaultInv
  BY DEF Init, IndexInv, OldRowsInv, ClaimInv, VaultInv, InAuction, Vaulted
<1>3. QED
  BY <1>1, <1>2 DEF IInv

\* A recorded Punk has a target among the traits.
LEMMA TargetType ==
    ASSUME TypeOK, IndexInv, NEW p \in Punks, acquisitionIndexOf[p] # 0
    PROVE  TargetOf(p) \in Traits
<1>1. acquisitionIndexOf[p] \in 1 .. Len(acquisitions)
  BY DEF IndexInv
<1>2. QED
  BY <1>1, RowType

LEMMA RecordPreserves ==
    ASSUME IInv, NEW p \in Punks, NEW t \in Traits, NEW a \in Accounts,
           NEW s \in Accounts, NEW c \in Prices, RecordAcquisition(p, t, a, s, c)
    PROVE  IInv'
<1> USE DEF IInv
<1> DEFINE n == Len(acquisitions)
<1>0. n \in Nat
  BY DEF TypeOK
<1>1. TypeOK'
  BY RecordType
<1>2. /\ Acquirable(p)
      /\ t \in Carries[p] /\ t \notin collectedMask /\ pendingTraitCount[t] = 0
      /\ pendingTraitCount' = [pendingTraitCount EXCEPT ![t] = @ + 1]
      /\ custody'[p] = "InReturnAuction"
      /\ UNCHANGED <<collectedMask, firstVaulted>>
  BY DEF RecordAcquisition, TargetGuard, TypeOK
<1>3. ~InAuction(p) /\ ~Vaulted(p) /\ InAuction(p)' /\ ~Vaulted(p)'
  BY <1>2 DEF Acquirable, InAuction, Vaulted
<1>4. \A q \in Punks \ {p} :
          /\ InAuction(q)' = InAuction(q)
          /\ Vaulted(q)' = Vaulted(q)
          /\ acquisitionIndexOf[q] # 0 => TargetOf(q)' = TargetOf(q)
  BY RecordFrame DEF InAuction, Vaulted
<1>5. \A q \in Punks : InAuction(q) \/ Vaulted(q) => acquisitionIndexOf[q] # 0
  BY DEF IndexInv, InAuction, Vaulted
<1>6. IndexInv'
  <2>1. ASSUME NEW q \in Punks, q # p
        PROVE  /\ acquisitionIndexOf'[q] = 0 <=> custody'[q] = "None"
               /\ acquisitionIndexOf'[q] # 0 =>
                     /\ acquisitionIndexOf'[q] \in 1 .. Len(acquisitions')
                     /\ RowOf(q)'.punk = q
                     /\ RowOf(q)'.custody = custody'[q]
                     /\ TargetOf(q)' \in Carries[q]
    BY <2>1, <1>0, RecordFrame DEF IndexInv
  <2>2. /\ acquisitionIndexOf'[p] # 0 /\ custody'[p] # "None"
        /\ acquisitionIndexOf'[p] \in 1 .. Len(acquisitions')
        /\ RowOf(p)'.punk = p
        /\ RowOf(p)'.custody = custody'[p]
        /\ TargetOf(p)' \in Carries[p]
    BY <1>0, <1>2, RecordFrame
  <2>3. QED
    BY <2>1, <2>2 DEF IndexInv
<1>7. OldRowsInv'
  <2> SUFFICES ASSUME NEW i \in 1 .. Len(acquisitions'),
                      acquisitionIndexOf'[acquisitions'[i].punk] # i
               PROVE  /\ i < acquisitionIndexOf'[acquisitions'[i].punk]
                      /\ acquisitions'[i].custody = "ReturnedToMarket"
    BY DEF OldRowsInv
  <2>1. acquisitions'[n + 1].punk = p
    <3>1. RowOf(p)' = acquisitions'[acquisitionIndexOf'[p]]
      BY DEF RowOf
    <3>2. RowOf(p)'.punk = p /\ acquisitionIndexOf'[p] = n + 1
      BY RecordFrame
    <3>3. QED
      BY <3>1, <3>2
  <2>2. i # n + 1
    BY <2>1, RecordFrame
  <2>3. i \in 1 .. n /\ acquisitions'[i] = acquisitions[i]
    BY <1>0, <2>2, RecordFrame
  <2>4. acquisitions[i].punk \in Punks
    <3>1. acquisitions[i] \in Acquisition
      BY <2>3 DEF TypeOK
    <3>2. QED
      BY <3>1 DEF Acquisition
  <2>5. CASE acquisitions[i].punk = p
    <3>1. i < n + 1
      BY <1>0, <2>3
    <3>2. acquisitions[i].custody = "ReturnedToMarket"
      <4>1. CASE acquisitionIndexOf[p] = i
        <5>1. acquisitions[i].custody = custody[p] /\ custody[p] # "None"
          BY <2>3, <4>1 DEF IndexInv, RowOf
        <5>2. QED
          BY <1>2, <5>1 DEF Acquirable
      <4>2. CASE acquisitionIndexOf[p] # i
        BY <2>3, <2>5, <4>2 DEF OldRowsInv
      <4>3. QED
        BY <4>1, <4>2
    <3>3. QED
      BY <2>3, <2>5, <3>1, <3>2, RecordFrame
  <2>6. CASE acquisitions[i].punk # p
    BY <2>3, <2>4, <2>6, RecordFrame DEF OldRowsInv
  <2>7. QED
    BY <2>5, <2>6
<1>8. ClaimInv'
  <2>1. \A q \in Punks : InAuction(q) => TargetOf(q) # t
    BY <1>2 DEF ClaimInv
  <2>2. TargetOf(p)' = t
    BY RecordFrame
  <2>3. pendingTraitCount'[t] = 1 /\ \A u \in Traits \ {t} : pendingTraitCount'[u] = pendingTraitCount[u]
    BY <1>2 DEF TypeOK
  <2>4. \A q \in Punks : InAuction(q) => TargetOf(q) \in Traits
    BY <1>5, TargetType
  <2>5. \A q \in Punks : InAuction(q)' => pendingTraitCount'[TargetOf(q)'] = 1
    BY <1>4, <1>5, <2>1, <2>2, <2>3, <2>4 DEF ClaimInv
  <2>6. \A u \in Traits : pendingTraitCount'[u] # 0 =>
            /\ pendingTraitCount'[u] = 1
            /\ u \notin collectedMask'
            /\ \E q \in Punks : InAuction(q)' /\ TargetOf(q)' = u
    BY <1>2, <1>3, <1>4, <1>5, <2>2, <2>3 DEF ClaimInv
  <2>7. \A q, r \in Punks :
            InAuction(q)' /\ InAuction(r)' /\ TargetOf(q)' = TargetOf(r)' => q = r
    BY <1>4, <1>5, <2>1, <2>2 DEF ClaimInv
  <2>8. QED
    BY <2>5, <2>6, <2>7 DEF ClaimInv
<1>9. VaultInv'
  BY <1>2, <1>3, <1>4, <1>5 DEF VaultInv
<1>10. QED
  BY <1>1, <1>6, <1>7, <1>8, <1>9

LEMMA MarkPreserves ==
    ASSUME IInv, NEW p \in Punks, NEW o \in Custody, MarkCustody(p, o)
    PROVE  IInv'
<1> USE DEF IInv
<1> DEFINE t == TargetOf(p)
<1>1. TypeOK'
  BY MarkType
<1>2. /\ acquisitionIndexOf[p] # 0
      /\ InAuction(p)
      /\ o \in {"ReturnedToMarket", "Vaulted"}
  BY DEF MarkCustody, InAuction
<1>3. t \in Traits
  BY <1>2, TargetType
<1>4. /\ ~InAuction(p)'
      /\ Vaulted(p)' <=> o = "Vaulted"
      /\ \A q \in Punks \ {p} : InAuction(q)' = InAuction(q) /\ Vaulted(q)' = Vaulted(q)
      /\ \A q \in Punks : acquisitionIndexOf[q] # 0 => TargetOf(q)' = TargetOf(q)
  BY <1>2, MarkFrame DEF InAuction, Vaulted
<1>5. \A q \in Punks : InAuction(q) \/ Vaulted(q) =>
          acquisitionIndexOf[q] # 0 /\ TargetOf(q) \in Traits
  BY TargetType DEF IndexInv, InAuction, Vaulted
<1>6. t \notin collectedMask /\ pendingTraitCount[t] = 1
  BY <1>2, <1>3 DEF ClaimInv
<1>7. /\ pendingTraitCount'[t] = 0
      /\ \A u \in Traits \ {t} : pendingTraitCount'[u] = pendingTraitCount[u]
  BY <1>3, <1>6 DEF TypeOK, MarkCustody, ReleaseClaim
<1>8. IF o = "Vaulted"
      THEN /\ collectedMask' = collectedMask \cup {t}
           /\ firstVaulted'[t] = p
           /\ \A u \in Traits \ {t} : firstVaulted'[u] = firstVaulted[u]
      ELSE UNCHANGED <<collectedMask, firstVaulted>>
  BY <1>3, <1>6 DEF TypeOK, MarkCustody, Collect
<1>9. IndexInv'
  <2>1. ASSUME NEW q \in Punks, q # p
        PROVE  /\ acquisitionIndexOf'[q] = 0 <=> custody'[q] = "None"
               /\ acquisitionIndexOf'[q] # 0 =>
                     /\ acquisitionIndexOf'[q] \in 1 .. Len(acquisitions')
                     /\ RowOf(q)'.punk = q
                     /\ RowOf(q)'.custody = custody'[q]
                     /\ TargetOf(q)' \in Carries[q]
    BY <2>1, MarkFrame DEF IndexInv
  <2>2. RowOf(p) \in Acquisition
    BY <1>2, RowType DEF IndexInv
  <2>3. /\ acquisitionIndexOf'[p] # 0 /\ custody'[p] # "None"
        /\ acquisitionIndexOf'[p] \in 1 .. Len(acquisitions')
        /\ RowOf(p)'.punk = p
        /\ RowOf(p)'.custody = custody'[p]
        /\ TargetOf(p)' \in Carries[p]
    BY <1>2, <2>2, MarkFrame DEF IndexInv, Acquisition
  <2>4. QED
    BY <2>1, <2>3 DEF IndexInv
<1>10. OldRowsInv'
  <2> SUFFICES ASSUME NEW i \in 1 .. Len(acquisitions'),
                      acquisitionIndexOf'[acquisitions'[i].punk] # i
               PROVE  /\ i < acquisitionIndexOf'[acquisitions'[i].punk]
                      /\ acquisitions'[i].custody = "ReturnedToMarket"
    BY DEF OldRowsInv
  <2>1. /\ i \in 1 .. Len(acquisitions)
        /\ acquisitionIndexOf' = acquisitionIndexOf
        /\ i = acquisitionIndexOf[p] =>
              acquisitions'[i] = [acquisitions[i] EXCEPT !.custody = o]
        /\ i # acquisitionIndexOf[p] => acquisitions'[i] = acquisitions[i]
    BY MarkFrame
  <2>2. acquisitions[i] \in Acquisition
    BY <2>1 DEF TypeOK
  <2>3. acquisitions'[i].punk = acquisitions[i].punk
    BY <2>1, <2>2 DEF Acquisition
  <2>4. i # acquisitionIndexOf[p]
    BY <1>2, <2>1, <2>3 DEF IndexInv, RowOf
  <2>5. acquisitions'[i] = acquisitions[i]
    BY <2>1, <2>4
  <2>6. QED
    BY <2>1, <2>5 DEF OldRowsInv
<1>11. ClaimInv'
  <2>1. \A q \in Punks : InAuction(q)' => pendingTraitCount'[TargetOf(q)'] = 1
    BY <1>2, <1>4, <1>5, <1>7 DEF ClaimInv
  <2>2. \A u \in Traits : pendingTraitCount'[u] # 0 =>
            /\ pendingTraitCount'[u] = 1
            /\ u \notin collectedMask'
            /\ \E q \in Punks : InAuction(q)' /\ TargetOf(q)' = u
    BY <1>2, <1>4, <1>5, <1>7, <1>8 DEF ClaimInv
  <2>3. \A q, r \in Punks :
            InAuction(q)' /\ InAuction(r)' /\ TargetOf(q)' = TargetOf(r)' => q = r
    BY <1>4, <1>5 DEF ClaimInv
  <2>4. QED
    BY <2>1, <2>2, <2>3 DEF ClaimInv
<1>12. VaultInv'
  <2>1. CASE o = "Vaulted"
    <3>1. /\ collectedMask' = collectedMask \cup {t}
          /\ firstVaulted'[t] = p
          /\ \A u \in Traits \ {t} : firstVaulted'[u] = firstVaulted[u]
          /\ collectedMask \subseteq Traits
      BY <1>8, <2>1 DEF TypeOK
    <3>2. Vaulted(p)' /\ TargetOf(p)' = t
      BY <1>2, <1>4, <2>1
    <3>3. \A q \in Punks : Vaulted(q)' =>
              TargetOf(q)' \in collectedMask' /\ firstVaulted'[TargetOf(q)'] = q
      BY <1>4, <1>5, <1>6, <3>1, <3>2 DEF VaultInv
    <3>4. \A u \in collectedMask' :
              /\ firstVaulted'[u] \in Punks
              /\ Vaulted(firstVaulted[u])'
              /\ TargetOf(firstVaulted[u])' = u
      <4>1. ASSUME NEW u \in collectedMask, u # t
            PROVE  /\ firstVaulted'[u] \in Punks
                   /\ Vaulted(firstVaulted[u])'
                   /\ TargetOf(firstVaulted[u])' = u
        <5> DEFINE q == firstVaulted[u]
        <5>1. firstVaulted'[u] = q /\ q \in Punks /\ Vaulted(q) /\ TargetOf(q) = u
          BY <3>1, <4>1 DEF VaultInv
        <5>2. q # p
          BY <1>2, <5>1 DEF InAuction, Vaulted
        <5>3. Vaulted(q)' /\ TargetOf(q)' = u
          BY <1>4, <1>5, <5>1, <5>2
        <5>4. QED
          BY <5>1, <5>3 DEF Vaulted, TargetOf, RowOf
      <4>2. QED
        BY <3>1, <3>2, <4>1 DEF Vaulted, TargetOf, RowOf
    <3>5. \A u \in Traits \ collectedMask' : firstVaulted'[u] = NoPunk
      BY <3>1 DEF VaultInv
    <3>6. QED
      BY <3>3, <3>4, <3>5 DEF VaultInv
  <2>2. CASE o # "Vaulted"
    BY <2>2, <1>2, <1>4, <1>5, <1>8 DEF VaultInv, InAuction, Vaulted
  <2>3. QED
    BY <2>1, <2>2
<1>13. QED
  BY <1>1, <1>9, <1>10, <1>11, <1>12

LEMMA NextInv == IInv /\ [Next]_vars => IInv'
<1> SUFFICES ASSUME IInv, [Next]_vars PROVE IInv'
  OBVIOUS
<1>1. CASE Record
  BY <1>1, RecordPreserves DEF Record
<1>2. CASE Mark
  BY <1>2, MarkPreserves DEF Mark
<1>3. CASE UNCHANGED vars
  BY <1>3 DEF IInv, TypeOK, IndexInv, OldRowsInv, ClaimInv, VaultInv,
              InAuction, Vaulted, RowOf, TargetOf, vars
<1>4. QED
  BY <1>1, <1>2, <1>3 DEF Next

\* The inductive invariant holds in every reachable state, for every dataset.
THEOREM Invariance == Spec => []IInv
<1>1. Init => IInv
  BY InitInv
<1>2. IInv /\ [Next]_vars => IInv'
  BY NextInv
<1>3. QED
  BY <1>1, <1>2, PTL DEF Spec

\* Every variable keeps its type, on every dataset and for logs of any length.
THEOREM TypeCorrect == Spec => []TypeOK
<1>1. IInv => TypeOK
  BY DEF IInv
<1>2. QED
  BY <1>1, Invariance, PTL

-----------------------------------------------------------------------------
(***************************************************************************)
(* Consequences of the invariant.                                           *)
(***************************************************************************)
\* For every dataset, a trait's pending counter is the number of Punks in
\* auction for it: it is never taken twice and always given back.
THEOREM PendingMatches == Spec => []PendingMatchesAuctions
<1>1. IInv => PendingMatchesAuctions
  <2> SUFFICES ASSUME IInv, NEW t \in Traits
               PROVE  /\ pendingTraitCount[t] = Cardinality(InAuctionFor(t))
                      /\ pendingTraitCount[t] <= 1
                      /\ t \in collectedMask => pendingTraitCount[t] = 0
    BY DEF PendingMatchesAuctions
  <2>1. \A p \in Punks : p \in InAuctionFor(t) <=> InAuction(p) /\ TargetOf(p) = t
    BY DEF InAuctionFor, InAuction
  <2>2. CASE pendingTraitCount[t] = 0
    <3>1. InAuctionFor(t) = {}
      BY <2>1, <2>2 DEF IInv, ClaimInv, InAuctionFor
    <3>2. QED
      BY <2>2, <3>1, FS_EmptySet
  <2>3. CASE pendingTraitCount[t] # 0
    <3>1. pendingTraitCount[t] = 1 /\ t \notin collectedMask
      BY <2>3 DEF IInv, ClaimInv
    <3>2. PICK p \in Punks : InAuction(p) /\ TargetOf(p) = t
      BY <2>3 DEF IInv, ClaimInv
    <3>3. InAuctionFor(t) = {p}
      BY <2>1, <3>2 DEF IInv, ClaimInv, InAuctionFor
    <3>4. Cardinality(InAuctionFor(t)) = 1
      BY <3>3, FS_Singleton
    <3>5. QED
      BY <3>1, <3>4
  <2>4. QED
    BY <2>2, <2>3
<1>2. QED
  BY <1>1, Invariance, PTL

\* For every dataset, each collected trait has exactly one vaulted Punk behind
\* it and every vaulted Punk has added a trait.
THEOREM OneVaultedPunk == Spec => []OneVaultedPunkPerTrait
<1>1. IInv => OneVaultedPunkPerTrait
  <2> SUFFICES ASSUME IInv, NEW t \in Traits
               PROVE  IF t \in collectedMask
                      THEN VaultedFor(t) = {firstVaulted[t]}
                      ELSE VaultedFor(t) = {} /\ firstVaulted[t] = NoPunk
    BY DEF OneVaultedPunkPerTrait
  <2>1. \A p \in Punks : p \in VaultedFor(t) <=> Vaulted(p) /\ TargetOf(p) = t
    BY DEF VaultedFor, Vaulted
  <2>2. VaultedFor(t) \subseteq Punks
    BY DEF VaultedFor
  <2>3. QED
    BY <2>1, <2>2 DEF IInv, VaultInv
<1>2. QED
  BY <1>1, Invariance, PTL

\* The log and the custody map never disagree, whatever the length of the log.
THEOREM LogAgrees == Spec => []LogMatchesCustody
<1>1. IInv => LogMatchesCustody
  <2> SUFFICES ASSUME IInv PROVE LogMatchesCustody
    OBVIOUS
  <2>1. DOMAIN acquisitions = 1 .. Len(acquisitions)
    BY DEF IInv, TypeOK
  <2>2. \A p \in Punks : acquisitionIndexOf[p] = 0 <=> custody[p] = "None"
    BY DEF IInv, IndexInv
  <2>3. ASSUME NEW i \in 1 .. Len(acquisitions)
        PROVE  IF acquisitionIndexOf[acquisitions[i].punk] = i
               THEN acquisitions[i].custody = custody[acquisitions[i].punk]
               ELSE /\ i < acquisitionIndexOf[acquisitions[i].punk]
                    /\ acquisitions[i].custody = "ReturnedToMarket"
    <3>1. acquisitions[i] \in Acquisition
      BY DEF IInv, TypeOK
    <3>2. acquisitions[i].punk \in Punks
      BY <3>1 DEF Acquisition
    <3>3. QED
      BY <3>2 DEF IInv, IndexInv, OldRowsInv, RowOf
  <2>4. QED
    BY <2>1, <2>2, <2>3 DEF LogMatchesCustody
<1>2. QED
  BY <1>1, Invariance, PTL

-----------------------------------------------------------------------------
(***************************************************************************)
(* The sole carrier and the rarest traits.                                  *)
(***************************************************************************)
\* Once acquired, the sole carrier is behind SoleTrait until it is returned.
SoleInv == InAuction(SolePunk) \/ Vaulted(SolePunk) => TargetOf(SolePunk) = SoleTrait

LEMMA SoleInvStep == IInv /\ SoleInv /\ [Next]_vars => SoleInv'
<1> SUFFICES ASSUME IInv, SoleInv, [Next]_vars PROVE SoleInv'
  OBVIOUS
<1> USE DEF IInv
<1>1. InAuction(SolePunk) \/ Vaulted(SolePunk) => acquisitionIndexOf[SolePunk] # 0
  BY SoleCarrierAssumption DEF IndexInv, InAuction, Vaulted
<1>2. ASSUME NEW p \in Punks, NEW t \in Traits, NEW a \in Accounts,
             NEW s \in Accounts, NEW c \in Prices, RecordAcquisition(p, t, a, s, c)
      PROVE  SoleInv'
  <2>1. CASE p = SolePunk
    <3>1. Acquirable(p) /\ SoleCarrierGuard(p, t)
      BY <1>2 DEF RecordAcquisition, TargetGuard
    <3>2. SoleTrait \notin collectedMask
      <4>1. SUFFICES ASSUME SoleTrait \in collectedMask PROVE FALSE
        OBVIOUS
      <4> DEFINE q == firstVaulted[SoleTrait]
      <4>2. q \in Punks /\ Vaulted(q) /\ TargetOf(q) = SoleTrait
        BY <4>1 DEF VaultInv
      <4>3. SoleTrait \in Carries[q]
        BY <4>2 DEF IndexInv, Vaulted
      <4>4. q = SolePunk
        BY <4>2, <4>3, SoleCarrierAssumption
      <4>5. QED
        BY <2>1, <3>1, <4>2, <4>4 DEF Acquirable, Vaulted
    <3>3. t = SoleTrait
      BY <2>1, <3>1, <3>2 DEF SoleCarrierGuard
    <3>4. TargetOf(SolePunk)' = SoleTrait
      BY <1>2, <2>1, <3>3, RecordFrame
    <3>5. QED
      BY <3>4 DEF SoleInv
  <2>2. CASE p # SolePunk
    BY <1>1, <1>2, <2>2, RecordFrame, SoleCarrierAssumption DEF SoleInv, InAuction, Vaulted
  <2>3. QED
    BY <2>1, <2>2
<1>3. ASSUME NEW p \in Punks, NEW o \in Custody, MarkCustody(p, o)
      PROVE  SoleInv'
  <2>1. CASE p = SolePunk
    BY <1>3, <2>1, MarkFrame DEF SoleInv, InAuction, MarkCustody
  <2>2. CASE p # SolePunk
    BY <1>1, <1>3, <2>2, MarkFrame, SoleCarrierAssumption DEF SoleInv, InAuction, Vaulted
  <2>3. QED
    BY <2>1, <2>2
<1>4. CASE UNCHANGED vars
  BY <1>4 DEF SoleInv, InAuction, Vaulted, TargetOf, RowOf, vars
<1>5. QED
  BY <1>2, <1>3, <1>4 DEF Next, Record, Mark

\* For every dataset in which SoleTrait has one carrier, that carrier is acquired
\* and locked for SoleTrait only, and locking it collects SoleTrait.
THEOREM SoleCarrier == Spec => []SoleCarrierNeverWasted
<1>1. Init => SoleInv
  BY SoleCarrierAssumption DEF Init, SoleInv, InAuction, Vaulted
<1>2. IInv /\ SoleInv => SoleCarrierNeverWasted
  BY SoleCarrierAssumption
     DEF IInv, VaultInv, SoleInv, InAuction, Vaulted, SoleCarrierNeverWasted
<1>3. QED
  BY <1>1, <1>2, Invariance, SoleInvStep, PTL DEF Spec

LEMMA RarestPathStep ==
    IInv /\ RarestPathPreserved /\ [Next]_vars => RarestPathPreserved'
<1> SUFFICES ASSUME IInv, RarestPathPreserved, [Next]_vars,
                    NEW u \in Traits, LocallyRarest(u), u \notin collectedMask',
                    NEW carrier \in Punks, u \in Carries[carrier]
             PROVE  \E q \in Punks : OpenPath(q, u)'
  BY DEF RarestPathPreserved
<1> USE DEF IInv
<1>1. ASSUME NEW p \in Punks, NEW t \in Traits, NEW a \in Accounts,
             NEW s \in Accounts, NEW c \in Prices, RecordAcquisition(p, t, a, s, c)
      PROVE  \E q \in Punks : OpenPath(q, u)'
  <2>1. u \notin collectedMask /\ Acquirable(p) /\ IsCanonicalTarget(p, t)
    BY <1>1 DEF RecordAcquisition, TargetGuard
  <2>2. PICK q \in Punks : OpenPath(q, u)
    BY <2>1 DEF RarestPathPreserved
  <2>3. CASE q # p
    <3>1. custody'[q] = custody[q]
      BY <1>1, <2>3, RecordFrame
    <3>2. custody[q] = "InReturnAuction" => TargetOf(q)' = TargetOf(q)
      BY <1>1, <2>3, RecordFrame DEF IndexInv
    <3>3. OpenPath(q, u)'
      BY <2>2, <3>1, <3>2 DEF OpenPath, Acquirable
    <3>4. QED
      BY <3>3
  <2>4. CASE q = p /\ pendingTraitCount[u] # 0
    <3>1. PICK r \in Punks : InAuction(r) /\ TargetOf(r) = u
      BY <2>4 DEF ClaimInv
    <3>2. r # p /\ acquisitionIndexOf[r] # 0
      BY <2>1, <3>1 DEF Acquirable, InAuction, IndexInv
    <3>3. u \in Carries[r] /\ custody'[r] = "InReturnAuction" /\ TargetOf(r)' = u
      BY <1>1, <3>1, <3>2, RecordFrame DEF IndexInv, InAuction
    <3>4. OpenPath(r, u)'
      BY <3>3 DEF OpenPath
    <3>5. QED
      BY <3>4
  <2>5. CASE q = p /\ pendingTraitCount[u] = 0
    <3>1. u \in Carries[p] /\ u \in EligibleTraits(p)
      BY <2>1, <2>2, <2>5 DEF OpenPath, EligibleTraits
    <3>2. t = u
      <4>1. SUFFICES ASSUME t # u PROVE FALSE
        OBVIOUS
      <4>2. Rarer(t, u) /\ t \in Carries[p]
        BY <2>1, <3>1, <4>1 DEF IsCanonicalTarget, EligibleTraits
      <4>3. Rarer(u, t)
        BY <3>1, <4>1, <4>2 DEF LocallyRarest
      <4>4. CarrierCount[t] \in Nat /\ CarrierCount[u] \in Nat /\ t \in Int /\ u \in Int
        BY DatasetAssumption DEF Traits
      <4>5. QED
        BY <4>2, <4>3, <4>4 DEF Rarer
    <3>3. custody'[p] = "InReturnAuction"
      BY <1>1 DEF RecordAcquisition, TypeOK
    <3>4. OpenPath(p, u)'
      BY <1>1, <3>1, <3>2, <3>3, RecordFrame DEF OpenPath
    <3>5. QED
      BY <3>4
  <2>6. QED
    BY <2>3, <2>4, <2>5
<1>2. ASSUME NEW p \in Punks, NEW o \in Custody, MarkCustody(p, o)
      PROVE  \E q \in Punks : OpenPath(q, u)'
  <2>1. u \notin collectedMask
    BY <1>2 DEF MarkCustody, Collect
  <2>2. PICK q \in Punks : OpenPath(q, u)
    BY <2>1 DEF RarestPathPreserved
  <2>3. CASE q # p
    <3>1. custody'[q] = custody[q]
      BY <1>2, <2>3, MarkFrame
    <3>2. custody[q] = "InReturnAuction" => TargetOf(q)' = TargetOf(q)
      BY <1>2, <2>3, MarkFrame DEF IndexInv
    <3>3. OpenPath(q, u)'
      BY <2>2, <3>1, <3>2 DEF OpenPath, Acquirable
    <3>4. QED
      BY <3>3
  <2>4. CASE q = p
    <3>1. custody[p] = "InReturnAuction" /\ TargetOf(p) = u /\ u \in Carries[p]
      BY <1>2, <2>2, <2>4 DEF MarkCustody, OpenPath, Acquirable
    <3>2. o = "ReturnedToMarket"
      BY <1>2, <2>1, <3>1 DEF MarkCustody, Collect
    <3>3. OpenPath(p, u)'
      BY <1>2, <3>1, <3>2, MarkFrame DEF OpenPath, Acquirable
    <3>4. QED
      BY <3>3
  <2>5. QED
    BY <2>3, <2>4
<1>3. CASE UNCHANGED vars
  BY <1>3 DEF RarestPathPreserved, OpenPath, Acquirable, TargetOf, RowOf, vars
<1>4. QED
  BY <1>1, <1>2, <1>3 DEF Next, Record, Mark

\* For every dataset and every order of acquisitions and settlements, a trait
\* that is the rarest of each of its carriers stays collectable until it is
\* collected.
THEOREM RarestPath == Spec => []RarestPathPreserved
<1>1. Init => RarestPathPreserved
  BY DEF Init, RarestPathPreserved, OpenPath, Acquirable
<1>2. QED
  BY <1>1, Invariance, RarestPathStep, PTL DEF Spec

-----------------------------------------------------------------------------
(***************************************************************************)
(* History.                                                                 *)
(***************************************************************************)
\* What a step may do to the past, as HistoryIsKept states it.
KeepsHistory ==
    /\ collectedMask \subseteq collectedMask'
    /\ \A t \in Traits : attemptCount[t] <= attemptCount'[t]
    /\ \A p \in Punks : custody[p] = "Vaulted" => custody'[p] = "Vaulted"
    /\ Len(acquisitions) <= Len(acquisitions')
    /\ \A i \in DOMAIN acquisitions :
          \/ acquisitions'[i] = acquisitions[i]
          \/ /\ acquisitions[i].custody = "InReturnAuction"
             /\ \E c \in {"ReturnedToMarket", "Vaulted"} :
                   acquisitions'[i] = [acquisitions[i] EXCEPT !.custody = c]

LEMMA HistoryStep == IInv /\ [Next]_vars => [KeepsHistory]_vars
<1> SUFFICES ASSUME IInv, Next PROVE KeepsHistory
  OBVIOUS
<1> USE DEF IInv
<1>0. DOMAIN acquisitions = 1 .. Len(acquisitions) /\ Len(acquisitions) \in Nat
  BY DEF TypeOK
<1>1. ASSUME NEW p \in Punks, NEW t \in Traits, NEW a \in Accounts,
             NEW s \in Accounts, NEW c \in Prices, RecordAcquisition(p, t, a, s, c)
      PROVE  KeepsHistory
  <2>1. collectedMask' = collectedMask /\ Acquirable(p)
    BY <1>1 DEF RecordAcquisition
  <2>2. \A q \in Punks : custody[q] = "Vaulted" => custody'[q] = "Vaulted"
    BY <1>1, <2>1, RecordFrame DEF Acquirable
  <2>3. /\ Len(acquisitions') = Len(acquisitions) + 1
        /\ \A i \in 1 .. Len(acquisitions) : acquisitions'[i] = acquisitions[i]
    BY <1>1, RecordFrame
  <2>4. \A u \in Traits : attemptCount[u] <= attemptCount'[u]
    BY <1>1 DEF RecordAcquisition, TypeOK
  <2>5. QED
    BY <1>0, <2>1, <2>2, <2>3, <2>4 DEF KeepsHistory
<1>2. ASSUME NEW p \in Punks, NEW o \in Custody, MarkCustody(p, o)
      PROVE  KeepsHistory
  <2>1. custody[p] = "InReturnAuction" /\ o \in {"ReturnedToMarket", "Vaulted"}
    BY <1>2 DEF MarkCustody
  <2>2. collectedMask \subseteq collectedMask'
    BY <1>2 DEF MarkCustody, Collect
  <2>3. \A q \in Punks : custody[q] = "Vaulted" => custody'[q] = "Vaulted"
    BY <1>2, <2>1, MarkFrame
  <2>4. acquisitions[acquisitionIndexOf[p]].custody = "InReturnAuction"
    BY <1>2, <2>1, MarkFrame DEF IndexInv, RowOf
  <2>5. \A i \in 1 .. Len(acquisitions) :
            \/ acquisitions'[i] = acquisitions[i]
            \/ /\ acquisitions[i].custody = "InReturnAuction"
               /\ acquisitions'[i] = [acquisitions[i] EXCEPT !.custody = o]
    BY <1>2, <2>4, MarkFrame
  <2>6. Len(acquisitions') = Len(acquisitions)
    BY <1>2, MarkFrame
  <2>7. \A u \in Traits : attemptCount[u] <= attemptCount'[u]
    BY <1>2 DEF MarkCustody, TypeOK
  <2>8. QED
    BY <1>0, <2>1, <2>2, <2>3, <2>5, <2>6, <2>7 DEF KeepsHistory
<1>3. QED
  BY <1>1, <1>2 DEF Next, Record, Mark

\* Whatever the dataset, no step shrinks the collection, lowers an attempt
\* count, unlocks a vaulted Punk or rewrites a row of the log.
THEOREM HistoryKept == Spec => HistoryIsKept
<1>1. Spec => [][KeepsHistory]_vars
  BY Invariance, HistoryStep, PTL DEF Spec
<1>2. QED
  BY <1>1 DEF HistoryIsKept, KeepsHistory

-----------------------------------------------------------------------------
(***************************************************************************)
(* The records core implements TraitLedger.                                 *)
(***************************************************************************)
\* The Punk behind a trait, under the invariant.
LEMMA Behind ==
    ASSUME IInv, NEW t \in Traits
    PROVE  /\ \A p \in Punks : InAuction(p) /\ TargetOf(p) = t => BehindTrait(t) = p
           /\ pendingTraitCount[t] = 0 => BehindTrait(t) = firstVaulted[t]
<1> USE DEF IInv
<1>1. ASSUME NEW p \in Punks, InAuction(p), TargetOf(p) = t
      PROVE  BehindTrait(t) = p
  <2>1. InAuctionFor(t) = {p}
    BY <1>1 DEF InAuctionFor, InAuction, ClaimInv
  <2>2. QED
    BY <2>1 DEF BehindTrait
<1>2. ASSUME pendingTraitCount[t] = 0
      PROVE  BehindTrait(t) = firstVaulted[t]
  <2>1. InAuctionFor(t) = {}
    BY <1>2 DEF InAuctionFor, InAuction, ClaimInv
  <2>2. QED
    BY <2>1 DEF BehindTrait
<1>3. QED
  BY <1>1, <1>2

\* A Punk that may be acquired is behind no trait.
LEMMA BehindNothing ==
    ASSUME IInv, NEW p \in Punks, Acquirable(p), NEW t \in Traits
    PROVE  BehindTrait(t) # p
<1> USE DEF IInv
<1>1. CASE pendingTraitCount[t] = 0
  <2>1. BehindTrait(t) = firstVaulted[t]
    BY <1>1, Behind
  <2>2. QED
    BY <2>1, DatasetAssumption DEF VaultInv, Vaulted, Acquirable
<1>2. CASE pendingTraitCount[t] # 0
  <2>1. PICK q \in Punks : InAuction(q) /\ TargetOf(q) = t
    BY <1>2 DEF ClaimInv
  <2>2. BehindTrait(t) = q
    BY <2>1, Behind
  <2>3. QED
    BY <2>1, <2>2 DEF InAuction, Acquirable
<1>3. QED
  BY <1>1, <1>2

\* What one step leaves behind every trait it does not touch.
LEMMA BehindFrame ==
    ASSUME IInv, IInv', NEW p \in Punks, NEW t \in Traits,
           \A q \in Punks \ {p} :
              InAuction(q) => InAuction(q)' /\ TargetOf(q)' = TargetOf(q),
           pendingTraitCount'[t] = pendingTraitCount[t],
           firstVaulted'[t] = firstVaulted[t],
           InAuction(p) => TargetOf(p) # t
    PROVE  BehindTrait(t)' = BehindTrait(t)
<1> USE DEF IInv
<1>1. CASE pendingTraitCount[t] = 0
  <2>1. BehindTrait(t) = firstVaulted[t]
    BY <1>1, Behind
  <2>2. InAuctionFor(t)' = {}
    BY <1>1 DEF ClaimInv, InAuctionFor, InAuction
  <2>3. QED
    BY <2>1, <2>2 DEF BehindTrait
<1>2. CASE pendingTraitCount[t] # 0
  <2>1. PICK q \in Punks : InAuction(q) /\ TargetOf(q) = t
    BY <1>2 DEF ClaimInv
  <2>2. BehindTrait(t) = q /\ q # p
    BY <2>1, Behind
  <2>3. InAuction(q)' /\ TargetOf(q)' = t
    BY <2>1, <2>2
  <2>4. InAuctionFor(t)' = {q}
    BY <2>3 DEF ClaimInv, InAuctionFor, InAuction
  <2>5. QED
    BY <2>2, <2>4 DEF BehindTrait
<1>3. QED
  BY <1>1, <1>2

\* The refinement mapping, named.
PhaseBar == [t \in Traits |-> PhaseOf(t)]
ByBar == [t \in Traits |-> BehindTrait(t)]

LEMMA RecordClaims ==
    ASSUME IInv, IInv', NEW p \in Punks, NEW t \in Traits, NEW a \in Accounts,
           NEW s \in Accounts, NEW c \in Prices, RecordAcquisition(p, t, a, s, c)
    PROVE  Ledger!Claim(p, t)
<1>1. /\ Acquirable(p)
      /\ t \in Carries[p] /\ t \notin collectedMask /\ pendingTraitCount[t] = 0
      /\ pendingTraitCount' = [pendingTraitCount EXCEPT ![t] = @ + 1]
      /\ UNCHANGED <<collectedMask, firstVaulted>>
  BY DEF RecordAcquisition, TargetGuard
<1>2. pendingTraitCount'[t] = 1 /\ \A u \in Traits \ {t} : pendingTraitCount'[u] = pendingTraitCount[u]
  BY <1>1 DEF IInv, TypeOK
<1>3. ~InAuction(p) /\ InAuction(p)' /\ TargetOf(p)' = t
  BY <1>1, RecordFrame DEF IInv, TypeOK, Acquirable, InAuction, RecordAcquisition
<1>4. \A q \in Punks \ {p} : InAuction(q) => InAuction(q)' /\ TargetOf(q)' = TargetOf(q)
  BY RecordFrame DEF IInv, IndexInv, InAuction
<1>5. PhaseOf(t) = "open" /\ PhaseOf(t)' = "pending"
  BY <1>1, <1>2 DEF PhaseOf
<1>6. \A u \in Traits \ {t} : PhaseOf(u)' = PhaseOf(u)
  BY <1>1, <1>2 DEF PhaseOf
<1>7. BehindTrait(t)' = p
  <2>1. InAuctionFor(t)' = {p}
    BY <1>3 DEF IInv, ClaimInv, InAuctionFor, InAuction
  <2>2. QED
    BY <2>1 DEF BehindTrait
<1>8. \A u \in Traits \ {t} : BehindTrait(u)' = BehindTrait(u)
  BY <1>1, <1>2, <1>3, <1>4, BehindFrame
<1>9. \A u \in Traits : BehindTrait(u) # p
  BY <1>1, BehindNothing
<1>10. PhaseBar' = [PhaseBar EXCEPT ![t] = "pending"]
  BY <1>5, <1>6 DEF PhaseBar
<1>11. ByBar' = [ByBar EXCEPT ![t] = p]
  BY <1>7, <1>8 DEF ByBar
<1>12. QED
  BY <1>1, <1>5, <1>9, <1>10, <1>11 DEF Ledger!Claim, PhaseBar, ByBar

LEMMA MarkSettles ==
    ASSUME IInv, IInv', NEW p \in Punks, NEW o \in Custody, MarkCustody(p, o),
           NEW t \in Traits, TargetOf(p) = t
    PROVE  Ledger!Release(t) \/ Ledger!Collect(t)
<1>1. InAuction(p) /\ acquisitionIndexOf[p] # 0
  BY DEF MarkCustody, InAuction
<1>2. t \notin collectedMask /\ pendingTraitCount[t] = 1 /\ firstVaulted[t] = NoPunk
  BY <1>1 DEF IInv, ClaimInv, VaultInv
<1>3. /\ pendingTraitCount'[t] = 0
      /\ \A u \in Traits \ {t} : pendingTraitCount'[u] = pendingTraitCount[u]
  BY <1>1, <1>2 DEF IInv, TypeOK, MarkCustody, ReleaseClaim
<1>4. IF o = "Vaulted"
      THEN /\ collectedMask' = collectedMask \cup {t}
           /\ firstVaulted'[t] = p
           /\ \A u \in Traits \ {t} : firstVaulted'[u] = firstVaulted[u]
      ELSE UNCHANGED <<collectedMask, firstVaulted>>
  BY <1>1, <1>2 DEF IInv, TypeOK, MarkCustody, Collect
<1>5. \A q \in Punks \ {p} : InAuction(q) => InAuction(q)' /\ TargetOf(q)' = TargetOf(q)
  BY MarkFrame DEF IInv, IndexInv, InAuction
<1>6. \A u \in Traits \ {t} : PhaseOf(u)' = PhaseOf(u) /\ BehindTrait(u)' = BehindTrait(u)
  <2>1. \A u \in Traits \ {t} : PhaseOf(u)' = PhaseOf(u)
    BY <1>3, <1>4 DEF PhaseOf
  <2>2. ASSUME NEW u \in Traits \ {t} PROVE BehindTrait(u)' = BehindTrait(u)
    <3>1. pendingTraitCount'[u] = pendingTraitCount[u] /\ firstVaulted'[u] = firstVaulted[u]
      BY <1>3, <1>4
    <3>2. QED
      BY <1>1, <1>5, <3>1, BehindFrame
  <2>3. QED
    BY <2>1, <2>2
<1>7. PhaseOf(t) = "pending" /\ BehindTrait(t) = p /\ BehindTrait(t)' = firstVaulted'[t]
  <2>1. PhaseOf(t) = "pending"
    BY <1>2 DEF PhaseOf
  <2>2. BehindTrait(t) = p
    BY <1>1, Behind
  <2>3. InAuctionFor(t)' = {}
    BY <1>3 DEF IInv, ClaimInv, InAuctionFor, InAuction
  <2>4. BehindTrait(t)' = firstVaulted'[t]
    BY <2>3 DEF BehindTrait
  <2>5. QED
    BY <2>1, <2>2, <2>4
<1>8. PhaseOf(t)' = IF o = "Vaulted" THEN "collected" ELSE "open"
  BY <1>2, <1>3, <1>4 DEF PhaseOf
<1>9. PhaseBar' = [PhaseBar EXCEPT ![t] = IF o = "Vaulted" THEN "collected" ELSE "open"]
  BY <1>1, <1>6, <1>8 DEF PhaseBar
<1>10. ByBar' = [ByBar EXCEPT ![t] = firstVaulted'[t]]
  BY <1>1, <1>6, <1>7 DEF ByBar
<1>11. CASE o = "Vaulted"
  <2>1. ByBar' = ByBar
    BY <1>1, <1>4, <1>6, <1>7, <1>11 DEF ByBar
  <2>2. QED
    BY <1>1, <1>7, <1>9, <1>11, <2>1 DEF Ledger!Collect, PhaseBar, ByBar
<1>12. CASE o # "Vaulted"
  <2>1. ByBar' = [ByBar EXCEPT ![t] = NoPunk]
    BY <1>2, <1>4, <1>10, <1>12
  <2>2. QED
    BY <1>1, <1>7, <1>9, <1>12, <2>1 DEF Ledger!Release, PhaseBar, ByBar
<1>13. QED
  BY <1>11, <1>12

\* For every dataset, what the records core does to a trait is what TraitLedger
\* allows: open, claimed by one carrier, then released or collected for ever.
THEOREM Refinement == Spec => RefinesTraitLedger
<1>1. Init => Ledger!Init
  <2> SUFFICES ASSUME Init PROVE Ledger!Init
    OBVIOUS
  <2>1. \A t \in Traits : PhaseOf(t) = "open" /\ BehindTrait(t) = NoPunk
    BY DEF Init, PhaseOf, BehindTrait, InAuctionFor
  <2>2. QED
    BY <2>1 DEF Ledger!Init
<1>2. IInv /\ IInv' /\ [Next]_vars => [Ledger!Next]_(Ledger!vars)
  <2> SUFFICES ASSUME IInv, IInv', [Next]_vars
               PROVE  Ledger!Next \/ UNCHANGED Ledger!vars
    OBVIOUS
  <2>1. CASE Record
    BY <2>1, RecordClaims DEF Record, Ledger!Next
  <2>2. CASE Mark
    <3>1. PICK p \in Punks, o \in Custody : MarkCustody(p, o)
      BY <2>2 DEF Mark
    <3>2. TargetOf(p) \in Traits
      BY <3>1, TargetType DEF MarkCustody, IInv
    <3>3. QED
      BY <3>1, <3>2, MarkSettles DEF Ledger!Next
  <2>3. CASE UNCHANGED vars
    BY <2>3 DEF vars, Ledger!vars, PhaseOf, BehindTrait, InAuctionFor, TargetOf, RowOf
  <2>4. QED
    BY <2>1, <2>2, <2>3 DEF Next
<1>3. QED
  BY <1>1, <1>2, Invariance, PTL DEF Spec, RefinesTraitLedger, Ledger!Spec
=============================================================================

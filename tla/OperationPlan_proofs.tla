------------------------ MODULE OperationPlan_proofs ------------------------
(* Lemmas about the inventories of OperationPlan: the slots of a plan are   *)
(* positive numbers, and NextSlot visits an inventory in increasing order   *)
(* without leaving out a slot.                                              *)
EXTENDS OperationPlan, WellFoundedInduction, TLAPS

\* The least-number principle for sets: a non-empty set of naturals, such as
\* the slots a cursor has yet to visit, has a least element.
LEMMA LeastElement ==
  ASSUME NEW T \in SUBSET Nat, T # {}
  PROVE  \E x \in T : \A y \in T : x <= y
<1> DEFINE R == {ss \in Nat \X Nat : ss[1] < ss[2]}
<1>1. IsWellFoundedOn(R, Nat)
  BY NatLessThanWellFounded DEF OpToRel
<1>2. PICK x \in T : \A y \in T : ~ (<<y, x>> \in R)
  <2> HIDE DEF R
  <2> QED BY <1>1, WFMin, Zenon
<1>3. ASSUME NEW y \in T PROVE x <= y
  <2>1. <<y, x>> \in Nat \X Nat  OBVIOUS
  <2>2. ~ (<<y, x>>[1] < <<y, x>>[2])  BY <1>2, <2>1
  <2> QED BY <2>2
<1>4. QED BY <1>3

\* NextSlot returns the least slot after k, and 0 only when there is none:
\* the cursors of prepare and cleanup skip no item of their inventory.
LEMMA NextSlotIsLeast ==
  ASSUME NEW slots \in SUBSET Nat, NEW k \in Nat
  PROVE  \/ NextSlot(slots, k) = 0 /\ \A j \in slots : j <= k
         \/ /\ NextSlot(slots, k) \in slots
            /\ NextSlot(slots, k) > k
            /\ \A l \in slots : l > k => NextSlot(slots, k) <= l
<1>1. CASE \A j \in slots : ~ (j > k)
  BY <1>1 DEF NextSlot
<1>2. CASE \E j \in slots : j > k
  <2> DEFINE T == {j \in slots : j > k}
  <2>1. PICK x \in T : \A y \in T : x <= y
    <3>1. T \in SUBSET Nat /\ T # {}  BY <1>2
    <3> HIDE DEF T
    <3> QED BY <3>1, LeastElement
  <2>2. x \in slots /\ x > k /\ \A l \in slots : l > k => x <= l
    BY <2>1
  <2> QED BY <1>2, <2>2 DEF NextSlot
<1>3. QED BY <1>1, <1>2

\* The operations of a plan are a finite range of positive numbers.
LEMMA OpsAreNatural ==
  ASSUME NEW p, WellFormed(p)
  PROVE  /\ Len(p.kinds) \in Nat
         /\ Ops(p) = 1 .. Len(p.kinds)
         /\ \A i \in Ops(p) : p.kinds[i] \in Kinds
  BY DEF WellFormed, Ops

\* Every slot of every inventory is a positive number; journal.json is the
\* last slot of a cleanup inventory and the transaction directory comes
\* right before it.
LEMMA SlotsAreNatural ==
  ASSUME NEW p, WellFormed(p)
  PROVE  /\ PreparationSlots(p) \in SUBSET (Nat \ {0})
         /\ RollbackSlots(p) \in SUBSET (Nat \ {0})
         /\ \A phase \in Phases :
              /\ CleanupSlots(p, phase) \in SUBSET (Nat \ {0})
              /\ JournalSlot(p) \in CleanupSlots(p, phase)
              /\ DirectorySlot(p) \in CleanupSlots(p, phase)
              /\ \A k \in CleanupSlots(p, phase) : k <= JournalSlot(p)
<1>1. Len(p.kinds) \in Nat /\ Ops(p) = 1 .. Len(p.kinds)
  BY OpsAreNatural
<1>2. \A k \in PreparationSlots(p) : k \in Nat \ {0} /\ k <= 2 * Len(p.kinds)
  BY <1>1 DEF PreparationSlots, StageSlot, BackupSlot
<1>3. \A k \in RollbackSlots(p) : k \in Nat \ {0} /\ k <= 3 * Len(p.kinds)
  BY <1>1 DEF RollbackSlots, RollbackSlot
<1>4. DirectorySlot(p) \in Nat \ {0} /\ JournalSlot(p) \in Nat \ {0}
  BY <1>1 DEF DirectorySlot, JournalSlot
<1>5. ASSUME NEW phase \in Phases, NEW k \in CleanupSlots(p, phase)
      PROVE  k \in Nat \ {0} /\ k <= JournalSlot(p)
  BY <1>1, <1>2, <1>3, <1>4, <1>5 DEF CleanupSlots, DirectorySlot, JournalSlot
<1>6. QED
  BY <1>2, <1>3, <1>4, <1>5 DEF CleanupSlots
=============================================================================

------------------------------- MODULE Counting -------------------------------
(***************************************************************************)
(* Counting with two finite sets: what exists and who may still make one.  *)
(* The proofs about messages (ChatPluginProofs) and tickets                *)
(* (TrackerCarriedProofs) bound what exists by the number of events: each  *)
(* event is a licence, held by a job until it is used once.                *)
(***************************************************************************)
EXTENDS FiniteSetTheorems, TLAPS

\* Two finite sets with at most n elements together.
Within(A, B, n) ==
  /\ IsFiniteSet(A)
  /\ IsFiniteSet(B)
  /\ Cardinality(A) + Cardinality(B) <= n

(***************************************************************************)
(* Smaller sets are within a larger count.                                 *)
(***************************************************************************)
LEMMA CountShrinks ==
  ASSUME NEW A, NEW B, NEW n \in Nat, Within(A, B, n),
         NEW A1 \in SUBSET A, NEW B1 \in SUBSET B, NEW k \in Nat, n <= k
  PROVE  Within(A1, B1, k)
<1>1. IsFiniteSet(A) /\ IsFiniteSet(B) /\ Cardinality(A) + Cardinality(B) <= n
  BY DEF Within
<1>2. IsFiniteSet(A1) /\ Cardinality(A1) <= Cardinality(A)
  BY <1>1, FS_Subset
<1>3. IsFiniteSet(B1) /\ Cardinality(B1) <= Cardinality(B)
  BY <1>1, FS_Subset
<1>4. /\ Cardinality(A1) \in Nat /\ Cardinality(B1) \in Nat
      /\ Cardinality(A) \in Nat /\ Cardinality(B) \in Nat
  BY <1>1, <1>2, <1>3, FS_CardinalityType
<1> QED BY <1>1, <1>2, <1>3, <1>4 DEF Within

(***************************************************************************)
(* An element of the second set may be traded for one of the first.        *)
(***************************************************************************)
LEMMA CountTraded ==
  ASSUME NEW A, NEW B, NEW n \in Nat, Within(A, B, n),
         NEW m, NEW h \in B,
         NEW A1 \in SUBSET (A \union {m}), NEW B1 \in SUBSET (B \ {h})
  PROVE  Within(A1, B1, n)
<1>1. /\ IsFiniteSet(A) /\ IsFiniteSet(B)
      /\ Cardinality(A) + Cardinality(B) <= n
      /\ Cardinality(A) \in Nat /\ Cardinality(B) \in Nat
  BY FS_CardinalityType DEF Within
<1>2. /\ IsFiniteSet(A \union {m})
      /\ Cardinality(A \union {m}) = IF m \in A THEN Cardinality(A)
                                               ELSE Cardinality(A) + 1
  BY <1>1, FS_AddElement
<1>3. /\ IsFiniteSet(B \ {h})
      /\ Cardinality(B \ {h}) = Cardinality(B) - 1
  BY <1>1, FS_RemoveElement
<1>4. Within(A \union {m}, B \ {h}, n)
  BY <1>1, <1>2, <1>3 DEF Within
<1> QED BY <1>4, CountShrinks

(***************************************************************************)
(* The second set may get an element when the count does.                  *)
(***************************************************************************)
LEMMA CountGrows ==
  ASSUME NEW A, NEW B, NEW n \in Nat, Within(A, B, n),
         NEW h, NEW A1 \in SUBSET A, NEW B1 \in SUBSET (B \union {h})
  PROVE  Within(A1, B1, n + 1)
<1>1. /\ IsFiniteSet(A) /\ IsFiniteSet(B)
      /\ Cardinality(A) + Cardinality(B) <= n
      /\ Cardinality(A) \in Nat /\ Cardinality(B) \in Nat
  BY FS_CardinalityType DEF Within
<1>2. /\ IsFiniteSet(B \union {h})
      /\ Cardinality(B \union {h}) = IF h \in B THEN Cardinality(B)
                                               ELSE Cardinality(B) + 1
  BY <1>1, FS_AddElement
<1>3. Within(A, B \union {h}, n + 1)
  BY <1>1, <1>2 DEF Within
<1> QED BY <1>3, CountShrinks
=============================================================================

--------------------------- MODULE SequenceLemmas ---------------------------
(***************************************************************************)
(* What Append and RemoveAt do to the elements of a sequence, for the      *)
(* proofs about documents, commands, clients and buttons.                  *)
(***************************************************************************)
EXTENDS Integers, Sequences, SequencesExt, SequenceTheorems, TLAPS

\* A sequence with one more element at its end.
LEMMA AppendedElements ==
    ASSUME NEW S, NEW l \in Seq(S), NEW x \in S
    PROVE  /\ Append(l, x) \in Seq(S)
           /\ Len(Append(l, x)) = Len(l) + 1
           /\ \A i \in 1..Len(l) : Append(l, x)[i] = l[i]
           /\ Append(l, x)[Len(l) + 1] = x
PROOF OBVIOUS

\* A sequence without its element at place k.
LEMMA RemovedElement ==
    ASSUME NEW S, NEW l \in Seq(S), NEW k \in 1..Len(l)
    PROVE  /\ RemoveAt(l, k) \in Seq(S)
           /\ Len(RemoveAt(l, k)) = Len(l) - 1
           /\ \A i \in 1..Len(l) - 1 :
                RemoveAt(l, k)[i] = IF i < k THEN l[i] ELSE l[i + 1]
PROOF
<1>1. \A i \in 1..k - 1 : l[i] \in S
  OBVIOUS
<1>2. \A i \in k + 1..Len(l) : l[i] \in S
  OBVIOUS
<1> k \in Int /\ k - 1 \in Int /\ k + 1 \in Int /\ Len(l) \in Int /\ 1 \in Int
  OBVIOUS
<1>3. PICK a \in Seq(S) : a = SubSeq(l, 1, k - 1)
  <2>1. SubSeq(l, 1, k - 1) \in Seq(S)
    BY ONLY <1>1, SubSeqProperties, k - 1 \in Int, 1 \in Int
  <2> QED BY <2>1
<1>4. Len(a) = k - 1 /\ \A i \in 1..k - 1 : a[i] = l[i]
  <2>1. /\ Len(a) = IF 1 <= k - 1 THEN (k - 1) - 1 + 1 ELSE 0
        /\ \A i \in 1..(k - 1) - 1 + 1 : a[i] = l[1 + i - 1]
    BY ONLY <1>1, <1>3, SubSeqProperties, k - 1 \in Int, 1 \in Int
  <2>2. k - 1 \in Nat
    OBVIOUS
  <2> QED BY <2>1, <2>2
<1>5. PICK b \in Seq(S) : b = SubSeq(l, k + 1, Len(l))
  <2>1. SubSeq(l, k + 1, Len(l)) \in Seq(S)
    BY ONLY <1>2, SubSeqProperties, k + 1 \in Int, Len(l) \in Int
  <2> QED BY <2>1
<1>6. Len(b) = Len(l) - k /\ \A i \in 1..Len(l) - k : b[i] = l[k + i]
  <2>1. /\ Len(b) = IF k + 1 <= Len(l) THEN Len(l) - (k + 1) + 1 ELSE 0
        /\ \A i \in 1..Len(l) - (k + 1) + 1 : b[i] = l[(k + 1) + i - 1]
    BY ONLY <1>2, <1>5, SubSeqProperties, k + 1 \in Int, Len(l) \in Int
  <2>2. Len(l) - k \in Nat
    OBVIOUS
  <2>3. ASSUME NEW i \in 1..Len(l) - k PROVE b[i] = l[k + i]
    <3>1. b[i] = l[(k + 1) + i - 1]
      BY <2>1
    <3>2. (k + 1) + i - 1 = k + i
      OBVIOUS
    <3> QED BY <3>1, <3>2
  <2> QED BY <2>1, <2>2, <2>3
<1>7. RemoveAt(l, k) = a \o b
  BY <1>3, <1>5 DEF RemoveAt
<1>8. /\ a \o b \in Seq(S) /\ Len(a \o b) = Len(a) + Len(b)
      /\ \A i \in 1..Len(a) + Len(b) :
           (a \o b)[i] = IF i <= Len(a) THEN a[i] ELSE b[i - Len(a)]
  BY ConcatProperties
<1>9. ASSUME NEW i \in 1..Len(l) - 1
      PROVE  (a \o b)[i] = IF i < k THEN l[i] ELSE l[i + 1]
  <2>1. CASE i < k
    BY <1>4, <1>6, <1>8, <2>1
  <2>2. CASE ~(i < k)
    <3>1. (a \o b)[i] = b[i - (k - 1)]
      BY <1>4, <1>6, <1>8, <2>2
    <3>2. b[i - (k - 1)] = l[k + (i - (k - 1))]
      BY <1>6, <2>2
    <3>3. k + (i - (k - 1)) = i + 1
      OBVIOUS
    <3> QED BY <2>2, <3>1, <3>2, <3>3
  <2> QED BY <2>1, <2>2
<1> QED BY <1>4, <1>6, <1>7, <1>8, <1>9
=============================================================================

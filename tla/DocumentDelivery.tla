-------------------------- MODULE DocumentDelivery --------------------------
(***************************************************************************)
(* What the transfer of documents promises, without queue, sessions and    *)
(* processes: every document is a stream of bytes of which a growing       *)
(* prefix has been sent and a growing prefix of that has been taken.       *)
(* A file is a stretch of taken bytes of one document that begins where    *)
(* the files of the document end or later, and only the name of a new file *)
(* makes an earlier one disappear.                                         *)
(***************************************************************************)
EXTENDS Integers, TLAPS

CONSTANTS Docs, Size

VARIABLES
    sent,    \* sent[d]: how many bytes of d the broker has accepted
    taken,   \* taken[d]: how many of them were removed from the broker
    saved    \* the files, as stretches [doc, from, to] of documents

DeliveryVars == <<sent, taken, saved>>

DeliveryInit ==
    /\ sent = [d \in Docs |-> 0]
    /\ taken = [d \in Docs |-> 0]
    /\ saved = {}

Send(d) ==
    /\ \E n \in (sent[d] + 1)..Size[d] : sent' = [sent EXCEPT ![d] = n]
    /\ UNCHANGED <<taken, saved>>

Take(d) ==
    /\ \E n \in (taken[d] + 1)..sent[d] : taken' = [taken EXCEPT ![d] = n]
    /\ UNCHANGED <<sent, saved>>

Save(d) ==
    /\ \E from \in 0..taken[d] : \E to \in (from + 1)..taken[d] :
          /\ \A r \in saved : r.doc = d => r.to <= from
          /\ saved' = saved \cup {[doc |-> d, from |-> from, to |-> to]}
    /\ UNCHANGED <<sent, taken>>

Overwrite(r) ==
    /\ saved' = saved \ {r}
    /\ UNCHANGED <<sent, taken>>

DeliveryNext ==
    \/ \E d \in Docs : Send(d) \/ Take(d) \/ Save(d)
    \/ \E r \in saved : Overwrite(r)

Delivery == DeliveryInit /\ [][DeliveryNext]_DeliveryVars

----------------------------------------------------------------------------

\* What a reader of the files can rely on: they are stretches of what was
\* taken, and no two of them share a byte of a document.
Apart(q, r) == q.doc = r.doc => q.to <= r.from \/ r.to <= q.from

SavedApart ==
    /\ \A d \in Docs : taken[d] \in 0..sent[d] /\ sent[d] \in 0..Size[d]
    /\ \A r \in saved :
         r.doc \in Docs /\ r.from \in 0..(r.to - 1) /\ r.to \in 1..taken[r.doc]
    /\ \A q, r \in saved : q # r => Apart(q, r)

\* Whatever keeps to the steps above keeps the files apart: a file begins where
\* the ones before it end (PdfService.cs:22-28).
THEOREM DeliveryKeepsApart ==
    ASSUME Size \in [Docs -> Nat]
    PROVE  Delivery => []SavedApart
PROOF
<1> DEFINE Known == sent \in [Docs -> Int] /\ taken \in [Docs -> Int]
           Inv == Known /\ SavedApart
<1>1. DeliveryInit => Inv
  BY DEF DeliveryInit, SavedApart
<1>2. Inv /\ [DeliveryNext]_DeliveryVars => Inv'
  <2> SUFFICES ASSUME Inv, [DeliveryNext]_DeliveryVars
               PROVE  Inv'
    OBVIOUS
  <2>1. ASSUME NEW d \in Docs, Send(d)
        PROVE  Inv'
    <3>1. PICK n \in (sent[d] + 1)..Size[d] : sent' = [sent EXCEPT ![d] = n]
      BY <2>1 DEF Send
    <3>2. UNCHANGED <<taken, saved>>
      BY <2>1 DEF Send
    <3>3. n \in Int /\ sent[d] \in Int /\ Size[d] \in Nat
      OBVIOUS
    <3>4. /\ sent'[d] = n
          /\ \A e \in Docs : e # d => sent'[e] = sent[e]
          /\ sent' \in [Docs -> Int]
      BY <3>1, <3>3
    <3>5. taken[d] \in 0..sent[d] => taken[d] \in 0..n /\ n \in 0..Size[d]
      BY <3>1, <3>3
    <3> QED BY <3>2, <3>4, <3>5 DEF SavedApart, Apart
  <2>2. ASSUME NEW d \in Docs, Take(d)
        PROVE  Inv'
    <3>1. PICK n \in (taken[d] + 1)..sent[d] : taken' = [taken EXCEPT ![d] = n]
      BY <2>2 DEF Take
    <3>2. UNCHANGED <<sent, saved>>
      BY <2>2 DEF Take
    <3>3. n \in Int /\ sent[d] \in Int /\ taken[d] \in 0..sent[d] /\ taken[d] < n
      BY <3>1 DEF SavedApart
    <3>4. /\ taken'[d] = n
          /\ \A e \in Docs : e # d => taken'[e] = taken[e]
          /\ taken' \in [Docs -> Int]
      BY <3>1, <3>3
    <3>5. n \in 0..sent[d] /\ \A t : t \in 1..taken[d] => t \in 1..n
      BY <3>1, <3>3
    <3>6. \A e \in Docs : taken'[e] \in 0..sent'[e] /\ sent'[e] \in 0..Size[e]
      BY <3>2, <3>4, <3>5 DEF SavedApart
    <3>7. ASSUME NEW r \in saved
          PROVE  r.doc \in Docs /\ r.from \in 0..(r.to - 1) /\ r.to \in 1..taken'[r.doc]
      BY <3>4, <3>5 DEF SavedApart
    <3> QED BY <3>2, <3>4, <3>6, <3>7 DEF SavedApart, Apart
  <2>3. ASSUME NEW d \in Docs, Save(d)
        PROVE  Inv'
    <3>0. PICK from \in 0..taken[d] : \E to \in (from + 1)..taken[d] :
            /\ \A r \in saved : r.doc = d => r.to <= from
            /\ saved' = saved \cup {[doc |-> d, from |-> from, to |-> to]}
      BY <2>3 DEF Save
    <3>1. PICK to \in (from + 1)..taken[d] :
            /\ \A r \in saved : r.doc = d => r.to <= from
            /\ saved' = saved \cup {[doc |-> d, from |-> from, to |-> to]}
      BY <3>0
    <3>2. UNCHANGED <<sent, taken>>
      BY <2>3 DEF Save
    <3> DEFINE f == [doc |-> d, from |-> from, to |-> to]
    <3>3. taken[d] \in Int /\ from \in Int /\ to \in Int
      OBVIOUS
    <3>4. f.doc \in Docs /\ f.from \in 0..(f.to - 1) /\ f.to \in 1..taken[f.doc]
      BY <3>3
    <3>5. \A r \in saved : Apart(r, f) /\ Apart(f, r)
      BY <3>1 DEF Apart
    <3> HIDE DEF f
    <3>6. saved' = saved \cup {f}
      BY <3>1 DEF f
    <3> QED BY <3>2, <3>4, <3>5, <3>6 DEF SavedApart, Apart
  <2>4. ASSUME NEW r \in saved, Overwrite(r)
        PROVE  Inv'
    BY <2>4 DEF Overwrite, SavedApart, Apart
  <2>5. CASE UNCHANGED DeliveryVars
    BY <2>5 DEF DeliveryVars, SavedApart, Apart
  <2> QED BY <2>1, <2>2, <2>3, <2>4, <2>5 DEF DeliveryNext
<1>3. Inv => SavedApart
  OBVIOUS
<1> HIDE DEF Inv
<1> QED BY <1>1, <1>2, <1>3, PTL DEF Delivery
=============================================================================

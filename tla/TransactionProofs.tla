-------------------------- MODULE TransactionProofs --------------------------
(***************************************************************************)
(* What the transactions of the API keep true, for any number of callers:  *)
(* the ledger balances, the roster and its histories agree, the trails of  *)
(* casework can be believed, a visit tells one story.                      *)
(*                                                                         *)
(* One argument serves all four.  A transaction that has not been          *)
(* overtaken has seen the rows there are (TxSound), so that one that       *)
(* commits has decided on the rows it changes.  What is left is a fact     *)
(* about the rows alone: a change decided on a sound database leaves a     *)
(* sound one (the lemmas named ...Keeps, about constants).                 *)
(***************************************************************************)
EXTENDS Residency, Casework, Visits, Payments, FiniteSetTheorems, WellFoundedInduction, TLAPS

\* A set of sets that holds each finite set whose proper subsets it holds, holds
\* them all: otherwise there is a smallest one it does not hold.
LEMMA SubsetInduction ==
    ASSUME NEW A, IsFiniteSet(A), NEW P,
           \A s \in SUBSET A : (\A t \in SUBSET s : t # s => t \in P) => s \in P
    PROVE  \A s \in SUBSET A : s \in P
<1> DEFINE Bad == {s \in SUBSET A : s \notin P}
<1> SUFFICES ASSUME Bad # {} PROVE FALSE
  OBVIOUS
<1>1. Bad \subseteq FiniteSubsetsOf(A)
  BY FS_Subset DEF FiniteSubsetsOf
<1>2. PICK s \in Bad : \A t \in Bad : ~(<<t, s>> \in StrictSubsetOrdering(A))
  <2> HIDE DEF Bad
  <2> QED
    BY <1>1, FS_StrictSubsetOrderingWellFounded, WFMin
<1>3. ASSUME NEW t \in SUBSET s, t # s PROVE t \in P
  BY <1>2, <1>3 DEF StrictSubsetOrdering
<1> QED
  BY <1>2, <1>3

-----------------------------------------------------------------------------
(* What a set of allocations sums up to: the fold of Allocated takes its   *)
(* members in an order of its own, which makes no difference.              *)

Pick(s) == CHOOSE n \in s : TRUE

\* The function Allocated computes, on the subsets of A.
Sums(sum, A) ==
    sum = [s \in SUBSET A |-> IF s = {} THEN 0 ELSE Pick(s).amount + sum[s \ {Pick(s)}]]

LEMMA SumsUnfold ==
    ASSUME NEW A, NEW sum, Sums(sum, A), NEW s \in SUBSET A
    PROVE  /\ s = {} => sum[s] = 0
           /\ s # {} => /\ Pick(s) \in s /\ s \ {Pick(s)} \in SUBSET A
                        /\ sum[s] = Pick(s).amount + sum[s \ {Pick(s)}]
<1>1. sum[s] = IF s = {} THEN 0 ELSE Pick(s).amount + sum[s \ {Pick(s)}]
  BY DEF Sums
<1>2. s # {} => Pick(s) \in s
  BY DEF Pick
<1> QED
  BY <1>1, <1>2

\* Two such functions agree where both are defined.
LEMMA SumsAgree ==
    ASSUME NEW A, NEW B, IsFiniteSet(A), A \subseteq B,
           NEW sumA, Sums(sumA, A), NEW sumB, Sums(sumB, B)
    PROVE  \A s \in SUBSET A : sumA[s] = sumB[s]
<1> DEFINE P == {s \in SUBSET A : sumA[s] = sumB[s]}
<1>1. ASSUME NEW s \in SUBSET A, \A t \in SUBSET s : t # s => t \in P PROVE s \in P
  <2>1. CASE s = {}
    <3>1. sumA[s] = 0 /\ sumB[s] = 0
      <4> HIDE DEF P
      <4> QED
        BY <2>1, SumsUnfold
    <3> QED
      BY <3>1
  <2>2. CASE s # {}
    <3>1. Pick(s) \in s /\ s \ {Pick(s)} \in P
      BY <1>1, <2>2 DEF Pick
    <3>2. sumA[s] = Pick(s).amount + sumA[s \ {Pick(s)}] /\ sumB[s] = Pick(s).amount + sumB[s \ {Pick(s)}]
      BY <2>2, SumsUnfold
    <3> QED
      BY <3>1, <3>2
  <2> QED
    BY <2>1, <2>2
<1>2. \A s \in SUBSET A : s \in P
  <2> HIDE DEF P
  <2> QED
    BY <1>1, SubsetInduction
<1> QED
  BY <1>2

\* There is one for each finite set: one is put together from those of the
\* proper subsets.
LEMMA SumsExists == ASSUME NEW A, IsFiniteSet(A) PROVE \E sum : Sums(sum, A)
<1> DEFINE P == {s \in SUBSET A : \E sum : Sums(sum, s)}
<1>1. ASSUME NEW s \in SUBSET A, \A t \in SUBSET s : t # s => t \in P PROVE s \in P
  <2> DEFINE of == [t \in SUBSET s |-> CHOOSE sum : Sums(sum, t)]
             below(t) == of[t][t]
             value(t) == IF t = {} THEN 0 ELSE Pick(t).amount + below(t \ {Pick(t)})
             sum == [t \in SUBSET s |-> value(t)]
  <2>1. ASSUME NEW t \in SUBSET s, t # s PROVE Sums(of[t], t) /\ IsFiniteSet(t)
    <3>1. \E f : Sums(f, t)
      BY <1>1, <2>1
    <3> QED
      BY <3>1, FS_Subset
  <2>2. ASSUME NEW t \in SUBSET s, t # s PROVE value(t) = below(t)
    <3>1. CASE t = {}
      BY <2>1, <2>2, <3>1, SumsUnfold
    <3>2. CASE t # {}
      <4> DEFINE u == t \ {Pick(t)}
      <4>1. u \in SUBSET t /\ u # s /\ of[t][t] = Pick(t).amount + of[t][u]
        <5>1. Sums(of[t], t) /\ t \in SUBSET t /\ t # {} /\ u \in SUBSET t /\ u # s
          BY <2>1, <2>2, <3>2
        <5> HIDE DEF of
        <5>2. of[t][t] = Pick(t).amount + of[t][t \ {Pick(t)}]
          BY <5>1, SumsUnfold
        <5> QED
          BY <5>1, <5>2
      <4>2. of[t][u] = of[u][u]
        <5>1. Sums(of[u], u) /\ Sums(of[t], t) /\ IsFiniteSet(u) /\ u \subseteq t /\ u \in SUBSET u
          BY <2>1, <2>2, <4>1
        <5> HIDE DEF u, of, P
        <5>2. \A v \in SUBSET u : of[u][v] = of[t][v]
          BY <5>1, SumsAgree
        <5> QED
          BY <5>1, <5>2
      <4> HIDE DEF of
      <4> QED
        BY <3>2, <4>1, <4>2
    <3> QED
      BY <3>1, <3>2
  <2>3. \A t \in SUBSET s : t # {} => t \ {Pick(t)} \in SUBSET s /\ t \ {Pick(t)} # s
    BY DEF Pick
  <2>4. \A t \in SUBSET s : sum[t] = IF t = {} THEN 0 ELSE Pick(t).amount + sum[t \ {Pick(t)}]
    <3> HIDE DEF below
    <3> QED
      BY <2>2, <2>3
  <2>5. Sums(sum, s)
    <3>1. sum = [t \in SUBSET s |-> sum[t]]
      OBVIOUS
    <3> HIDE DEF sum
    <3> QED
      BY <2>4, <3>1 DEF Sums
  <2> HIDE DEF sum
  <2> QED
    BY <2>5
<1>2. A \in P
  <2>1. A \in SUBSET A
    OBVIOUS
  <2> HIDE DEF P
  <2> QED
    BY <1>1, <2>1, SubsetInduction
<1> QED
  BY <1>2

\* Allocated is the value such a function has at the whole set.
LEMMA AllocatedSums ==
    ASSUME NEW A, IsFiniteSet(A), NEW sum, Sums(sum, A) PROVE Allocated(A) = sum[A]
<1> DEFINE iter[s \in SUBSET A] ==
             IF s = {} THEN 0 ELSE LET x == CHOOSE x \in s : TRUE IN x.amount + iter[s \ {x}]
<1>1. Allocated(A) = iter[A]
  BY DEF Allocated, MapThenSumSet, MapThenFoldSet
<1>2. Sums(iter, A)
  BY DEF Sums, Pick
<1> HIDE DEF iter
<1>3. A \in SUBSET A
  OBVIOUS
<1> QED
  BY <1>1, <1>2, <1>3, SumsAgree

Priced(A) == \A n \in A : n.amount \in Nat

\* The sum is the same whichever member is taken first.
LEMMA SumsAnyOrder ==
    ASSUME NEW A, IsFiniteSet(A), Priced(A), NEW sum, Sums(sum, A)
    PROVE  \A s \in SUBSET A :
             /\ sum[s] \in Nat
             /\ \A n \in s : sum[s] = n.amount + sum[s \ {n}]
<1> DEFINE P == {s \in SUBSET A : sum[s] \in Nat /\ \A n \in s : sum[s] = n.amount + sum[s \ {n}]}
<1>1. ASSUME NEW s \in SUBSET A, \A t \in SUBSET s : t # s => t \in P PROVE s \in P
  <2>1. CASE s = {}
    <3>1. sum[s] = 0
      <4> HIDE DEF P
      <4> QED
        BY <2>1, SumsUnfold
    <3> QED
      BY <2>1, <3>1
  <2>2. CASE s # {}
    <3>1. PICK p \in s : p = Pick(s)
      BY <2>2 DEF Pick
    <3>2. sum[s] = p.amount + sum[s \ {p}]
      BY <2>2, <3>1, SumsUnfold
    <3>3. \A t \in SUBSET s : t # s => sum[t] \in Nat /\ \A n \in t : sum[t] = n.amount + sum[t \ {n}]
      BY <1>1
    <3>4. \A n \in s : n.amount \in Nat
      BY DEF Priced
    <3> HIDE DEF P
    <3>5. ASSUME NEW n \in s, n # p PROVE sum[s] = n.amount + sum[s \ {n}]
      <4>1. sum[s \ {p}] = n.amount + sum[(s \ {p}) \ {n}]
        BY <3>1, <3>3, <3>5
      <4>2. sum[s \ {n}] = p.amount + sum[(s \ {n}) \ {p}]
        BY <3>1, <3>3, <3>5
      <4>3. (s \ {p}) \ {n} = (s \ {n}) \ {p} /\ sum[(s \ {p}) \ {n}] \in Nat
        BY <3>1, <3>3
      <4> QED
        BY <3>1, <3>2, <3>4, <4>1, <4>2, <4>3
    <3>6. sum[s] \in Nat
      BY <3>1, <3>2, <3>3, <3>4
    <3> QED
      BY <3>2, <3>5, <3>6 DEF P
  <2> QED
    BY <2>1, <2>2
<1>2. \A s \in SUBSET A : s \in P
  <2> HIDE DEF P
  <2> QED
    BY <1>1, SubsetInduction
<1> QED
  BY <1>2

\* One more allocation raises the sum by its amount.
LEMMA AllocatedOneMore ==
    ASSUME NEW A, IsFiniteSet(A), Priced(A), NEW n, n \notin A, n.amount \in Nat
    PROVE  /\ Allocated(A) \in Nat
           /\ Allocated(A \cup {n}) = Allocated(A) + n.amount
<1>1. IsFiniteSet(A \cup {n}) /\ Priced(A \cup {n})
  BY FS_AddElement DEF Priced
<1>2. PICK sum : Sums(sum, A \cup {n})
  BY <1>1, SumsExists
<1>3. PICK sumA : Sums(sumA, A)
  BY SumsExists
<1>5. Allocated(A) = sumA[A] /\ sumA[A] = sum[A]
  BY <1>2, <1>3, AllocatedSums, SumsAgree
<1>6. Allocated(A \cup {n}) = sum[A \cup {n}]
  BY <1>1, <1>2, AllocatedSums
<1>7. (A \cup {n}) \ {n} = A /\ A \cup {n} \in SUBSET (A \cup {n}) /\ A \in SUBSET (A \cup {n}) /\ n \in A \cup {n}
  OBVIOUS
<1>8. sum[A \cup {n}] = n.amount + sum[A] /\ sum[A] \in Nat
  <2>1. \A s \in SUBSET (A \cup {n}) : sum[s] \in Nat /\ \A m \in s : sum[s] = m.amount + sum[s \ {m}]
    BY <1>1, <1>2, SumsAnyOrder
  <2> QED
    BY <1>7, <2>1
<1> QED
  BY <1>5, <1>6, <1>8

-----------------------------------------------------------------------------
(* Transactions *)

\* Whatever rows there may be, a transaction that has not been overtaken has
\* seen those there are.
TxSound(Rows) ==
    /\ db \in Rows
    /\ tx \in [Admins -> [open : BOOLEAN, seen : Rows, stale : BOOLEAN]]
    /\ \A a \in Admins : ~tx[a].stale => tx[a].seen = db

LEMMA TxInitSound == ASSUME NEW Rows, db \in Rows, TxInit(db) PROVE TxSound(Rows)
BY DEF TxInit, TxSound

\* A transaction that commits has seen the rows it changes,
LEMMA CommitSees ==
    ASSUME NEW Rows, TxSound(Rows), NEW a \in Admins, NEW rows, Commit(a, rows)
    PROVE  tx[a].seen = db /\ db' = rows
BY DEF Commit, Conflict, TxSound

\* and overtakes all the others.
LEMMA CommitSound ==
    ASSUME NEW Rows, TxSound(Rows), NEW a \in Admins, NEW rows \in Rows, Commit(a, rows)
    PROVE  TxSound(Rows)'
<1>1. db' = rows
  BY DEF Commit
<1>2. tx' = [b \in Admins |->
         IF b = a THEN [open |-> FALSE, seen |-> rows, stale |-> FALSE]
         ELSE IF tx[b].open THEN [tx[b] EXCEPT !.stale = TRUE]
         ELSE [tx[b] EXCEPT !.seen = rows]]
  BY DEF Commit
<1>3. \A b \in Admins : /\ tx'[b] \in [open : BOOLEAN, seen : Rows, stale : BOOLEAN]
                        /\ ~tx'[b].stale => tx'[b].seen = rows
  BY <1>2 DEF TxSound
<1>4. tx' \in [Admins -> [open : BOOLEAN, seen : Rows, stale : BOOLEAN]]
  BY <1>2, <1>3
<1> QED
  BY <1>1, <1>3, <1>4 DEF TxSound

LEMMA StepSound ==
    ASSUME NEW Rows, TxSound(Rows), NEW a \in Admins, TransactionStep(a)
    PROVE  TxSound(Rows)' /\ UNCHANGED db
<1>1. CASE Begin(a)
  BY <1>1 DEF Begin, TxSound
<1>2. CASE Abort(a)
  BY <1>2 DEF Abort, TxSound
<1> QED
  BY <1>1, <1>2 DEF TransactionStep

-----------------------------------------------------------------------------
(* Payments *)

PaymentRows == [reference : References \cup {"none"}, flat : Flats \cup {"none"}, amount : Nat]
AllocationRows == [payment : Payments, charge : Charges, amount : Nat]
ChargeRows == [flat : Flats, paid : 0..Total, status : {"UNPAID", "PARTIALLY_PAID", "PAID"}, version : Nat]
Ledgers == [payment : [Payments -> PaymentRows], allocations : SUBSET AllocationRows,
            charge : [Charges -> ChargeRows]]

\* LedgerBalances of the rows d, and what it rests on: what was allocated was
\* of a payment recorded.
Balanced(d) ==
    /\ IsFiniteSet(d.allocations)
    /\ \A n \in d.allocations : n.payment \in Recorded(d)
    /\ \A p \in Recorded(d) : Allocated(OfPayment(d, p)) <= d.payment[p].amount
    /\ \A c \in Charges :
         /\ d.charge[c].paid = Allocated(OfCharge(d, c))
         /\ d.charge[c].status = DerivedStatus(d.charge[c].paid)
    /\ \A n \in d.allocations : d.payment[n.payment].flat = d.charge[n.charge].flat
    /\ \A p, q \in Recorded(d) : d.payment[p].reference = d.payment[q].reference => p = q

LedgerInv == TxSound(Ledgers) /\ Balanced(db)

LEMMA NoneAllocated == ASSUME NEW A, A = {} PROVE Allocated(A) = 0
<1>1. IsFiniteSet(A) /\ A \in SUBSET A
  BY FS_EmptySet
<1>2. PICK sum : Sums(sum, A)
  BY <1>1, SumsExists
<1>3. Allocated(A) = sum[A]
  BY <1>1, <1>2, AllocatedSums
<1>4. sum[A] = 0
  BY <1>1, <1>2 DEF Sums
<1> QED
  BY <1>3, <1>4

LEMMA PaymentsInitInv == ASSUME Total \in Nat \ {0} PROVE PaymentsInit => LedgerInv
<1> SUFFICES ASSUME PaymentsInit PROVE LedgerInv
  OBVIOUS
<1>1. PICK payment, charge :
        /\ payment = [p \in Payments |-> NoPayment]
        /\ charge \in [Charges -> [flat : Flats, paid : {0}, status : {"UNPAID"}, version : {1}]]
        /\ db = [payment |-> payment, allocations |-> {}, charge |-> charge]
  BY DEF PaymentsInit, FirstLedger
<1>2. db.payment = payment /\ db.allocations = {} /\ db.charge = charge
  BY <1>1
<1>3. db \in Ledgers
  <2>1. payment \in [Payments -> PaymentRows]
    BY <1>1 DEF NoPayment, PaymentRows
  <2>2. charge \in [Charges -> ChargeRows]
    BY <1>1 DEF ChargeRows
  <2> QED
    BY <1>1, <2>1, <2>2 DEF Ledgers
<1>4. Balanced(db)
  <2>1. Recorded(db) = {} /\ \A c \in Charges : OfCharge(db, c) = {}
    BY <1>1, <1>2 DEF Recorded, OfCharge
  <2>2. \A c \in Charges : Allocated(OfCharge(db, c)) = 0
    BY <2>1, NoneAllocated
  <2>3. \A c \in Charges : charge[c].paid = 0 /\ charge[c].status = "UNPAID" /\ DerivedStatus(0) = "UNPAID"
    BY <1>1 DEF DerivedStatus
  <2> QED
    BY <1>2, <2>1, <2>2, <2>3, FS_EmptySet DEF Balanced
<1> QED
  BY <1>3, <1>4, TxInitSound DEF PaymentsInit, FirstLedger, LedgerInv

LEMMA RecordPaymentKeeps ==
    ASSUME NEW d \in Ledgers, Balanced(d), NEW p \in Payments, p \notin Recorded(d),
           NEW row \in PaymentRows, row # NoPayment,
           \A q \in Recorded(d) : d.payment[q].reference # row.reference,
           NEW e, e = [d EXCEPT !.payment = [d.payment EXCEPT ![p] = row]]
    PROVE  e \in Ledgers /\ Balanced(e)
<1>1. e \in Ledgers
  BY DEF Ledgers
<1>2. e.payment = [d.payment EXCEPT ![p] = row] /\ e.allocations = d.allocations /\ e.charge = d.charge
  BY DEF Ledgers
<1>3. e.payment[p] = row /\ \A q \in Payments \ {p} : e.payment[q] = d.payment[q]
  BY <1>2 DEF Ledgers
<1>4. Recorded(e) = Recorded(d) \cup {p} /\ Recorded(d) \subseteq Payments \ {p}
  BY <1>3 DEF Recorded
<1>5. \A n \in d.allocations : n.payment \in Recorded(d)
  BY DEF Balanced
<1>6. /\ \A q \in Payments : OfPayment(e, q) = OfPayment(d, q)
      /\ \A c \in Charges : OfCharge(e, c) = OfCharge(d, c)
  BY <1>2 DEF OfPayment, OfCharge
<1>7. Allocated(OfPayment(d, p)) = 0 /\ row.amount \in Nat
  <2>1. OfPayment(d, p) = {} /\ row.amount \in Nat
    BY <1>5 DEF OfPayment, PaymentRows
  <2> QED
    BY <2>1, NoneAllocated
<1>8. \A q \in Recorded(e) : Allocated(OfPayment(e, q)) <= e.payment[q].amount
  <2>1. \A q \in Recorded(d) : Allocated(OfPayment(d, q)) <= d.payment[q].amount
    BY DEF Balanced
  <2>2. ASSUME NEW q \in Recorded(d) PROVE Allocated(OfPayment(e, q)) <= e.payment[q].amount
    BY <1>3, <1>4, <1>6, <2>1
  <2>3. Allocated(OfPayment(e, p)) <= e.payment[p].amount
    <3>1. OfPayment(e, p) = OfPayment(d, p) /\ e.payment[p] = row
      BY <1>3, <1>6
    <3> QED
      BY <1>7, <3>1
  <2> QED
    BY <1>4, <2>2, <2>3
<1>9. \A c \in Charges :
         /\ e.charge[c].paid = Allocated(OfCharge(e, c))
         /\ e.charge[c].status = DerivedStatus(e.charge[c].paid)
  BY <1>2, <1>6 DEF Balanced
<1>10. \A n \in e.allocations : e.payment[n.payment].flat = e.charge[n.charge].flat
  BY <1>2, <1>3, <1>4, <1>5 DEF Balanced
<1>11. \A q, s \in Recorded(e) : e.payment[q].reference = e.payment[s].reference => q = s
  BY <1>3, <1>4 DEF Balanced
<1> QED
  BY <1>1, <1>2, <1>4, <1>5, <1>8, <1>9, <1>10, <1>11 DEF Balanced

LEMMA AllocateKeeps ==
    ASSUME NEW d \in Ledgers, Balanced(d), Total \in Nat \ {0},
           NEW p \in Recorded(d), NEW c \in Charges, NEW amount \in Nat \ {0},
           NEW row, row = [payment |-> p, charge |-> c, amount |-> amount],
           d.payment[p].flat = d.charge[c].flat,
           amount <= d.payment[p].amount - Allocated(OfPayment(d, p)),
           NEW new \in ChargeRows, new.flat = d.charge[c].flat,
           new.paid = d.charge[c].paid + amount,
           OfPayment(d, p) \cap OfCharge(d, c) = {},
           new.status = IF new.paid = Total THEN "PAID" ELSE "PARTIALLY_PAID",
           NEW e, e = [d EXCEPT !.allocations = d.allocations \cup {row},
                                !.charge = [d.charge EXCEPT ![c] = new]]
    PROVE  e \in Ledgers /\ Balanced(e)
<1>1. row.payment = p /\ row.charge = c /\ row.amount = amount /\ p \in Payments /\ row \in AllocationRows
  BY DEF Recorded, AllocationRows
<1>2. e \in Ledgers
  BY <1>1 DEF Ledgers
<1>3. /\ e.payment = d.payment /\ e.allocations = d.allocations \cup {row}
      /\ e.charge = [d.charge EXCEPT ![c] = new]
  BY DEF Ledgers
<1>4. e.charge[c] = new /\ \A x \in Charges \ {c} : e.charge[x] = d.charge[x]
  BY <1>3 DEF Ledgers
<1>5. Recorded(e) = Recorded(d) /\ Recorded(d) \subseteq Payments
  BY <1>3 DEF Recorded
<1>6. d.charge[c].paid \in 0..Total /\ new.paid \in 1..Total
  <2>1. d.charge[c] \in ChargeRows
    BY DEF Ledgers
  <2> QED
    BY <2>1 DEF ChargeRows
<1>7. IsFiniteSet(e.allocations) /\ \A n \in e.allocations : n.payment \in Recorded(e)
  BY <1>1, <1>3, <1>5, FS_AddElement DEF Balanced
<1>8. /\ OfPayment(e, p) = OfPayment(d, p) \cup {row} /\ OfCharge(e, c) = OfCharge(d, c) \cup {row}
      /\ \A q \in Payments \ {p} : OfPayment(e, q) = OfPayment(d, q)
      /\ \A x \in Charges \ {c} : OfCharge(e, x) = OfCharge(d, x)
  BY <1>1, <1>3 DEF OfPayment, OfCharge
<1>9. /\ Allocated(OfPayment(e, p)) = Allocated(OfPayment(d, p)) + amount
      /\ Allocated(OfPayment(d, p)) \in Nat
      /\ Allocated(OfCharge(e, c)) = Allocated(OfCharge(d, c)) + amount
  <2>1. \A n \in d.allocations : n.amount \in Nat
    BY DEF Ledgers, AllocationRows
  <2>2. \A A \in SUBSET d.allocations : IsFiniteSet(A) /\ Priced(A)
    BY <2>1, FS_Subset DEF Balanced, Priced
  <2>3. row \notin OfPayment(d, p) /\ row \notin OfCharge(d, c)
    BY <1>1 DEF OfPayment, OfCharge
  <2>4. OfPayment(d, p) \in SUBSET d.allocations /\ OfCharge(d, c) \in SUBSET d.allocations
    BY DEF OfPayment, OfCharge
  <2>5. ASSUME NEW A \in SUBSET d.allocations, row \notin A
        PROVE  Allocated(A \cup {row}) = Allocated(A) + amount /\ Allocated(A) \in Nat
    BY <1>1, <2>2, <2>5, AllocatedOneMore
  <2> QED
    BY <1>8, <2>3, <2>4, <2>5
<1>10. \A q \in Recorded(e) : Allocated(OfPayment(e, q)) <= e.payment[q].amount
  <2>1. Allocated(OfPayment(d, p)) + amount <= d.payment[p].amount
    <3>1. d.payment[p].amount \in Nat
      BY <1>1 DEF Ledgers, PaymentRows
    <3> QED
      BY <1>9, <3>1
  <2>2. \A q \in Recorded(d) : Allocated(OfPayment(d, q)) <= d.payment[q].amount
    BY DEF Balanced
  <2> QED
    BY <1>3, <1>5, <1>8, <1>9, <2>1, <2>2
<1>11. \A x \in Charges : /\ e.charge[x].paid = Allocated(OfCharge(e, x))
                          /\ e.charge[x].status = DerivedStatus(e.charge[x].paid)
  <2>1. new.status = DerivedStatus(new.paid)
    BY <1>6 DEF DerivedStatus
  <2>2. \A x \in Charges : /\ d.charge[x].paid = Allocated(OfCharge(d, x))
                           /\ d.charge[x].status = DerivedStatus(d.charge[x].paid)
    BY DEF Balanced
  <2> QED
    BY <1>4, <1>8, <1>9, <2>1, <2>2
<1>12. \A n \in e.allocations : e.payment[n.payment].flat = e.charge[n.charge].flat
  <2>1. \A x \in Charges : e.charge[x].flat = d.charge[x].flat
    BY <1>4
  <2>2. \A n \in d.allocations : n.charge \in Charges /\ d.payment[n.payment].flat = d.charge[n.charge].flat
    BY DEF Balanced, Ledgers, AllocationRows
  <2> QED
    BY <1>1, <1>3, <2>1, <2>2
<1>13. \A q, s \in Recorded(e) : e.payment[q].reference = e.payment[s].reference => q = s
  BY <1>3, <1>5 DEF Balanced
<1> QED
  BY <1>2, <1>7, <1>10, <1>11, <1>12, <1>13 DEF Balanced

\* The ledger balances whoever allocates at the same time, for any payments,
\* charges, flats and references.
THEOREM SpecLedgerBalances ==
    ASSUME Total \in Nat \ {0}, MaxAmount \in Nat PROVE PaymentsSpec => []LedgerBalances
<1>1. PaymentsInit => LedgerInv
  BY PaymentsInitInv
<1>2. LedgerInv /\ [PaymentsNext]_txVars => LedgerInv'
  <2> SUFFICES ASSUME LedgerInv, [PaymentsNext]_txVars PROVE LedgerInv'
    OBVIOUS
  <2>1. (\A amount \in Amounts : amount \in Nat \ {0}) /\ db \in Ledgers
    BY DEF Amounts, LedgerInv, TxSound
  <2>2. CASE UNCHANGED txVars
    BY <2>2 DEF txVars, LedgerInv, TxSound
  <2>3. ASSUME NEW a \in Admins, TransactionStep(a) PROVE LedgerInv'
    <3>1. TxSound(Ledgers)' /\ db' = db
      BY <2>3, StepSound DEF LedgerInv
    <3> QED
      BY <3>1 DEF LedgerInv
  <2>4. ASSUME NEW a \in Admins, NEW p \in Payments, NEW r \in References, NEW f \in Flats,
               NEW amount \in Amounts, RecordPayment(a, p, r, f, amount)
        PROVE  LedgerInv'
    <3>1. PICK row \in PaymentRows : row = [reference |-> r, flat |-> f, amount |-> amount]
      BY <2>1 DEF PaymentRows
    <3>2. PICK e : e = [db EXCEPT !.payment = [db.payment EXCEPT ![p] = row]]
      OBVIOUS
    <3>3. Commit(a, e)
      BY <2>4, <3>1, <3>2 DEF RecordPayment
    <3>4. db' = e
      BY <3>3, CommitSees DEF LedgerInv
    <3>5. /\ p \notin Recorded(db) /\ row # NoPayment
          /\ \A q \in Recorded(db) : db.payment[q].reference # row.reference
      BY <2>1, <2>4, <3>1 DEF RecordPayment, NoPayment
    <3>6. e \in Ledgers /\ Balanced(e)
      BY <2>1, <3>2, <3>5, RecordPaymentKeeps DEF LedgerInv
    <3> QED
      BY <3>3, <3>4, <3>6, CommitSound DEF LedgerInv
  <2>5. ASSUME NEW a \in Admins, NEW p \in Payments, NEW c \in Charges, NEW amount \in Amounts,
               Allocate(a, p, c, amount)
        PROVE  LedgerInv'
    <3>1. PICK row, paid, status :
            /\ row = [payment |-> p, charge |-> c, amount |-> amount]
            /\ paid = NextPaid(tx[a].seen.charge[c].paid, amount)
            /\ status = IF paid = Total THEN "PAID" ELSE "PARTIALLY_PAID"
      OBVIOUS
    <3>2. PICK e : e = [db EXCEPT !.allocations = @ \cup {row}, !.charge[c].paid = paid,
                                  !.charge[c].status = status, !.charge[c].version = @ + 1]
      OBVIOUS
    <3>3. Commit(a, e)
      BY <2>5, <3>1, <3>2 DEF Allocate
    <3>4. tx[a].seen = db /\ db' = e
      BY <3>3, CommitSees DEF LedgerInv
    <3>5. /\ paid = db.charge[c].paid + amount /\ p \in Recorded(db)
          /\ db.payment[p].flat = db.charge[c].flat
          /\ amount <= db.payment[p].amount - Allocated(OfPayment(db, p))
          /\ paid <= Total /\ OfPayment(db, p) \cap OfCharge(db, c) = {}
      BY <2>5, <3>1, <3>4 DEF Allocate, NextPaid
    <3>6. db.charge[c] \in ChargeRows
      BY <2>1 DEF Ledgers
    <3>7. PICK new : new = [flat |-> db.charge[c].flat, paid |-> paid, status |-> status,
                            version |-> db.charge[c].version + 1]
      OBVIOUS
    <3>8. new \in ChargeRows /\ new.flat = db.charge[c].flat /\ new.paid = paid /\ new.status = status
      <4>1. /\ db.charge[c].paid \in Nat /\ db.charge[c].version \in Nat
            /\ db.charge[c].flat \in Flats /\ amount \in Nat
        BY <2>1, <3>6 DEF ChargeRows
      <4>2. paid \in 0..Total /\ status \in {"UNPAID", "PARTIALLY_PAID", "PAID"}
            /\ db.charge[c].version + 1 \in Nat
        BY <3>1, <3>5, <4>1
      <4> QED
        BY <3>7, <4>1, <4>2 DEF ChargeRows
    <3>9. e = [db EXCEPT !.allocations = db.allocations \cup {row}, !.charge = [db.charge EXCEPT ![c] = new]]
      <4>1. PICK charge \in [Charges -> ChargeRows] : charge = db.charge
        BY <2>1 DEF Ledgers
      <4>2. [charge EXCEPT ![c].paid = paid, ![c].status = status, ![c].version = @ + 1]
              = [charge EXCEPT ![c] = new]
        BY <3>6, <3>7, <4>1 DEF ChargeRows
      <4>3. e = [db EXCEPT !.allocations = db.allocations \cup {row},
                   !.charge = [charge EXCEPT ![c].paid = paid, ![c].status = status, ![c].version = @ + 1]]
        BY <2>1, <3>2, <4>1 DEF Ledgers
      <4> QED
        BY <4>1, <4>2, <4>3
    <3>10. e \in Ledgers /\ Balanced(e)
      BY <2>1, <3>1, <3>5, <3>8, <3>9, AllocateKeeps DEF LedgerInv
    <3> QED
      BY <3>3, <3>4, <3>10, CommitSound DEF LedgerInv
  <2> QED
    BY <2>2, <2>3, <2>4, <2>5 DEF PaymentsNext
<1>3. LedgerInv => LedgerBalances
  BY DEF LedgerInv, Balanced, LedgerBalances
<1> QED
  BY <1>1, <1>2, <1>3, PTL DEF PaymentsSpec
-----------------------------------------------------------------------------
(* Memberships and notices *)

MemberRows == [user : Users \cup {"none"}, status : MembershipStatuses \cup {"ABSENT"},
               trail : Seq(MembershipStatuses), family : BOOLEAN]
NoticeStatuses == {"ABSENT", "DRAFT", "SCHEDULED", "PUBLISHED", "ARCHIVED"}
Rosters == [member : [Memberships -> MemberRows], notice : [Notices -> NoticeStatuses],
            recipients : [Notices -> SUBSET (Users \cup {"none"})]]

\* A history leads from PENDING to the status of the membership, which is
\* ABSENT without one.
Told(row) ==
    /\ row.trail = <<>> <=> row.status = "ABSENT"
    /\ row.trail # <<>> => row.trail[1] = "PENDING" /\ row.trail[Len(row.trail)] = row.status
    /\ \A i \in 1..(Len(row.trail) - 1) : row.trail[i + 1] \in Allowed[row.trail[i]]

RosterInv ==
    /\ TxSound(Rosters)
    /\ OneApproved(db)
    /\ \A m \in Memberships : Told(db.member[m])
    /\ \A n \in Notices : db.recipients[n] = sentTo[n]
    /\ sentTo = [n \in Notices |-> sentTo[n]]

LEMMA NewRow ==
    ASSUME NEW d \in Rosters, NEW m \in Memberships, NEW row \in MemberRows,
           OneApproved(d), \A x \in Memberships : Told(d.member[x]),
           NEW e, e = [d EXCEPT !.member = [d.member EXCEPT ![m] = row]],
           row.status # "APPROVED" \/ (Status(d, m) = "APPROVED" /\ d.member[m].user = row.user) \/ OneApproved(e), Told(row)
    PROVE  /\ e \in Rosters /\ OneApproved(e) /\ \A x \in Memberships : Told(e.member[x])
           /\ e.recipients = d.recipients
<1>1. e \in Rosters /\ e.recipients = d.recipients /\ e.member = [d.member EXCEPT ![m] = row]
  BY DEF Rosters
<1>2. e.member[m] = row /\ \A x \in Memberships \ {m} : e.member[x] = d.member[x]
  BY <1>1 DEF Rosters
<1>3. OneApproved(e)
  BY <1>2 DEF OneApproved, Status
<1> QED
  BY <1>1, <1>2, <1>3

\* No step but the publication sends anything.
LEMMA RowsChange ==
    ASSUME RosterInv, NEW a \in Admins, NEW e, Commit(a, e), UNCHANGED sentTo,
           e \in Rosters, OneApproved(e), \A x \in Memberships : Told(e.member[x]),
           e.recipients = db.recipients
    PROVE  RosterInv'
<1>1. db' = e /\ TxSound(Rosters)'
  BY CommitSees, CommitSound DEF RosterInv
<1> QED
  BY <1>1 DEF RosterInv

LEMMA RequestInv ==
    ASSUME RosterInv, NEW a \in Admins, NEW m \in Memberships, NEW u \in Users, RequestMembership(a, m, u)
    PROVE  RosterInv'
<1>1. PICK row : row = [user |-> u, status |-> "PENDING", trail |-> <<"PENDING">>, family |-> FALSE]
  OBVIOUS
<1>2. row \in MemberRows /\ Told(row) /\ row.status # "APPROVED"
  BY <1>1 DEF MemberRows, MembershipStatuses, Told
<1>3. PICK e : e = [db EXCEPT !.member = [db.member EXCEPT ![m] = row]]
  OBVIOUS
<1>4. db \in Rosters
  BY DEF RosterInv, TxSound
<1>5. Commit(a, e) /\ UNCHANGED sentTo
  BY <1>1, <1>3, <1>4 DEF RequestMembership, Quiet, Rosters
<1>6. /\ e \in Rosters /\ OneApproved(e) /\ \A x \in Memberships : Told(e.member[x])
      /\ e.recipients = db.recipients
  BY <1>2, <1>3, <1>4, NewRow DEF RosterInv
<1> QED
  BY <1>5, <1>6, RowsChange

LEMMA DecideInv ==
    ASSUME RosterInv, NEW a \in Admins, NEW m \in Memberships, NEW target \in MembershipStatuses, NEW reason,
           Decide(a, m, target, reason)
    PROVE  RosterInv'
<1>1. CASE ~DomainAllows(Status(tx[a].seen, m), target, reason)
  <2>1. TransactionStep(a) /\ UNCHANGED sentTo
    BY <1>1 DEF Decide, TransactionStep
  <2>2. TxSound(Rosters)' /\ db' = db
    BY <2>1, StepSound DEF RosterInv
  <2> QED
    BY <2>1, <2>2 DEF RosterInv
<1>2. CASE DomainAllows(Status(tx[a].seen, m), target, reason)
  <2>1. PICK e : e = [db EXCEPT !.member[m].status = target,
                                !.member[m].trail = Append(tx[a].seen.member[m].trail, target)]
    OBVIOUS
  <2>2. Commit(a, e) /\ OneApproved(e) /\ UNCHANGED sentTo /\ Status(tx[a].seen, m) # "ABSENT"
    BY <1>2, <2>1 DEF Decide, Decision
  <2>3. tx[a].seen = db /\ db \in Rosters
    BY <2>2, CommitSees DEF RosterInv, TxSound
  <2>4. PICK old \in MemberRows : old = db.member[m]
    BY <2>3 DEF Rosters
  <2>5. PICK row : row = [old EXCEPT !.status = target, !.trail = Append(old.trail, target)]
    OBVIOUS
  <2>6. e = [db EXCEPT !.member = [db.member EXCEPT ![m] = row]]
    BY <2>1, <2>3, <2>4, <2>5 DEF Rosters
  <2>7. old.status # "ABSENT" /\ target \in Allowed[old.status] /\ Told(old)
    BY <1>2, <2>2, <2>3, <2>4 DEF DomainAllows, Status, RosterInv
  <2>8. row \in MemberRows /\ row.status = target /\ row.trail = Append(old.trail, target)
    <3>1. PICK trail \in Seq(MembershipStatuses) : trail = Append(old.trail, target)
      <4>1. PICK past \in Seq(MembershipStatuses) : past = old.trail
        BY <2>4 DEF MemberRows
      <4>2. Append(past, target) \in Seq(MembershipStatuses)
        OBVIOUS
      <4> QED
        BY <4>1, <4>2
    <3>2. row = [old EXCEPT !.status = target, !.trail = trail]
      BY <2>5, <3>1
    <3> QED
      BY <2>4, <3>1, <3>2 DEF MemberRows
  <2>9. Told(row)
    <3>1. PICK t \in Seq(MembershipStatuses) : t = old.trail /\ t # <<>> /\ t[1] = "PENDING" /\ t[Len(t)] = old.status
            /\ \A i \in 1..(Len(t) - 1) : t[i + 1] \in Allowed[t[i]]
      BY <2>4, <2>7 DEF Told, MemberRows
    <3>2. PICK s : s = Append(t, target)
      OBVIOUS
    <3>3. Len(s) = Len(t) + 1 /\ Len(t) \in Nat \ {0} /\ s[Len(t) + 1] = target /\ \A i \in 1..Len(t) : s[i] = t[i]
      BY <3>1, <3>2
    <3>4. \A i \in 1..(Len(s) - 1) : s[i + 1] \in Allowed[s[i]]
      <4>1. ASSUME NEW i \in 1..(Len(t) - 1) PROVE s[i + 1] \in Allowed[s[i]]
        BY <3>1, <3>3
      <4>2. s[Len(t) + 1] \in Allowed[s[Len(t)]]
        BY <2>7, <3>1, <3>3
      <4> QED
        BY <3>3, <4>1, <4>2
    <3>5. s # <<>> /\ s[1] = "PENDING" /\ s[Len(s)] = target
      BY <3>1, <3>3
    <3> QED
      BY <2>8, <3>1, <3>2, <3>4, <3>5 DEF Told, MembershipStatuses
  <2>10. /\ e \in Rosters /\ \A x \in Memberships : Told(e.member[x])
         /\ e.recipients = db.recipients
    BY <2>2, <2>3, <2>6, <2>8, <2>9, NewRow DEF RosterInv
  <2> QED
    BY <2>2, <2>10, RowsChange
<1> QED
  BY <1>1, <1>2

LEMMA FamilyInv ==
    ASSUME RosterInv, NEW a \in Admins, NEW m \in Memberships, CreateFamilyMember(a, m)
    PROVE  RosterInv'
<1>1. PICK e : e = [db EXCEPT !.member[m].family = TRUE]
  OBVIOUS
<1>2. Commit(a, e) /\ UNCHANGED sentTo /\ db \in Rosters
  BY <1>1 DEF CreateFamilyMember, Quiet, RosterInv, TxSound
<1>3. PICK old \in MemberRows : old = db.member[m]
  BY <1>2 DEF Rosters
<1>4. PICK row : row = [old EXCEPT !.family = TRUE]
  OBVIOUS
<1>5. /\ row \in MemberRows /\ row.status = old.status /\ row.user = old.user /\ row.trail = old.trail
      /\ Told(row)
  <2>1. row \in MemberRows /\ row.status = old.status /\ row.user = old.user /\ row.trail = old.trail
    BY <1>3, <1>4 DEF MemberRows
  <2> QED
    BY <1>3, <2>1 DEF Told, RosterInv
<1>6. e = [db EXCEPT !.member = [db.member EXCEPT ![m] = row]]
  BY <1>1, <1>2, <1>3, <1>4 DEF Rosters
<1>7. /\ e \in Rosters /\ OneApproved(e) /\ \A x \in Memberships : Told(e.member[x])
      /\ e.recipients = db.recipients
  BY <1>2, <1>3, <1>5, <1>6, NewRow DEF RosterInv, Status
<1> QED
  BY <1>2, <1>7, RowsChange

LEMMA NoticeInv ==
    ASSUME RosterInv, NEW a \in Admins, NEW n \in Notices,
           CreateNotice(a, n) \/ PublishNotice(a, n) \/ ArchiveNotice(a, n)
    PROVE  RosterInv'
<1>1. db \in Rosters
  BY DEF RosterInv, TxSound
<1>2. CASE CreateNotice(a, n) \/ ArchiveNotice(a, n)
  <2>1. PICK s \in NoticeStatuses : Commit(a, [db EXCEPT !.notice[n] = s]) /\ UNCHANGED sentTo
    BY <1>2 DEF CreateNotice, ArchiveNotice, Quiet, NoticeStatuses
  <2>2. PICK e : e = [db EXCEPT !.notice[n] = s]
    OBVIOUS
  <2>3. e \in Rosters /\ e.member = db.member /\ e.recipients = db.recipients
    BY <1>1, <2>2 DEF Rosters
  <2>4. OneApproved(e) /\ \A x \in Memberships : Told(e.member[x])
    BY <2>3 DEF RosterInv, OneApproved, Status
  <2> QED
    BY <2>1, <2>2, <2>3, <2>4, RowsChange
<1>3. CASE PublishNotice(a, n)
  <2>1. PICK e : e = [db EXCEPT !.notice[n] = "PUBLISHED", !.recipients[n] = Approved(tx[a].seen)]
    OBVIOUS
  <2>2. Commit(a, e) /\ sentTo' = [sentTo EXCEPT ![n] = Approved(db)]
    BY <1>3, <2>1 DEF PublishNotice
  <2>3. tx[a].seen = db /\ db' = e
    BY <2>2, CommitSees DEF RosterInv
  <2>4. Approved(db) \in SUBSET (Users \cup {"none"})
    BY <1>1 DEF Approved, Status, Rosters, MemberRows
  <2>5. e \in Rosters /\ e.member = db.member /\ e.recipients = [db.recipients EXCEPT ![n] = Approved(db)]
    BY <1>1, <2>1, <2>3, <2>4 DEF Rosters, NoticeStatuses
  <2>6. OneApproved(e) /\ \A x \in Memberships : Told(e.member[x])
    BY <2>5 DEF RosterInv, OneApproved, Status
  <2>7. TxSound(Rosters)'
    BY <2>2, <2>5, CommitSound DEF RosterInv
  <2>8. \A x \in Notices : e.recipients[x] = sentTo'[x]
    BY <1>1, <2>2, <2>5 DEF RosterInv, Rosters
  <2>9. sentTo' = [x \in Notices |-> sentTo'[x]]
    BY <2>2 DEF RosterInv
  <2> QED
    BY <2>3, <2>6, <2>7, <2>8, <2>9 DEF RosterInv
<1> QED
  BY <1>2, <1>3

\* However requests, decisions and publications overlap, the memberships and
\* their histories agree, and a notice went to those who were members.
THEOREM SpecRosterConsistent == ResidencySpec => []RosterConsistent
<1>1. ResidencyInit => RosterInv
  <2> SUFFICES ASSUME ResidencyInit PROVE RosterInv
    OBVIOUS
  <2>1. NoMembership \in MemberRows /\ Told(NoMembership) /\ NoMembership.status = "ABSENT"
    BY DEF NoMembership, MemberRows, Told
  <2>2. /\ db \in Rosters /\ \A m \in Memberships : db.member[m] = NoMembership
        /\ \A n \in Notices : db.recipients[n] = sentTo[n]
        /\ sentTo = [n \in Notices |-> sentTo[n]]
    BY <2>1 DEF ResidencyInit, FirstRoster, Rosters, NoticeStatuses
  <2> QED
    BY <2>1, <2>2, TxInitSound DEF ResidencyInit, FirstRoster, RosterInv, OneApproved, Status
<1>2. RosterInv /\ [ResidencyNext]_residencyVars => RosterInv'
  <2> SUFFICES ASSUME RosterInv, [ResidencyNext]_residencyVars PROVE RosterInv'
    OBVIOUS
  <2>1. CASE UNCHANGED residencyVars
    BY <2>1 DEF residencyVars, RosterInv, TxSound
  <2>2. ASSUME NEW a \in Admins, TransactionStep(a), Quiet PROVE RosterInv'
    <3>1. TxSound(Rosters)' /\ db' = db /\ sentTo' = sentTo
      BY <2>2, StepSound DEF RosterInv, Quiet
    <3> QED
      BY <3>1 DEF RosterInv
  <2> QED
    BY <2>1, <2>2, RequestInv, DecideInv, FamilyInv, NoticeInv DEF ResidencyNext
<1>3. RosterInv => RosterConsistent
  BY DEF RosterInv, RosterConsistent, Told, Status
<1> QED
  BY <1>1, <1>2, <1>3, PTL DEF ResidencySpec
-----------------------------------------------------------------------------
(* Casework *)

AlertStatuses == {"ACTIVE", "ACKNOWLEDGED", "RESPONDING", "RESOLVED", "FALSE_ALARM"}
Changes(From, To) == [from : From, to : To]
ComplaintRows ==
    [status : ComplaintStatuses, assignee : Roles \cup {"none"}, reopened : Nat, version : Nat,
     history : Seq(Changes(ComplaintStatuses, ComplaintStatuses)),
     assignments : Seq(Changes(Roles \cup {"none"}, Roles))]
AlertRows ==
    [status : AlertStatuses, responding : BOOLEAN, version : Nat,
     events : Seq(Changes(AlertStatuses, AlertStatuses))]
CaseRows == [complaint : ComplaintRows, alert : AlertRows, role : [Roles -> {"ABSENT", "ACTIVE", "INACTIVE"}]]

ComplaintTold(c) ==
    /\ Linked(c.assignments)
    /\ c.assignments # <<>> => Last(c.assignments).to = c.assignee
    /\ Len(c.history) + Len(c.assignments) = c.version - 1
    /\ c.reopened = Reopenings(c.history)
    /\ \A i \in DOMAIN c.history : AllowedTransition(c.history[i].from, c.history[i].to)

\* An emergency nothing happened to is still ACTIVE, whence the first event
\* leads from there.
AlertTold(x) ==
    /\ Linked(x.events)
    /\ x.events = <<>> => x.status = "ACTIVE"
    /\ x.events # <<>> => Head(x.events).from = "ACTIVE" /\ Last(x.events).to = x.status
    /\ Len(x.events) = x.version - 1

CaseworkInv == TxSound(CaseRows) /\ ComplaintTold(db.complaint) /\ AlertTold(db.alert) /\ ~unfit

\* A row that starts where the last one ended keeps a history without a gap.
LEMMA LinkedAppend ==
    ASSUME NEW Rows, NEW rows \in Seq(Rows), NEW row \in Rows, Linked(rows),
           rows # <<>> => Last(rows).to = row.from
    PROVE  Linked(Append(rows, row)) /\ Last(Append(rows, row)) = row
<1>1. PICK more : more = Append(rows, row)
  OBVIOUS
<1>2. /\ Len(more) = Len(rows) + 1 /\ Len(rows) \in Nat
      /\ more[Len(rows) + 1] = row /\ \A i \in 1..Len(rows) : more[i] = rows[i]
  BY <1>1
<1>3. ASSUME NEW i \in 1..(Len(more) - 1) PROVE more[i].to = more[i + 1].from
  <2>1. CASE i = Len(rows)
    <3>1. rows # <<>> /\ rows[i].to = row.from
      BY <1>2, <1>3, <2>1 DEF Last
    <3> QED
      BY <1>2, <1>3, <2>1, <3>1
  <2>2. CASE i # Len(rows)
    <3>1. i \in 1..(Len(rows) - 1) /\ i \in 1..Len(rows) /\ i + 1 \in 1..Len(rows)
      BY <1>2, <1>3, <2>2
    <3>2. rows[i].to = rows[i + 1].from
      BY <3>1 DEF Linked
    <3> QED
      BY <1>2, <3>1, <3>2
  <2> QED
    BY <2>1, <2>2
<1> QED
  BY <1>1, <1>2, <1>3 DEF Linked, Last

LEMMA ReopeningsAppend ==
    ASSUME NEW Rows, NEW rows \in Seq(Rows), NEW row \in Rows
    PROVE  /\ Reopenings(rows) \in Nat
           /\ Reopenings(Append(rows, row)) =
                IF row.to = "REOPENED" THEN Reopenings(rows) + 1 ELSE Reopenings(rows)
<1>0. PICK more : more = Append(rows, row)
  OBVIOUS
<1> DEFINE at(s) == {i \in DOMAIN s : s[i].to = "REOPENED"}
           n == Len(rows) + 1
<1>1. /\ DOMAIN rows = 1..Len(rows) /\ DOMAIN more = 1..n /\ Len(rows) \in Nat
      /\ more[n] = row /\ \A i \in 1..Len(rows) : more[i] = rows[i]
  BY <1>0
<1>2. n \notin at(rows) /\ at(more) = IF row.to = "REOPENED" THEN at(rows) \cup {n} ELSE at(rows)
  BY <1>1
<1>3. IsFiniteSet(at(rows))
  <2>1. IsFiniteSet(1..Len(rows)) /\ at(rows) \subseteq 1..Len(rows)
    BY <1>1, FS_Interval
  <2> HIDE DEF at
  <2> QED
    BY <2>1, FS_Subset
<1>4. Reopenings(rows) = Cardinality(at(rows)) /\ Reopenings(more) = Cardinality(at(more))
  BY DEF Reopenings
<1> HIDE DEF at, n
<1>5. Cardinality(at(rows)) \in Nat
  BY <1>3, FS_CardinalityType
<1>6. Cardinality(at(rows) \cup {n}) = Cardinality(at(rows)) + 1
  BY <1>2, <1>3, FS_AddElement
<1> QED
  BY <1>0, <1>2, <1>4, <1>5, <1>6

LEMMA AssignKeeps ==
    ASSUME NEW c \in ComplaintRows, ComplaintTold(c), NEW r \in Roles,
           NEW new, new = [c EXCEPT !.assignee = r, !.status = "ASSIGNED", !.version = @ + 1,
                                    !.assignments = Append(@, Change(c.assignee, r))]
    PROVE  new \in ComplaintRows /\ ComplaintTold(new)
<1> DEFINE Steps == Changes(Roles \cup {"none"}, Roles)
<1>1. PICK row \in Steps : row = Change(c.assignee, r)
  BY DEF ComplaintRows, Changes, Change
<1>2. row.from = c.assignee /\ row.to = r
  BY <1>1 DEF Change
<1>3. PICK rows \in Seq(Steps) : rows = c.assignments
  BY DEF ComplaintRows
<1>4. PICK more : more = Append(rows, row)
  OBVIOUS
<1>5. /\ rows \in Seq(Steps) /\ row \in Steps /\ more = Append(rows, row)
      /\ Linked(rows) /\ (rows # <<>> => Last(rows).to = row.from)
  BY <1>1, <1>2, <1>3, <1>4 DEF ComplaintTold
<1>6. /\ more \in Seq(Steps) /\ Len(more) = Len(rows) + 1
      /\ Linked(more) /\ Last(more) = row
  <2> HIDE DEF Steps
  <2>1. Linked(more) /\ Last(more) = row
    BY <1>5, LinkedAppend
  <2> QED
    BY <1>5, <2>1
<1>7. c.version \in Nat /\ c.history \in Seq(Changes(ComplaintStatuses, ComplaintStatuses)) /\ c.reopened \in Nat
  BY DEF ComplaintRows
<1>8. new.assignments = more /\ new.assignee = r /\ new.version = c.version + 1
      /\ new.history = c.history /\ new.reopened = c.reopened /\ new \in ComplaintRows
  <2>1. PICK version \in Nat : version = c.version + 1
    BY <1>7
  <2>2. new = [c EXCEPT !.assignee = r, !.status = "ASSIGNED", !.version = version, !.assignments = more]
    BY <1>1, <1>3, <1>4, <2>1
  <2>3. "ASSIGNED" \in ComplaintStatuses
    BY DEF ComplaintStatuses
  <2> QED
    BY <1>6, <2>1, <2>2, <2>3 DEF ComplaintRows
<1>10. Len(c.history) + Len(rows) = c.version - 1 /\ Len(c.history) \in Nat /\ Len(rows) \in Nat
  <2>1. Len(c.history) + Len(rows) = c.version - 1
    BY <1>3 DEF ComplaintTold
  <2> QED
    BY <1>7, <2>1
<1>11. Len(new.history) + Len(new.assignments) = new.version - 1
  <2>1. new.history = c.history /\ Len(new.assignments) = Len(rows) + 1 /\ new.version = c.version + 1
    BY <1>6, <1>8
  <2>2. PICK m, n, v \in Nat : m = Len(c.history) /\ n = Len(rows) /\ v = c.version
    BY <1>7, <1>10
  <2>3. m + n = v - 1
    BY <1>10, <2>2
  <2>4. m + (n + 1) = (v + 1) - 1
    BY <2>3
  <2> QED
    BY <2>1, <2>2, <2>4
<1>12. new.reopened = Reopenings(new.history)
       /\ \A i \in DOMAIN new.history : AllowedTransition(new.history[i].from, new.history[i].to)
  BY <1>8 DEF ComplaintTold
<1> QED
  BY <1>2, <1>6, <1>8, <1>11, <1>12 DEF ComplaintTold

LEMMA TransitionKeeps ==
    ASSUME NEW c \in ComplaintRows, ComplaintTold(c), NEW to \in ComplaintStatuses,
           AllowedTransition(c.status, to),
           NEW new, new = [c EXCEPT !.status = to,
                                    !.reopened = IF to = "REOPENED" THEN @ + 1 ELSE @,
                                    !.version = @ + 1,
                                    !.history = Append(@, Change(c.status, to))]
    PROVE  new \in ComplaintRows /\ ComplaintTold(new)
<1> DEFINE Steps == Changes(ComplaintStatuses, ComplaintStatuses)
<1>1. PICK row \in Steps : row = Change(c.status, to)
  BY DEF ComplaintRows, Changes, Change
<1>2. row.from = c.status /\ row.to = to
  BY <1>1 DEF Change
<1>3. PICK rows \in Seq(Steps) : rows = c.history
  BY DEF ComplaintRows
<1>4. PICK more : more = Append(rows, row)
  OBVIOUS
<1> HIDE DEF Steps
<1>5. /\ more \in Seq(Steps) /\ Len(more) = Len(rows) + 1 /\ Len(rows) \in Nat
      /\ more[Len(rows) + 1] = row /\ \A i \in 1..Len(rows) : more[i] = rows[i]
      /\ DOMAIN more = 1..(Len(rows) + 1) /\ DOMAIN rows = 1..Len(rows)
  BY <1>3, <1>4
<1>6. Reopenings(rows) \in Nat /\ Reopenings(more) = IF to = "REOPENED" THEN Reopenings(rows) + 1 ELSE Reopenings(rows)
  <2>1. rows \in Seq(Steps) /\ row \in Steps /\ more = Append(rows, row) /\ row.to = to
    BY <1>1, <1>2, <1>3, <1>4
  <2> QED
    BY <2>1, ReopeningsAppend
<1>7. /\ c.version \in Nat /\ c.assignments \in Seq(Changes(Roles \cup {"none"}, Roles))
      /\ c.reopened \in Nat /\ c.assignee \in Roles \cup {"none"}
  BY DEF ComplaintRows
<1>8. PICK version \in Nat, reopened \in Nat :
         version = c.version + 1 /\ reopened = IF to = "REOPENED" THEN c.reopened + 1 ELSE c.reopened
  BY <1>7
<1>9. /\ new.assignments = c.assignments /\ new.assignee = c.assignee /\ new.version = version
      /\ new.history = more /\ new.reopened = reopened /\ new \in ComplaintRows
  <2>1. new = [c EXCEPT !.status = to, !.reopened = reopened, !.version = version, !.history = more]
    BY <1>1, <1>3, <1>4, <1>8
  <2>2. more \in Seq(Changes(ComplaintStatuses, ComplaintStatuses))
    BY <1>5 DEF Steps
  <2> QED
    BY <2>1, <2>2 DEF ComplaintRows
<1>10. Len(rows) + Len(c.assignments) = c.version - 1 /\ Len(c.assignments) \in Nat
  <2>1. Len(rows) + Len(c.assignments) = c.version - 1
    BY <1>3 DEF ComplaintTold
  <2> QED
    BY <1>7, <2>1
<1>11. Len(new.history) + Len(new.assignments) = new.version - 1
  <2>1. new.assignments = c.assignments /\ Len(new.history) = Len(rows) + 1 /\ new.version = c.version + 1
    BY <1>5, <1>8, <1>9
  <2>2. PICK m, n, v \in Nat : m = Len(c.assignments) /\ n = Len(rows) /\ v = c.version
    BY <1>5, <1>7, <1>10
  <2>3. n + m = v - 1
    BY <1>10, <2>2
  <2>4. (n + 1) + m = (v + 1) - 1
    BY <2>3
  <2> QED
    BY <2>1, <2>2, <2>4
<1>12. new.reopened = Reopenings(new.history)
  <2>1. PICK n \in Nat : n = Reopenings(rows)
    BY <1>6
  <2>2. c.reopened = n
    BY <1>3, <2>1 DEF ComplaintTold
  <2>3. reopened = Reopenings(more)
    BY <1>6, <1>8, <2>1, <2>2
  <2> QED
    BY <1>9, <2>3
<1>13. \A i \in DOMAIN new.history : AllowedTransition(new.history[i].from, new.history[i].to)
  <2>1. \A i \in DOMAIN rows : AllowedTransition(rows[i].from, rows[i].to)
    BY <1>3 DEF ComplaintTold
  <2>2. AllowedTransition(row.from, row.to)
    BY <1>2
  <2>3. ASSUME NEW i \in DOMAIN more PROVE AllowedTransition(more[i].from, more[i].to)
    <3>1. CASE i = Len(rows) + 1
      BY <1>5, <2>2, <3>1
    <3>2. CASE i # Len(rows) + 1
      <4>1. i \in DOMAIN rows /\ more[i] = rows[i]
        BY <1>5, <2>3, <3>2
      <4> QED
        BY <2>1, <4>1
    <3> QED
      BY <3>1, <3>2
  <2> QED
    BY <1>9, <2>3
<1>14. Linked(new.assignments) /\ (new.assignments # <<>> => Last(new.assignments).to = new.assignee)
  BY <1>9 DEF ComplaintTold
<1> QED
  BY <1>9, <1>11, <1>12, <1>13, <1>14 DEF ComplaintTold

LEMMA MutateKeeps ==
    ASSUME NEW x \in AlertRows, AlertTold(x), NEW to \in AlertStatuses, NEW responding \in BOOLEAN,
           NEW new, new = [x EXCEPT !.status = to, !.responding = responding, !.version = @ + 1,
                                    !.events = Append(@, Change(x.status, to))]
    PROVE  new \in AlertRows /\ AlertTold(new)
<1> DEFINE Steps == Changes(AlertStatuses, AlertStatuses)
<1>1. PICK row \in Steps : row = Change(x.status, to)
  BY DEF AlertRows, Changes, Change
<1>2. row.from = x.status /\ row.to = to
  BY <1>1 DEF Change
<1>3. PICK rows \in Seq(Steps) : rows = x.events
  BY DEF AlertRows
<1>4. PICK more : more = Append(rows, row)
  OBVIOUS
<1> HIDE DEF Steps
<1>5. /\ rows \in Seq(Steps) /\ row \in Steps /\ more = Append(rows, row)
      /\ Linked(rows) /\ (rows # <<>> => Last(rows).to = row.from)
  BY <1>1, <1>2, <1>3, <1>4 DEF AlertTold
<1>6. /\ more \in Seq(Steps) /\ more # <<>> /\ Len(more) = Len(rows) + 1
      /\ Linked(more) /\ Last(more) = row /\ Head(more) = IF rows = <<>> THEN row ELSE Head(rows)
  <2>1. Linked(more) /\ Last(more) = row
    BY <1>5, LinkedAppend
  <2> QED
    BY <1>5, <2>1
<1>7. x.version \in Nat /\ Len(rows) = x.version - 1 /\ Len(rows) \in Nat
  BY <1>3 DEF AlertRows, AlertTold
<1>8. new.events = more /\ new.version = x.version + 1 /\ new.status = to /\ new \in AlertRows
  <2>1. PICK version \in Nat : version = x.version + 1
    BY <1>7
  <2>2. new = [x EXCEPT !.status = to, !.responding = responding, !.version = version, !.events = more]
    BY <1>1, <1>3, <1>4, <2>1
  <2> QED
    BY <1>6, <2>1, <2>2 DEF AlertRows, Steps
<1>10. Head(more).from = "ACTIVE"
  BY <1>2, <1>3, <1>6 DEF AlertTold
<1>11. Len(new.events) = new.version - 1
  BY <1>6, <1>8, <1>7
<1> QED
  BY <1>2, <1>6, <1>8, <1>10, <1>11 DEF AlertTold

\* What a caller that commits makes of the rows is believable and sees nobody unfit.
LEMMA CaseChange ==
    ASSUME CaseworkInv, NEW a \in Admins, NEW e, Commit(a, e), e \in CaseRows,
           ComplaintTold(e.complaint), AlertTold(e.alert), ~unfit'
    PROVE  CaseworkInv'
<1>1. db' = e /\ TxSound(CaseRows)'
  BY CommitSees, CommitSound DEF CaseworkInv
<1> QED
  BY <1>1 DEF CaseworkInv

LEMMA AssignInv ==
    ASSUME CaseworkInv, NEW a \in Admins, NEW r \in Roles, AssignComplaint(a, r)
    PROVE  CaseworkInv'
<1>1. PICK seen : seen = tx[a].seen.complaint
  OBVIOUS
<1>2. PICK e : e = [db EXCEPT !.complaint.assignee = r, !.complaint.status = "ASSIGNED",
                              !.complaint.version = @ + 1,
                              !.complaint.assignments = Append(@, Change(seen.assignee, r))]
  OBVIOUS
<1>3. Commit(a, e) /\ tx[a].seen.role[r] = "ACTIVE" /\ unfit' = (unfit \/ db.role[r] # "ACTIVE")
  BY <1>1, <1>2 DEF AssignComplaint
<1>4. tx[a].seen = db /\ db \in CaseRows
  BY <1>3, CommitSees DEF CaseworkInv, TxSound
<1>5. PICK c \in ComplaintRows : c = db.complaint
  BY <1>4 DEF CaseRows
<1>6. PICK new : new = [c EXCEPT !.assignee = r, !.status = "ASSIGNED", !.version = @ + 1,
                                 !.assignments = Append(@, Change(c.assignee, r))]
  OBVIOUS
<1>7. new \in ComplaintRows /\ ComplaintTold(new)
  BY <1>5, <1>6, AssignKeeps DEF CaseworkInv
<1>8. e = [db EXCEPT !.complaint = new]
  <2>1. e = [db EXCEPT !.complaint = [c EXCEPT !.assignee = r, !.status = "ASSIGNED", !.version = @ + 1,
                                               !.assignments = Append(@, Change(c.assignee, r))]]
    BY <1>1, <1>2, <1>4, <1>5 DEF CaseRows
  <2> QED
    BY <1>6, <2>1
<1>9. e \in CaseRows /\ e.complaint = new /\ e.alert = db.alert
  BY <1>4, <1>7, <1>8 DEF CaseRows
<1> QED
  BY <1>3, <1>4, <1>7, <1>9, CaseChange DEF CaseworkInv

LEMMA TransitionInv ==
    ASSUME CaseworkInv, NEW a \in Admins, NEW to \in ComplaintStatuses, NEW version,
           TransitionComplaint(a, to, version)
    PROVE  CaseworkInv'
<1>1. PICK seen : seen = tx[a].seen.complaint
  OBVIOUS
<1>2. PICK e : e = [db EXCEPT !.complaint.status = to,
                              !.complaint.reopened = IF to = "REOPENED" THEN @ + 1 ELSE @,
                              !.complaint.version = @ + 1,
                              !.complaint.history = Append(@, Change(seen.status, to))]
  OBVIOUS
<1>3. Commit(a, e) /\ AllowedTransition(seen.status, to) /\ unfit' = unfit
  BY <1>1, <1>2 DEF TransitionComplaint
<1>4. tx[a].seen = db /\ db \in CaseRows
  BY <1>3, CommitSees DEF CaseworkInv, TxSound
<1>5. PICK c \in ComplaintRows : c = db.complaint
  BY <1>4 DEF CaseRows
<1>6. PICK new : new = [c EXCEPT !.status = to, !.reopened = IF to = "REOPENED" THEN @ + 1 ELSE @,
                                 !.version = @ + 1, !.history = Append(@, Change(c.status, to))]
  OBVIOUS
<1>7. new \in ComplaintRows /\ ComplaintTold(new)
  BY <1>1, <1>3, <1>4, <1>5, <1>6, TransitionKeeps DEF CaseworkInv
<1>8. e = [db EXCEPT !.complaint = new]
  <2>1. e = [db EXCEPT !.complaint = [c EXCEPT !.status = to,
               !.reopened = IF to = "REOPENED" THEN @ + 1 ELSE @, !.version = @ + 1,
               !.history = Append(@, Change(c.status, to))]]
    BY <1>1, <1>2, <1>4, <1>5 DEF CaseRows
  <2> QED
    BY <1>6, <2>1
<1>9. e \in CaseRows /\ e.complaint = new /\ e.alert = db.alert
  BY <1>4, <1>7, <1>8 DEF CaseRows
<1> QED
  BY <1>3, <1>7, <1>9, CaseChange DEF CaseworkInv

LEMMA MutateInv ==
    ASSUME CaseworkInv, NEW a \in Admins, NEW to \in AlertStatuses, NEW version,
           MutateEmergency(a, to, version)
    PROVE  CaseworkInv'
<1>1. PICK seen : seen = tx[a].seen.alert
  OBVIOUS
<1>2. PICK e : e = [db EXCEPT !.alert.status = to, !.alert.responding = @ \/ to = "RESPONDING",
                              !.alert.version = @ + 1,
                              !.alert.events = Append(@, Change(seen.status, to))]
  OBVIOUS
<1>3. Commit(a, e) /\ unfit' = unfit
  BY <1>1, <1>2 DEF MutateEmergency
<1>4. tx[a].seen = db /\ db \in CaseRows
  BY <1>3, CommitSees DEF CaseworkInv, TxSound
<1>5. PICK x \in AlertRows : x = db.alert
  BY <1>4 DEF CaseRows
<1>6. PICK responding \in BOOLEAN : responding = (x.responding \/ to = "RESPONDING")
  OBVIOUS
<1>7. PICK new : new = [x EXCEPT !.status = to, !.responding = responding, !.version = @ + 1,
                                 !.events = Append(@, Change(x.status, to))]
  OBVIOUS
<1>8. new \in AlertRows /\ AlertTold(new)
  BY <1>5, <1>6, <1>7, MutateKeeps DEF CaseworkInv
<1>9. e = [db EXCEPT !.alert = new]
  <2>1. e = [db EXCEPT !.alert = [x EXCEPT !.status = to, !.responding = responding, !.version = @ + 1,
                                           !.events = Append(@, Change(x.status, to))]]
    BY <1>1, <1>2, <1>4, <1>5, <1>6 DEF CaseRows
  <2> QED
    BY <1>7, <2>1
<1>10. e \in CaseRows /\ e.alert = new /\ e.complaint = db.complaint
  BY <1>4, <1>8, <1>9 DEF CaseRows
<1> QED
  BY <1>3, <1>8, <1>10, CaseChange DEF CaseworkInv

LEMMA RoleInv ==
    ASSUME CaseworkInv, NEW a \in Admins, NEW r \in Roles, CreateRole(a, r) \/ DeactivateRole(a, r)
    PROVE  CaseworkInv'
<1>1. PICK s \in {"ACTIVE", "INACTIVE"} : Commit(a, [db EXCEPT !.role[r] = s]) /\ unfit' = unfit
  BY DEF CreateRole, DeactivateRole
<1>2. PICK e : e = [db EXCEPT !.role[r] = s]
  OBVIOUS
<1>3. db \in CaseRows
  BY DEF CaseworkInv, TxSound
<1>4. e \in CaseRows /\ e.complaint = db.complaint /\ e.alert = db.alert
  BY <1>2, <1>3 DEF CaseRows
<1> QED
  BY <1>1, <1>2, <1>4, CaseChange DEF CaseworkInv

\* The histories of complaints and emergencies can be believed, and nobody was
\* assigned whose role had been taken away, whoever works on them at once.
THEOREM SpecTrailsAgree == CaseworkSpec => []TrailsAgree
<1>1. CaseworkInit => CaseworkInv
  <2> SUFFICES ASSUME CaseworkInit PROVE CaseworkInv
    OBVIOUS
  <2>1. PICK c, x, role :
          /\ c = [status |-> "OPEN", assignee |-> "none", reopened |-> 0, version |-> 1,
                  history |-> <<>>, assignments |-> <<>>]
          /\ x = [status |-> "ACTIVE", responding |-> FALSE, version |-> 1, events |-> <<>>]
          /\ role = [r \in Roles |-> "ABSENT"]
          /\ db = [complaint |-> c, alert |-> x, role |-> role]
    BY DEF CaseworkInit, FirstCase
  <2>2. c \in ComplaintRows /\ x \in AlertRows /\ role \in [Roles -> {"ABSENT", "ACTIVE", "INACTIVE"}]
    BY <2>1 DEF ComplaintRows, AlertRows, ComplaintStatuses, AlertStatuses
  <2>3. db \in CaseRows /\ db.complaint = c /\ db.alert = x
    BY <2>1, <2>2 DEF CaseRows
  <2>4. Reopenings(<<>>) = 0
    <3>1. {i \in DOMAIN <<>> : <<>>[i].to = "REOPENED"} = {}
      OBVIOUS
    <3> QED
      BY <3>1, FS_EmptySet DEF Reopenings
  <2>5. ComplaintTold(c)
    BY <2>1, <2>4 DEF ComplaintTold, Linked
  <2>6. AlertTold(x)
    BY <2>1 DEF AlertTold, Linked
  <2> QED
    BY <2>3, <2>5, <2>6, TxInitSound DEF CaseworkInit, FirstCase, CaseworkInv
<1>2. CaseworkInv /\ [CaseworkNext]_caseworkVars => CaseworkInv'
  <2> SUFFICES ASSUME CaseworkInv, [CaseworkNext]_caseworkVars PROVE CaseworkInv'
    OBVIOUS
  <2>1. CASE UNCHANGED caseworkVars
    BY <2>1 DEF caseworkVars, CaseworkInv, TxSound
  <2>2. ASSUME NEW a \in Admins, TransactionStep(a), UNCHANGED unfit PROVE CaseworkInv'
    <3>1. TxSound(CaseRows)' /\ db' = db
      BY <2>2, StepSound DEF CaseworkInv
    <3> QED
      BY <2>2, <3>1 DEF CaseworkInv
  <2>3. ASSUME NEW a \in Admins, NEW version,
               AcknowledgeEmergency(a) \/ RespondEmergency(a, version) \/ ResolveEmergency(a, version)
        PROVE  CaseworkInv'
    <3>1. \E to \in AlertStatuses, v \in Nat \cup {version} : MutateEmergency(a, to, v)
      BY <2>3 DEF AcknowledgeEmergency, RespondEmergency, ResolveEmergency, AlertStatuses
    <3> QED
      BY <3>1, MutateInv
  <2> QED
    BY <2>1, <2>2, <2>3, AssignInv, TransitionInv, RoleInv DEF CaseworkNext
<1>3. CaseworkInv => TrailsAgree
  BY DEF CaseworkInv, ComplaintTold, AlertTold, TrailsAgree
<1> QED
  BY <1>1, <1>2, <1>3, PTL DEF CaseworkSpec
-----------------------------------------------------------------------------
(* Visits *)

VisitStatuses == {"DRAFT", "EXPECTED", "ARRIVED_AT_GATE", "AWAITING_APPROVAL", "APPROVED", "REJECTED",
                  "APPROVAL_TIMED_OUT", "CHECKED_IN", "CHECKED_OUT", "CANCELLED", "EXPIRED"}
Approvals == {"none", "PENDING", "APPROVED", "REJECTED", "CANCELLED", "TIMED_OUT"}
VisitRows == [status : VisitStatuses, approval : Approvals, decisions : Seq(Approvals), flagged : BOOLEAN,
              events : Seq(Changes(VisitStatuses, VisitStatuses))]

\* Where nobody has been asked yet.
Unasked == {"DRAFT", "EXPECTED", "ARRIVED_AT_GATE"}

Taken(e) == e.to \in Onward(e.from) \/ e = Event("CHECKED_IN", "CHECKED_IN")

\* A visit without events is a DRAFT, one on its way to the gate has no approval,
\* and an approval without an outcome has no decision.
ApprovalTold(status, approval, decisions) ==
    /\ status \in Unasked => approval = "none"
    /\ status = "AWAITING_APPROVAL" => approval = "PENDING"
    /\ approval \in {"none", "PENDING"} => decisions = <<>>
    /\ Len(decisions) <= 1

VisitTold(d) ==
    /\ Linked(d.events)
    /\ d.events = <<>> => d.status = "DRAFT"
    /\ d.events # <<>> => Head(d.events).from = "DRAFT" /\ Last(d.events).to = d.status
    /\ \A i \in DOMAIN d.events : Taken(d.events[i])
    /\ (\E i \in DOMAIN d.events : d.events[i].to = "APPROVAL_TIMED_OUT") => d.approval = "TIMED_OUT"
    /\ ApprovalTold(d.status, d.approval, d.decisions)

VisitInv == TxSound(VisitRows) /\ VisitTold(db)

LEMMA OvertakeSound ==
    ASSUME NEW Rows, TxSound(Rows), NEW rows \in Rows, Overtake(rows)
    PROVE  TxSound(Rows)' /\ db' = rows
<1>1. /\ db' = rows
      /\ tx' = [b \in Admins |->
           IF tx[b].open THEN [tx[b] EXCEPT !.stale = TRUE] ELSE [tx[b] EXCEPT !.seen = rows]]
  BY DEF Overtake
<1>2. \A b \in Admins : /\ tx'[b] \in [open : BOOLEAN, seen : Rows, stale : BOOLEAN]
                        /\ ~tx'[b].stale => tx'[b].seen = rows
  BY <1>1 DEF TxSound
<1>3. tx' \in [Admins -> [open : BOOLEAN, seen : Rows, stale : BOOLEAN]]
  BY <1>1, <1>2
<1> QED
  BY <1>1, <1>2, <1>3 DEF TxSound

\* A step and what it does to the approval.
LEMMA VisitStepKeeps ==
    ASSUME NEW d \in VisitRows, VisitTold(d), NEW to \in VisitStatuses, Taken(Event(d.status, to)),
           NEW approval \in Approvals, NEW decisions \in Seq(Approvals), NEW flagged \in BOOLEAN,
           ApprovalTold(to, approval, decisions),
           to = "APPROVAL_TIMED_OUT" \/ d.approval = "TIMED_OUT" => approval = "TIMED_OUT",
           NEW new, new = [d EXCEPT !.status = to, !.approval = approval, !.decisions = decisions,
                                    !.flagged = flagged, !.events = Append(@, Event(d.status, to))]
    PROVE  new \in VisitRows /\ VisitTold(new)
<1> DEFINE Steps == Changes(VisitStatuses, VisitStatuses)
<1>1. PICK row \in Steps : row = Event(d.status, to)
  BY DEF VisitRows, Changes, Event
<1>2. row.from = d.status /\ row.to = to
  BY <1>1 DEF Event
<1>3. PICK rows \in Seq(Steps) : rows = d.events
  BY DEF VisitRows
<1>4. PICK more : more = Append(rows, row)
  OBVIOUS
<1>5. /\ rows \in Seq(Steps) /\ row \in Steps /\ more = Append(rows, row)
      /\ Linked(rows) /\ (rows # <<>> => Last(rows).to = row.from)
  BY <1>1, <1>2, <1>3, <1>4 DEF VisitTold
<1>6. new = [d EXCEPT !.status = to, !.approval = approval, !.decisions = decisions,
                      !.flagged = flagged, !.events = more]
  BY <1>1, <1>3, <1>4
<1> HIDE DEF Steps
<1>7. Linked(more) /\ Last(more) = row
  BY <1>5, LinkedAppend
<1>8. /\ more \in Seq(Steps) /\ more # <<>> /\ Head(more) = IF rows = <<>> THEN row ELSE Head(rows)
      /\ DOMAIN more = 1..(Len(rows) + 1) /\ DOMAIN rows = 1..Len(rows) /\ Len(rows) \in Nat
      /\ more[Len(rows) + 1] = row /\ \A i \in 1..Len(rows) : more[i] = rows[i]
  BY <1>5
<1>9. /\ new.status = to /\ new.approval = approval /\ new.decisions = decisions /\ new.events = more
      /\ new \in VisitRows
  <2>1. more \in Seq(Changes(VisitStatuses, VisitStatuses))
    BY <1>8 DEF Steps
  <2> QED
    BY <1>6, <2>1 DEF VisitRows
<1>10. Head(more).from = "DRAFT"
  BY <1>2, <1>3, <1>8 DEF VisitTold
<1>11. /\ \A i \in DOMAIN rows : Taken(rows[i])
       /\ (\E i \in DOMAIN rows : rows[i].to = "APPROVAL_TIMED_OUT") => d.approval = "TIMED_OUT"
  BY <1>3 DEF VisitTold
<1>12. \A i \in DOMAIN more : Taken(more[i])
  BY <1>1, <1>8, <1>11
<1>13. (\E i \in DOMAIN more : more[i].to = "APPROVAL_TIMED_OUT") => approval = "TIMED_OUT"
  BY <1>2, <1>8, <1>11
<1> QED
  BY <1>2, <1>7, <1>8, <1>9, <1>10, <1>12, <1>13 DEF VisitTold

\* An approval that times out after the visit has gone on without it.
LEMMA TimeoutAloneKeeps ==
    ASSUME NEW d \in VisitRows, VisitTold(d), d.approval = "PENDING", d.status # "AWAITING_APPROVAL",
           NEW decisions, decisions = Append(d.decisions, "TIMED_OUT"),
           NEW new, new = [d EXCEPT !.approval = "TIMED_OUT", !.decisions = decisions]
    PROVE  new \in VisitRows /\ VisitTold(new)
<1>1. d.decisions = <<>>
  BY DEF VisitTold, ApprovalTold
<1>2. decisions = <<"TIMED_OUT">> /\ Len(decisions) = 1 /\ decisions \in Seq(Approvals)
  BY <1>1 DEF Approvals
<1>3. /\ new.status = d.status /\ new.approval = "TIMED_OUT" /\ new.decisions = decisions
      /\ new.events = d.events /\ new \in VisitRows
  <2>1. "TIMED_OUT" \in Approvals
    BY DEF Approvals
  <2> QED
    BY <1>2, <2>1 DEF VisitRows
<1>4. ApprovalTold(d.status, "TIMED_OUT", decisions)
  BY <1>2 DEF VisitTold, ApprovalTold
<1> QED
  BY <1>3, <1>4 DEF VisitTold

LEMMA VisitChange ==
    ASSUME VisitInv, NEW a \in Admins, NEW e, Commit(a, e), e \in VisitRows, VisitTold(e)
    PROVE  VisitInv'
<1>1. db' = e /\ TxSound(VisitRows)'
  BY CommitSees, CommitSound DEF VisitInv
<1> QED
  BY <1>1 DEF VisitInv

LEMMA OnwardStays ==
    ASSUME NEW from \in VisitStatuses, NEW to \in Onward(from)
    PROVE  /\ to \in VisitStatuses
           /\ to \in Unasked => from \in Unasked
           /\ to = "AWAITING_APPROVAL" => from \in Unasked
           /\ to = "APPROVAL_TIMED_OUT" => from = "AWAITING_APPROVAL"
BY DEF Onward, VisitStatuses, Terminal, Unasked

LEMMA MoveInv ==
    ASSUME VisitInv, NEW a \in Admins, NEW mode \in Modes \ {"SYSTEM"},
           NEW to \in Onward(tx[a].seen.status), MoveVisit(a, to, mode)
    PROVE  VisitInv'
<1>1. PICK rows \in ApprovalRows(tx[a].seen, to) :
        Commit(a, [rows EXCEPT !.status = to, !.events = Append(@, Event(tx[a].seen.status, to))])
  BY DEF MoveVisit
<1>2. tx[a].seen = db /\ db \in VisitRows /\ VisitTold(db)
  BY <1>1, CommitSees DEF VisitInv, TxSound
<1>3. PICK d \in VisitRows : d = db
  BY <1>2
<1>4. /\ to \in VisitStatuses /\ Taken(Event(d.status, to)) /\ to # "APPROVAL_TIMED_OUT"
      /\ to \in Unasked => d.status \in Unasked
      /\ to = "AWAITING_APPROVAL" => d.status \in Unasked
  <2>1. d.status \in VisitStatuses /\ to \in Onward(d.status) /\ mode # "SYSTEM"
    BY <1>2, <1>3 DEF VisitRows
  <2>2. to # "APPROVAL_TIMED_OUT"
    BY <2>1 DEF MoveVisit, ModeAllows
  <2> QED
    BY <2>1, <2>2, OnwardStays DEF Taken, Event
<1>5. PICK approval \in Approvals, decisions \in Seq(Approvals) :
        /\ rows = [d EXCEPT !.approval = approval, !.decisions = decisions]
        /\ ApprovalTold(to, approval, decisions)
        /\ d.approval = "TIMED_OUT" => approval = "TIMED_OUT"
  <2>1. ApprovalTold(d.status, d.approval, d.decisions) /\ d.approval \in Approvals /\ d.decisions \in Seq(Approvals)
    BY <1>2, <1>3 DEF VisitTold, VisitRows
  <2>2. CASE to = "AWAITING_APPROVAL"
    <3>1. rows = [d EXCEPT !.approval = "PENDING"] /\ d.approval = "none" /\ d.decisions = <<>>
      BY <1>1, <1>3, <1>4, <2>1, <2>2 DEF ApprovalRows, ApprovalTold
    <3>2. rows = [d EXCEPT !.approval = "PENDING", !.decisions = d.decisions]
      BY <3>1 DEF VisitRows
    <3>3. "PENDING" \in Approvals /\ ApprovalTold(to, "PENDING", d.decisions)
      BY <2>2, <3>1 DEF Approvals, ApprovalTold, Unasked
    <3> QED
      BY <2>1, <3>1, <3>2, <3>3
  <2>3. ASSUME NEW outcome \in {"APPROVED", "REJECTED", "CANCELLED"}, rows = Decided(outcome),
               d.approval = "PENDING", to = outcome
        PROVE  \E approval \in Approvals, decisions \in Seq(Approvals) :
                 /\ rows = [d EXCEPT !.approval = approval, !.decisions = decisions]
                 /\ ApprovalTold(to, approval, decisions)
                 /\ d.approval = "TIMED_OUT" => approval = "TIMED_OUT"
    <3>1. PICK decisions : decisions = Append(d.decisions, outcome)
      OBVIOUS
    <3>2. rows = [d EXCEPT !.approval = outcome, !.decisions = decisions]
      BY <1>3, <2>3, <3>1 DEF Decided
    <3>3. d.decisions = <<>>
      BY <2>1, <2>3 DEF ApprovalTold
    <3>4. outcome \in Approvals /\ decisions \in Seq(Approvals) /\ Len(decisions) = 1
      BY <3>1, <3>3 DEF Approvals
    <3>5. ApprovalTold(to, outcome, decisions)
      BY <2>3, <3>4 DEF ApprovalTold, Unasked
    <3> QED
      BY <2>3, <3>2, <3>4, <3>5
  <2>4. CASE to # "AWAITING_APPROVAL" /\ rows = db
    <3>1. rows = [d EXCEPT !.approval = d.approval, !.decisions = d.decisions]
      BY <1>3, <2>4 DEF VisitRows
    <3>2. ApprovalTold(to, d.approval, d.decisions)
      BY <1>4, <2>1, <2>4 DEF ApprovalTold
    <3> QED
      BY <2>1, <3>1, <3>2
  <2>5. \/ to = "AWAITING_APPROVAL"
        \/ to # "AWAITING_APPROVAL" /\ rows = db
        \/ d.approval = "PENDING" /\ to \in {"APPROVED", "REJECTED", "CANCELLED"} /\ rows = Decided(to)
    BY <1>1, <1>2, <1>3 DEF ApprovalRows
  <2> QED
    BY <2>2, <2>3, <2>4, <2>5
<1>6. PICK e : e = [rows EXCEPT !.status = to, !.events = Append(@, Event(d.status, to))]
  OBVIOUS
<1>7. PICK more : more = Append(d.events, Event(d.status, to))
  OBVIOUS
<1>8. e = [d EXCEPT !.status = to, !.approval = approval, !.decisions = decisions,
                    !.flagged = d.flagged, !.events = Append(@, Event(d.status, to))]
  <2>1. rows.events = d.events
    BY <1>5 DEF VisitRows
  <2>2. e = [[d EXCEPT !.approval = approval, !.decisions = decisions] EXCEPT !.status = to, !.events = more]
    BY <1>5, <1>6, <1>7, <2>1
  <2>3. e = [d EXCEPT !.status = to, !.approval = approval, !.decisions = decisions,
                      !.flagged = d.flagged, !.events = more]
    BY <2>2 DEF VisitRows
  <2> QED
    BY <1>7, <2>3
<1>9. d.flagged \in BOOLEAN
  BY DEF VisitRows
<1>10. e \in VisitRows /\ VisitTold(e)
  BY <1>2, <1>3, <1>4, <1>5, <1>8, <1>9, VisitStepKeeps
<1> QED
  BY <1>1, <1>2, <1>3, <1>6, <1>10, VisitChange

LEMMA ExpireInv == ASSUME VisitInv, ExpireApprovals PROVE VisitInv'
<1>1. PICK d \in VisitRows : d = db /\ VisitTold(d) /\ d.approval = "PENDING"
  BY DEF VisitInv, TxSound, ExpireApprovals
<1>2. PICK decisions : decisions = Append(d.decisions, "TIMED_OUT")
  OBVIOUS
<1>3. PICK expired : expired = [d EXCEPT !.approval = "TIMED_OUT", !.decisions = decisions]
  OBVIOUS
<1>4. expired = Decided("TIMED_OUT")
  BY <1>1, <1>2, <1>3 DEF Decided
<1>5. PICK e \in VisitRows : VisitTold(e) /\ Overtake(e)
  <2>1. CASE d.status # "AWAITING_APPROVAL"
    <3>1. Overtake(expired)
      BY <1>1, <1>4, <2>1 DEF ExpireApprovals, AwaitsStill
    <3> QED
      BY <1>1, <1>2, <1>3, <2>1, <3>1, TimeoutAloneKeeps
  <2>2. CASE d.status = "AWAITING_APPROVAL"
    <3>1. PICK e : e = [expired EXCEPT !.status = "APPROVAL_TIMED_OUT",
                                       !.events = Append(@, Event(d.status, "APPROVAL_TIMED_OUT"))]
      OBVIOUS
    <3>2. Overtake(e)
      BY <1>1, <1>4, <2>2, <3>1 DEF ExpireApprovals, AwaitsStill
    <3>3. PICK more : more = Append(d.events, Event(d.status, "APPROVAL_TIMED_OUT"))
      OBVIOUS
    <3>4. expired.events = d.events
      BY <1>3 DEF VisitRows
    <3>5. e = [[d EXCEPT !.approval = "TIMED_OUT", !.decisions = decisions]
                 EXCEPT !.status = "APPROVAL_TIMED_OUT", !.events = more]
      BY <1>3, <3>1, <3>3, <3>4
    <3>6. e = [d EXCEPT !.status = "APPROVAL_TIMED_OUT", !.approval = "TIMED_OUT", !.decisions = decisions,
                        !.flagged = d.flagged, !.events = more]
      BY <3>5 DEF VisitRows
    <3>7. e = [d EXCEPT !.status = "APPROVAL_TIMED_OUT", !.approval = "TIMED_OUT", !.decisions = decisions,
                        !.flagged = d.flagged,
                        !.events = Append(@, Event(d.status, "APPROVAL_TIMED_OUT"))]
      BY <3>3, <3>6
    <3>8. d.decisions = <<>>
      BY <1>1 DEF VisitTold, ApprovalTold
    <3>9. decisions \in Seq(Approvals) /\ Len(decisions) = 1
      BY <1>2, <3>8 DEF Approvals
    <3>10. /\ "APPROVAL_TIMED_OUT" \in VisitStatuses /\ "TIMED_OUT" \in Approvals
           /\ d.flagged \in BOOLEAN
           /\ ApprovalTold("APPROVAL_TIMED_OUT", "TIMED_OUT", decisions)
      BY <3>9 DEF VisitStatuses, Approvals, VisitRows, ApprovalTold, Unasked
    <3>11. Taken(Event(d.status, "APPROVAL_TIMED_OUT"))
      <4>1. "APPROVAL_TIMED_OUT" \in Onward("AWAITING_APPROVAL")
        BY DEF Onward, Terminal
      <4> QED
        BY <2>2, <4>1 DEF Taken, Event
    <3>12. e \in VisitRows /\ VisitTold(e)
      BY <1>1, <3>7, <3>9, <3>10, <3>11, VisitStepKeeps
    <3> QED
      BY <3>2, <3>12
  <2> QED
    BY <2>1, <2>2
<1> QED
  BY <1>5, OvertakeSound DEF VisitInv

LEMMA FlagInv == ASSUME VisitInv, FlagLongVisits PROVE VisitInv'
<1>1. PICK d \in VisitRows : d = db /\ VisitTold(d) /\ d.status = "CHECKED_IN"
  BY DEF VisitInv, TxSound, FlagLongVisits
<1>2. PICK to \in VisitStatuses, flagged \in BOOLEAN : to = d.status /\ flagged = TRUE
  BY DEF VisitRows
<1>3. PICK approval \in Approvals, decisions \in Seq(Approvals) : approval = d.approval /\ decisions = d.decisions
  BY DEF VisitRows
<1>4. PICK e : e = [d EXCEPT !.flagged = flagged, !.events = Append(@, Event(d.status, to))]
  OBVIOUS
<1>5. Overtake(e)
  BY <1>1, <1>2, <1>4 DEF FlagLongVisits
<1>6. PICK more : more = Append(d.events, Event(d.status, to))
  OBVIOUS
<1>7. e = [d EXCEPT !.flagged = flagged, !.events = more]
  BY <1>4, <1>6
<1>8. e = [d EXCEPT !.status = to, !.approval = approval, !.decisions = decisions,
                    !.flagged = flagged, !.events = more]
  BY <1>2, <1>3, <1>7 DEF VisitRows
<1>9. e = [d EXCEPT !.status = to, !.approval = approval, !.decisions = decisions,
                    !.flagged = flagged, !.events = Append(@, Event(d.status, to))]
  BY <1>6, <1>8
<1>10. Taken(Event(d.status, to)) /\ to = "CHECKED_IN"
  BY <1>1, <1>2 DEF Taken
<1>11. ApprovalTold(to, approval, decisions)
  BY <1>1, <1>2, <1>3 DEF VisitTold
<1>12. to = "APPROVAL_TIMED_OUT" \/ d.approval = "TIMED_OUT" => approval = "TIMED_OUT"
  BY <1>3, <1>10
<1>13. e \in VisitRows /\ VisitTold(e)
  BY <1>1, <1>9, <1>10, <1>11, <1>12, VisitStepKeeps
<1> QED
  BY <1>5, <1>13, OvertakeSound DEF VisitInv

\* The record of a visit tells one story however its callers, the timeout of its
\* approval and the flag of a long stay are interleaved.
THEOREM SpecOneStory == VisitSpec => []OneStory
<1>1. VisitInit => VisitInv
  <2> SUFFICES ASSUME VisitInit PROVE VisitInv
    OBVIOUS
  <2>1. db = [status |-> "DRAFT", approval |-> "none", decisions |-> <<>>,
              flagged |-> FALSE, events |-> <<>>]
    BY DEF VisitInit, FirstVisit
  <2>2. db \in VisitRows
    BY <2>1 DEF VisitRows, VisitStatuses, Approvals
  <2>3. VisitTold(db)
    BY <2>1 DEF VisitTold, ApprovalTold, Linked
  <2> QED
    BY <2>2, <2>3, TxInitSound DEF VisitInit, FirstVisit, VisitInv
<1>2. VisitInv /\ [VisitNext]_visitVars => VisitInv'
  <2> SUFFICES ASSUME VisitInv, [VisitNext]_visitVars PROVE VisitInv'
    OBVIOUS
  <2>1. CASE UNCHANGED <<db, tx>>
    BY <2>1 DEF VisitInv, TxSound
  <2>2. ASSUME NEW a \in Admins, TransactionStep(a) PROVE VisitInv'
    <3>1. TxSound(VisitRows)' /\ db' = db
      BY <2>2, StepSound DEF VisitInv
    <3> QED
      BY <3>1 DEF VisitInv
  <2>3. UNCHANGED visitVars \/ DeadlinePasses \/ StaysLong => UNCHANGED <<db, tx>>
    BY DEF visitVars, DeadlinePasses, StaysLong
  <2> QED
    BY <2>1, <2>2, <2>3, MoveInv, ExpireInv, FlagInv DEF VisitNext
<1>3. VisitInv => OneStory
  BY DEF VisitInv, VisitTold, ApprovalTold, OneStory, Taken, Linked
<1> QED
  BY <1>1, <1>2, <1>3, PTL DEF VisitSpec
==============================================================================

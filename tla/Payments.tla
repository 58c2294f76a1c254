------------------------------ MODULE Payments ------------------------------
(* Recording payments and allocating them to maintenance charges:           *)
(* OperationsService.recordPayment and allocatePayment, by several          *)
(* administrators at once.  Amounts are minor units.                        *)
EXTENDS Transactions, Integers, FiniteSets, FiniteSetsExt

CONSTANTS Payments,   \* primary keys of payments
          Charges,    \* primary keys of maintenance_charges
          Flats,
          References, \* traceable references an administrator may type
          Total,      \* total_amount of every charge
          MaxAmount   \* bound on an amount

Amounts == 1..MaxAmount

NoPayment == [reference |-> "none", flat |-> "none", amount |-> 0]

FirstLedger ==
    [payment : {[p \in Payments |-> NoPayment]},
     allocations : {{}},
     charge : [Charges -> [flat : Flats, paid : {0}, status : {"UNPAID"}, version : {1}]]]

PaymentsInit == db \in FirstLedger /\ TxInit(db)

Recorded(d) == {p \in Payments : d.payment[p] # NoPayment}
OfPayment(d, p) == {n \in d.allocations : n.payment = p}
OfCharge(d, c) == {n \in d.allocations : n.charge = c}
Allocated(A) == MapThenSumSet(LAMBDA n : n.amount, A)

\* recordPayment: the reference is new in the snapshot, and in the unique
\* index when the row is inserted; CONFIRMED at once.
RecordPayment(a, p, reference, flat, amount) ==
    /\ p \notin Recorded(db)
    /\ \A q \in Recorded(tx[a].seen) : tx[a].seen.payment[q].reference # reference
    /\ \A q \in Recorded(db) : db.payment[q].reference # reference
    /\ Commit(a, [db EXCEPT !.payment[p] =
                   [reference |-> reference, flat |-> flat, amount |-> amount]])

\* Mutant: the charge takes the amount of this allocation alone.
NextPaidAlone(paid, amount) == amount

NextPaid(paid, amount) == paid + amount

\* allocatePayment: a confirmed payment and an open charge of the same flat,
\* an amount neither balance refuses; the charge's update is guarded by its
\* version, the pair (payment, charge) is unique.
Allocate(a, p, c, amount) ==
    LET seen == tx[a].seen
        paid == NextPaid(seen.charge[c].paid, amount)
    IN  /\ p \in Recorded(seen)
        /\ seen.charge[c].status \in {"UNPAID", "PARTIALLY_PAID"}
        /\ seen.payment[p].flat = seen.charge[c].flat
        /\ amount <= seen.payment[p].amount - Allocated(OfPayment(seen, p))
        /\ amount <= Total - seen.charge[c].paid
        /\ db.charge[c].version = seen.charge[c].version
        /\ OfPayment(db, p) \cap OfCharge(db, c) = {}
        /\ paid <= Total
        /\ Commit(a, [db EXCEPT
             !.allocations = @ \cup {[payment |-> p, charge |-> c, amount |-> amount]},
             !.charge[c].paid = paid,
             !.charge[c].status = IF paid = Total THEN "PAID" ELSE "PARTIALLY_PAID",
             !.charge[c].version = @ + 1])

PaymentsNext ==
    \E a \in Admins :
      \/ TransactionStep(a)
      \/ \E p \in Payments, amount \in Amounts :
           \/ \E r \in References, f \in Flats : RecordPayment(a, p, r, f, amount)
           \/ \E c \in Charges : Allocate(a, p, c, amount)

PaymentsSpec == PaymentsInit /\ [][PaymentsNext]_txVars

-----------------------------------------------------------------------------
\* deriveMaintenanceChargeStatus, of a charge nothing was waived of.
DerivedStatus(paid) ==
    CASE paid = Total -> "PAID" [] paid \in 1..(Total - 1) -> "PARTIALLY_PAID" [] OTHER -> "UNPAID"

\* The ledger balances whoever allocates at the same time: no payment is spent
\* beyond its amount (nothing guards the payment row), a charge has received
\* what its allocations say and its status says the same, money stays in its
\* flat, and a reference stands for one payment.
LedgerBalances ==
    /\ \A p \in Recorded(db) : Allocated(OfPayment(db, p)) <= db.payment[p].amount
    /\ \A c \in Charges :
         /\ db.charge[c].paid = Allocated(OfCharge(db, c))
         /\ db.charge[c].status = DerivedStatus(db.charge[c].paid)
    /\ \A n \in db.allocations : db.payment[n.payment].flat = db.charge[n.charge].flat
    /\ \A p, q \in Recorded(db) : db.payment[p].reference = db.payment[q].reference => p = q
=============================================================================

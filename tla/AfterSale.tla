------------------------------ MODULE AfterSale ------------------------------
(***************************************************************************)
(* What happens to an invoice after the sale: a return with its credit     *)
(* note (app/services/returns_service.py), a void                          *)
(* (void_sales_invoice of app/services/invoice_service.py) and payments    *)
(* of a sale on account (apply_ar_payment of                               *)
(* app/services/subledger_service.py).                                     *)
(*                                                                         *)
(* Every handler reads rows it does not lock and commits later; what it    *)
(* has read is in req. Its stock movements, journal entries and rows are   *)
(* written in one step, as a stock level, shift or row changed meanwhile   *)
(* aborts the request (StockLedger, ShiftDrawer). Every line is of a       *)
(* product of its own, sold without a discount; a return lists a line once.*)
(***************************************************************************)
EXTENDS Integers, Sequences, FiniteSets, FiniteSetsExt, Functions

CONSTANTS Invoices,    \* their database ids
          Lines, Requests,
          Sold,        \* units of each line of an invoice
          Price,       \* gross price of a unit
          Due,         \* what of each invoice was sold on account
          MaxReturns, MaxPayments, \* bounds: rows ever inserted
          None         \* no receivable

ASSUME AfterSaleAssumption ==
    /\ Invoices \subseteq Nat /\ IsFiniteSet(Lines)
    /\ Sold \in [Lines -> Nat \ {0}] /\ Price \in [Lines -> Nat]
    /\ Due \in [Invoices -> Nat]
    /\ MaxReturns \in Nat /\ MaxPayments \in Nat
    /\ None \notin [total : Nat, open : Nat]

VARIABLES invoice,   \* sales_invoices
          item,      \* the ar_open_items row of each invoice
          applied,   \* ar_payment_applications
          returns,   \* sales_returns with lines and credit notes, by id
          movements, \* stock_movements of returns and voids
          journal,   \* journal_entries of receipts, returns and reversals
          drawer,    \* the shift of the register
          req,       \* what each request has read
          raced      \* invoices two requests have handled at a time

vars == <<invoice, item, applied, returns, movements, journal, drawer, req, raced>>

\* A young invoice can be voided (48 hours, and in the month of the sale) or
\* returned (3 days), a recent one returned, an old one neither.
Invoice == [voided : BOOLEAN, status : {"paid", "partially_paid"},
            age : {"young", "recent", "old"}]

Back == [Lines -> Nat]

Return == [invoice : Invoices, lines : Back, refund : Nat, cash : BOOLEAN]

\* The key of a movement: "return:{return}:line:{n}", "void_invoice:{invoice}:..".
Movement == [kind : {"return", "void"}, doc : Nat, line : Lines, qty : Nat]

Entry == [kind : {"receipt", "return", "reversal"}, doc : Nat, amount : Nat]

Idle == [op |-> "idle"]

Request ==
    {Idle}
    \cup [op : {"return", "returning"}, invoice : Invoices, lines : Back, cash : BOOLEAN]
    \cup [op : {"void"}, invoice : Invoices]
    \cup [op : {"pay"}, invoice : Invoices, amount : Nat, open : Nat]

TypeOK ==
    /\ invoice \in [Invoices -> Invoice]
    /\ item \in [Invoices -> [total : Nat, open : Nat] \cup {None}]
    /\ applied \subseteq [id : 1..MaxPayments, invoice : Invoices, amount : Nat]
    /\ returns \in Seq(Return) /\ Len(returns) <= MaxReturns
    /\ movements \subseteq Movement /\ journal \subseteq Entry
    /\ drawer \in [open : BOOLEAN, refunded : Nat]
    /\ req \in [Requests -> Request] /\ raced \subseteq Invoices

-----------------------------------------------------------------------------

ReturnsOf(i) == {n \in DOMAIN returns : returns[n].invoice = i}

Returned(i, l) == SumFunction([n \in ReturnsOf(i) |-> returns[n].lines[l]])

Refund(lines) == SumFunction([l \in Lines |-> lines[l] * Price[l]])

Entries(kind) == {e \in journal : e.kind = kind}

\* Ids come from a sequence; a payment keeps its journal entry for ever.
NextPayment == Cardinality(Entries("receipt")) + 1

\* A request starts on an invoice, perhaps while another is busy with it.
Start(r, i, state) ==
    /\ req[r] = Idle
    /\ req' = [req EXCEPT ![r] = state]
    /\ raced' = raced \cup {j \in {i} : \E q \in Requests : req[q] # Idle
                                                          /\ req[q].invoice = i}
    /\ UNCHANGED <<invoice, item, applied, returns, movements, journal, drawer>>

Finish(r) == req' = [req EXCEPT ![r] = Idle] /\ UNCHANGED raced

-----------------------------------------------------------------------------
(* Returns *)

\* Variant: a voided invoice is not looked for.
BeginReturnVoided(r, i, lines, cash) ==
    /\ invoice[i].age # "old" /\ ReturnsOf(i) = {}
    /\ lines # [l \in Lines |-> 0]
    /\ Start(r, i, [op |-> "return", invoice |-> i, lines |-> lines, cash |-> cash])

\* The invoice and the returns of it. cash: a shift is given and the exchange
\* cart, if there is one, keeps no line to be paid.
BeginReturn(r, i, lines, cash) ==
    /\ ~invoice[i].voided
    /\ invoice[i].age # "old" /\ ReturnsOf(i) = {}
    /\ lines # [l \in Lines |-> 0]
    /\ Start(r, i, [op |-> "return", invoice |-> i, lines |-> lines, cash |-> cash])

\* The quantities returned before, read by a later statement.
CheckLines(r) ==
    /\ req[r].op = "return"
    /\ \A l \in Lines : req[r].lines[l] + Returned(req[r].invoice, l) <= Sold[l]
    /\ req' = [req EXCEPT ![r].op = "returning"]
    /\ UNCHANGED <<invoice, item, applied, returns, movements, journal, drawer, raced>>

\* Stock, credit note, journal and drawer.
CommitReturn(r) ==
    LET lines == req[r].lines
        refund == Refund(lines)
        cash == req[r].cash /\ refund > 0
        id == Len(returns) + 1
        listed == {l \in Lines : lines[l] > 0}
    IN  /\ req[r].op = "returning" /\ id <= MaxReturns
        /\ cash => drawer.open
        /\ returns' = Append(returns, [invoice |-> req[r].invoice, lines |-> lines,
                                       refund |-> refund, cash |-> cash])
        /\ movements' = movements \cup {[kind |-> "return", doc |-> id, line |-> l,
                                         qty |-> lines[l]] : l \in listed}
        /\ journal' = journal \cup {[kind |-> "return", doc |-> id, amount |-> a]
                                      : a \in {refund} \ {0}}
        /\ drawer' = [drawer EXCEPT !.refunded = @ + IF cash THEN refund ELSE 0]
        /\ Finish(r)
        /\ UNCHANGED <<invoice, item, applied>>

-----------------------------------------------------------------------------
(* Voids *)

\* By id, a credit note of the same id is mistaken for the invoice.
BeginVoid(r, i, by) ==
    /\ by = "id" => i \notin DOMAIN returns
    /\ ~invoice[i].voided /\ invoice[i].age = "young"
    /\ ReturnsOf(i) = {}
    /\ item[i] # None => item[i].open = item[i].total
    /\ Start(r, i, [op |-> "void", invoice |-> i])

\* Variant: neither the keys of the movements nor the reversal are looked up.
CommitVoidAgain(r) ==
    LET i == req[r].invoice IN
    /\ req[r].op = "void"
    /\ movements' = movements \cup {[kind |-> "void", doc |-> i, line |-> l,
                                     qty |-> IF invoice[i].voided THEN 2 * Sold[l]
                                             ELSE Sold[l]] : l \in Lines}
    /\ journal' = journal \cup {[kind |-> "reversal", doc |-> i, amount |-> Refund(Sold)]}
    /\ item' = [item EXCEPT ![i] = None]
    /\ applied' = {a \in applied : a.invoice # i}
    /\ invoice' = [invoice EXCEPT ![i].voided = TRUE]
    /\ Finish(r)
    /\ UNCHANGED <<returns, drawer>>

\* The receivable goes with the payments applied to it. A second reversal of
\* the journal entries is an error.
CommitVoid(r) ==
    LET i == req[r].invoice IN
    /\ req[r].op = "void"
    /\ \A e \in Entries("reversal") : e.doc # i
    /\ movements' = movements \cup {[kind |-> "void", doc |-> i, line |-> l,
                                     qty |-> Sold[l]] : l \in Lines}
    /\ journal' = journal \cup {[kind |-> "reversal", doc |-> i, amount |-> Refund(Sold)]}
    /\ item' = [item EXCEPT ![i] = None]
    /\ applied' = {a \in applied : a.invoice # i}
    /\ invoice' = [invoice EXCEPT ![i].voided = TRUE]
    /\ Finish(r)
    /\ UNCHANGED <<returns, drawer>>

-----------------------------------------------------------------------------
(* Payments on account *)

\* Variant: an amount above the open balance is taken.
BeginPayAbove(r, i, amount) ==
    /\ item[i] # None
    /\ Start(r, i, [op |-> "pay", invoice |-> i, amount |-> amount,
                    open |-> item[i].open])

BeginPay(r, i, amount) ==
    /\ item[i] # None /\ amount <= item[i].open
    /\ Start(r, i, [op |-> "pay", invoice |-> i, amount |-> amount,
                    open |-> item[i].open])

\* The balance is the one read less the amount; a row gone is an error.
CommitPay(r) ==
    LET i == req[r].invoice
        open == req[r].open - req[r].amount
    IN  /\ req[r].op = "pay" /\ item[i] # None /\ NextPayment <= MaxPayments
        /\ item' = [item EXCEPT ![i].open = open]
        /\ applied' = applied \cup {[id |-> NextPayment, invoice |-> i,
                                     amount |-> req[r].amount]}
        /\ invoice' = [invoice EXCEPT ![i].status =
                          IF open = 0 THEN "paid" ELSE "partially_paid"]
        /\ journal' = journal \cup {[kind |-> "receipt", doc |-> NextPayment,
                                     amount |-> req[r].amount]}
        /\ Finish(r)
        /\ UNCHANGED <<returns, movements, drawer>>

-----------------------------------------------------------------------------

\* A check that fails, a conflict or a lost connection: nothing is kept.
Fail(r) ==
    /\ req[r] # Idle /\ Finish(r)
    /\ UNCHANGED <<invoice, item, applied, returns, movements, journal, drawer>>

\* The invoices are of one day.
Age ==
    /\ \E i \in Invoices : invoice[i].age # "old"
    /\ invoice' = [i \in Invoices |->
          [invoice[i] EXCEPT !.age = IF @ = "young" THEN "recent" ELSE "old"]]
    /\ UNCHANGED <<item, applied, returns, movements, journal, drawer, req, raced>>

CloseShift ==
    /\ drawer.open /\ drawer' = [drawer EXCEPT !.open = FALSE]
    /\ UNCHANGED <<invoice, item, applied, returns, movements, journal, req, raced>>

Init ==
    /\ invoice = [i \in Invoices |->
                    [voided |-> FALSE, age |-> "young",
                     status |-> IF Due[i] = 0 THEN "paid" ELSE "partially_paid"]]
    /\ item = [i \in Invoices |-> IF Due[i] = 0 THEN None
                                  ELSE [total |-> Due[i], open |-> Due[i]]]
    /\ applied = {} /\ returns = <<>> /\ movements = {} /\ journal = {}
    /\ drawer = [open |-> TRUE, refunded |-> 0]
    /\ req = [r \in Requests |-> Idle] /\ raced = {}

Next ==
    \/ \E r \in Requests, i \in Invoices :
          \/ \E lines \in {b \in [Lines -> 0..Max({Sold[l] : l \in Lines})] :
                              \A l \in Lines : b[l] <= Sold[l]}, cash \in BOOLEAN :
                BeginReturn(r, i, lines, cash)
          \/ \E by \in {"id", "barcode"} : BeginVoid(r, i, by)
          \/ \E amount \in 1..Due[i] : BeginPay(r, i, amount)
    \/ \E r \in Requests :
          CheckLines(r) \/ CommitReturn(r) \/ CommitVoid(r) \/ CommitPay(r) \/ Fail(r)
    \/ Age \/ CloseShift

Spec == Init /\ [][Next]_vars

-----------------------------------------------------------------------------
(* Properties *)

\* Goods, money and books tell one story however handlers overlap: an invoice
\* is voided exactly when its whole stock came back once and its entries were
\* reversed; every return moved its units, was booked, and left the drawer if
\* it was paid in cash.
BooksFollow ==
    /\ \A i \in Invoices :
          {<<m.line, m.qty>> : m \in {n \in movements : n.kind = "void" /\ n.doc = i}}
             = {<<l, Sold[l]>> : l \in {k \in Lines : invoice[i].voided}}
    /\ \A i \in Invoices : invoice[i].voided <=> \E e \in Entries("reversal") : e.doc = i
    /\ \A n \in DOMAIN returns, l \in Lines :
          SumFunction([m \in {m \in movements : m.kind = "return" /\ m.doc = n /\ m.line = l}
                         |-> m.qty]) = returns[n].lines[l]
    /\ SumFunction([e \in Entries("return") |-> e.amount])
          = SumFunction([n \in DOMAIN returns |-> returns[n].refund])
    /\ drawer.refunded =
          SumFunction([n \in {n \in DOMAIN returns : returns[n].cash} |-> returns[n].refund])

\* "One return per invoice" (app/services/returns_service.py:76).
OneReturn == \A i \in Invoices : Cardinality(ReturnsOf(i)) <= 1

\* Handled by one request at a time, an invoice is returned or voided and not
\* both; its receivable is what was not yet paid and its status says so; a void
\* leaves no money received on account behind.
SettledInTurn ==
    \A i \in Invoices \ raced :
        LET paid == SumFunction([a \in {a \in applied : a.invoice = i} |-> a.amount])
        IN  /\ Cardinality(ReturnsOf(i)) + (IF invoice[i].voided THEN 1 ELSE 0) <= 1
            /\ item[i] # None =>
                  /\ item[i].open + paid = item[i].total
                  /\ item[i].open = 0 <=> invoice[i].status = "paid"
            /\ item[i] = None => paid = 0
=============================================================================

----------------------------- MODULE PosCheckout -----------------------------
(***************************************************************************)
(* Checkout of a POS cart: payment intents and captures of                 *)
(* app/services/payment_service.py and the finalisation of                 *)
(* app/services/invoice_service.py, composed with the cart of PosCart.     *)
(*                                                                         *)
(* Captures are external money: what create_payment_intent, capture_payment*)
(* and finalize_paid_cart commit is one transaction each, and the cart can *)
(* change between them and between the reads and the commit of each.       *)
(* A finalisation takes its number under the row lock of the branch's      *)
(* sequence and moves stock, drawer and loyalty points in its transaction. *)
(***************************************************************************)
EXTENDS PosCart

CONSTANTS Keys,      \* idempotency keys of captures
          MaxIntents, \* bound: intents ever created
          Increment, \* cash rounding increment of the currency
          Partials,  \* amounts of cash a customer may pay in part
          Credits,   \* exchange credits (0: none)
          Earned,    \* loyalty points of a purchase
          Opening,   \* stock of each product at the start
          NoInvoice

Methods == {"cash", "card"}

VARIABLES intents,    \* payment_intents, each with its receipts
          nextIntent,
          invoice,    \* the invoice of each cart
          nextNumber, \* branch_sequences
          drawer,     \* cash the shift's sales brought in
          stock,      \* on_hand of each product
          shift       \* status of the shift the carts belong to

payVars == <<intents, nextIntent, invoice, nextNumber, drawer, stock, shift>>

vars == <<cartVars, payVars>>

\* A captured intent has the receipts (and attempts) of its captures.
ReceiptSet == [key : Keys, amount : Nat, method : Methods]

IntentSet == [id : 1..MaxIntents, cart : Carts, amount : Nat,
              status : {"requires_capture", "succeeded"}, receipts : SUBSET ReceiptSet]

\* ar: the receivable opened for the balance; debited: loyalty points taken.
InvoiceSet == [number : Nat, total : Nat, paid : Nat, method : Methods, due : Nat,
               customer : Customers \cup {Nobody}, ar : Nat, debited : Nat,
               earned : Nat, rows : SUBSET RowSet]

ASSUME CheckoutAssumption ==
    /\ MaxIntents \in Nat /\ Increment \in Nat \ {0} /\ Partials \subseteq Nat
    /\ Credits \subseteq Nat /\ Earned \in Nat /\ Opening \in Nat
    /\ NoInvoice \notin InvoiceSet

IntentRequest == [op : {"intent"}, cart : Carts, amount : Nat, stale : SUBSET (1..MaxIntents)]
CaptureRequest == [op : {"capture"}, id : 1..MaxIntents, receipt : ReceiptSet]
FinalizeRequest == [op : {"finalize"}, cart : Carts, id : 1..MaxIntents, due : Nat,
                    customer : Customers \cup {Nobody}, total : Nat, rows : SUBSET RowSet]

TypeOK ==
    /\ CartTypeOK
    /\ req \in [Slots -> CartRequests \cup IntentRequest \cup CaptureRequest
                           \cup FinalizeRequest]
    /\ intents \subseteq IntentSet /\ nextIntent \in 1..(MaxIntents + 1)
    /\ invoice \in [Carts -> InvoiceSet \cup {NoInvoice}]
    /\ nextNumber \in Nat /\ drawer \in Nat
    /\ stock \in [Products -> Nat] /\ shift \in {"open", "closed"}

-----------------------------------------------------------------------------
(* Payment intents *)

\* round_cash_total: half up to a multiple of the increment.
RoundCash(x) == ((2 * x + Increment) \div (2 * Increment)) * Increment

Less(x, y) == IF y > x THEN 0 ELSE x - y

\* Cash is rounded unless less is tendered; partial is the tendered amount or
\* none (-1).
IntentAmount(total, credit, method, partial) ==
    LET exact == Less(total, credit)
        isPartial == partial >= 0 /\ partial < RoundCash(exact)
    IN  IF method = "cash" /\ ~isPartial THEN RoundCash(exact) ELSE exact

OfCart(c) == {i \in intents : i.cart = c}

Succeeded(c) == {i \in OfCart(c) : i.status = "succeeded"}

Open(c) == OfCart(c) \ Succeeded(c)

\* Variant: a completed payment does not stop a new intent.
CreateIntentAnyway(s, c, credit, method, partial) ==
    /\ cart[c].status = "checkout_locked"
    /\ Begin(s, [op |-> "intent", cart |-> c, stale |-> Ids(OfCart(c)),
                 amount |-> IntentAmount(cart[c].total, credit, method, partial)])
    /\ UNCHANGED <<cart, nextRow, points, active, payVars>>

\* create_payment_intent: with a completed payment and no invoice it returns
\* that payment or refuses; otherwise it replaces the open intents it has read.
CreateIntent(s, c, credit, method, partial) ==
    /\ cart[c].status = "checkout_locked"
    /\ invoice[c] = NoInvoice => Succeeded(c) = {}
    /\ Begin(s, [op |-> "intent", cart |-> c, stale |-> Ids(Open(c)),
                 amount |-> IntentAmount(cart[c].total, credit, method, partial)])
    /\ UNCHANGED <<cart, nextRow, points, active, payVars>>

\* UNIQUE(cart_id, status) refuses the intent if another open one is left.
CommitIntent(s) ==
    LET r == req[s]
        rest == {i \in intents : i.id \notin r.stale}
    IN  /\ r.op = "intent" /\ nextIntent <= MaxIntents
        /\ ~\E i \in rest : i.cart = r.cart /\ i.status = "requires_capture"
        /\ intents' = rest \cup {[id |-> nextIntent, cart |-> r.cart, amount |-> r.amount,
                                  status |-> "requires_capture", receipts |-> {}]}
        /\ nextIntent' = nextIntent + 1
        /\ req' = [req EXCEPT ![s] = Idle]
        /\ UNCHANGED <<cart, nextRow, points, active>>
        /\ UNCHANGED <<invoice, nextNumber, drawer, stock, shift>>

KeyUsed(key) == \E i \in intents : \E r \in i.receipts : r.key = key

\* capture_payment: a used key or a captured intent is answered without effect;
\* less cash than the amount needs an active customer on the cart.
Capture(s, i, key, method, partial) ==
    /\ ~KeyUsed(key) /\ i.status # "succeeded"
    /\ partial >= 0 => method = "cash" /\ partial <= i.amount
    /\ partial >= 0 /\ partial < i.amount => cart[i.cart].customer \in active
    /\ Begin(s, [op |-> "capture", id |-> i.id,
                 receipt |-> [key |-> key, method |-> method,
                              amount |-> IF partial >= 0 THEN partial ELSE i.amount]])
    /\ UNCHANGED <<cart, nextRow, points, active, payVars>>

\* Variant: neither the status index nor the key index exists.
CommitCaptureUnchecked(s) ==
    LET r == req[s] IN
    /\ r.op = "capture"
    /\ \E i \in intents :
          /\ i.id = r.id
          /\ intents' = (intents \ {i}) \cup
                {[i EXCEPT !.status = "succeeded", !.receipts = @ \cup {r.receipt}]}
    /\ req' = [req EXCEPT ![s] = Idle]
    /\ UNCHANGED <<cart, nextRow, points, active>>
    /\ UNCHANGED <<nextIntent, invoice, nextNumber, drawer, stock, shift>>

\* The intent must still exist; the key and the cart's completed payment are
\* unique.
CommitCapture(s) ==
    LET r == req[s] IN
    /\ r.op = "capture" /\ ~KeyUsed(r.receipt.key)
    /\ \E i \in intents :
          /\ i.id = r.id /\ Succeeded(i.cart) \subseteq {i}
          /\ intents' = (intents \ {i}) \cup
                {[i EXCEPT !.status = "succeeded", !.receipts = @ \cup {r.receipt}]}
    /\ req' = [req EXCEPT ![s] = Idle]
    /\ UNCHANGED <<cart, nextRow, points, active>>
    /\ UNCHANGED <<nextIntent, invoice, nextNumber, drawer, stock, shift>>

-----------------------------------------------------------------------------
(* Finalisation *)

\* Variant: the number is taken in a transaction of its own, before the work.
FinalizeEagerNumber(s, i) ==
    LET c == i.cart IN
    /\ invoice[c] = NoInvoice
    /\ cart[c].status = "checkout_locked"
    /\ i.status = "succeeded"
    /\ nextNumber' = nextNumber + 1
    /\ Begin(s, [op |-> "finalize", cart |-> c, id |-> i.id, due |-> i.amount,
                 customer |-> cart[c].customer,
                 total |-> cart[c].total, rows |-> cart[c].rows])
    /\ UNCHANGED <<cart, nextRow, points, active, intents, nextIntent, invoice>>
    /\ UNCHANGED <<drawer, stock, shift>>

\* finalize_paid_cart up to the number lock: it reads the invoice, the cart,
\* the intent and the lines.
Finalize(s, i) ==
    LET c == i.cart IN
    /\ invoice[c] = NoInvoice
    /\ cart[c].status = "checkout_locked"
    /\ i.status = "succeeded"
    /\ cart[c].customer \in active \cup {Nobody}
    /\ Lines(cart[c].rows) # {}
    /\ Begin(s, [op |-> "finalize", cart |-> c, id |-> i.id, due |-> i.amount,
                 customer |-> cart[c].customer,
                 total |-> cart[c].total, rows |-> cart[c].rows])
    /\ UNCHANGED <<cart, nextRow, points, active, payVars>>

\* Units of product p on the lines read.
Units(rows, p) == SumFunction([r \in Named(rows, p) |-> r.n])

\* Loyalty points on the discount rows, which finalize reads late.
Redeemed(c) == SumFunction([r \in Named(cart[c].rows, "points") |-> r.n])

\* Variant: the drawer gets what was due, not what was received.
PostDue(s, receipt, redeemed, earned) ==
    LET r == req[s] IN
    /\ invoice' = [invoice EXCEPT ![r.cart] =
          [number |-> nextNumber, total |-> r.total, paid |-> receipt.amount,
           method |-> receipt.method, due |-> r.due, customer |-> r.customer,
           ar |-> 0, debited |-> redeemed, earned |-> earned, rows |-> r.rows]]
    /\ drawer' = IF receipt.method = "cash" THEN drawer + r.due ELSE drawer
    /\ stock' = [p \in Products |-> stock[p] - Units(r.rows, p)]
    /\ points' = IF r.customer = Nobody THEN points
                 ELSE [points EXCEPT ![r.customer] = @ - redeemed + earned]
    /\ cart' = [cart EXCEPT ![r.cart].status = "paid"]

\* Invoice, drawer, stock, loyalty points and status of the sale.
Post(s, receipt, redeemed, earned) ==
    LET r == req[s]
        balance == Less(r.total, receipt.amount)
    IN  /\ invoice' = [invoice EXCEPT ![r.cart] =
              [number |-> nextNumber, total |-> r.total, paid |-> receipt.amount,
               method |-> receipt.method, due |-> r.due, customer |-> r.customer,
               ar |-> IF r.customer = Nobody THEN 0 ELSE balance,
               debited |-> redeemed, earned |-> earned, rows |-> r.rows]]
        /\ drawer' = IF receipt.method = "cash" THEN drawer + receipt.amount ELSE drawer
        /\ stock' = [p \in Products |-> stock[p] - Units(r.rows, p)]
        /\ points' = IF r.customer = Nobody THEN points
                     ELSE [points EXCEPT ![r.customer] = @ - redeemed + earned]
        /\ cart' = [cart EXCEPT ![r.cart].status = "paid"]

\* Variant: no unique index on the cart of an invoice.
FinalizeTwice(s) ==
    LET r == req[s] IN
    /\ r.op = "finalize"
    /\ \E i \in intents : \E receipt \in i.receipts :
          /\ i.id = r.id
          /\ \A p \in Products : Units(r.rows, p) <= stock[p]
          /\ Post(s, receipt, 0, 0)
    /\ nextNumber' = nextNumber + 1
    /\ req' = [req EXCEPT ![s] = Idle]
    /\ UNCHANGED <<nextRow, active, intents, nextIntent, shift>>

\* The rest of finalize_paid_cart: one invoice per cart (unique cart_id), the
\* intent still there (foreign key) with one receipt, an open shift for cash,
\* enough stock and points, or nothing is committed.
CommitFinalize(s) ==
    LET r == req[s] IN
    /\ r.op = "finalize" /\ invoice[r.cart] = NoInvoice
    /\ \E i \in intents : \E receipt \in i.receipts :
          /\ i.id = r.id /\ i.receipts = {receipt}
          /\ receipt.method = "cash" => shift = "open"
          /\ \A p \in Products : Units(r.rows, p) <= stock[p]
          /\ r.customer # Nobody => Redeemed(r.cart) <= points[r.customer]
          /\ Post(s, receipt, IF r.customer = Nobody THEN 0 ELSE Redeemed(r.cart),
                  IF r.customer \in active THEN Earned ELSE 0)
    /\ nextNumber' = nextNumber + 1
    /\ req' = [req EXCEPT ![s] = Idle]
    /\ UNCHANGED <<nextRow, active, intents, nextIntent, shift>>

\* close_shift, as far as checkout sees it.
CloseShift ==
    /\ shift = "open" /\ shift' = "closed"
    /\ UNCHANGED <<cartVars, intents, nextIntent, invoice, nextNumber, drawer, stock>>

-----------------------------------------------------------------------------

Init ==
    /\ CartInit
    /\ points = [k \in Customers |-> Earned]
    /\ intents = {} /\ nextIntent = 1
    /\ invoice = [c \in Carts |-> NoInvoice] /\ nextNumber = 1
    /\ drawer = 0 /\ stock = [p \in Products |-> Opening] /\ shift = "open"

BeginPayment(s, c) ==
    \/ \E credit \in Credits, method \in Methods, partial \in Partials \cup {-1} :
          CreateIntent(s, c, credit, method, partial)
    \/ \E i \in OfCart(c), key \in Keys, method \in Methods, partial \in Partials \cup {-1} :
          Capture(s, i, key, method, partial)
    \/ \E i \in OfCart(c) : Finalize(s, i)

FinishPayment(s) == CommitIntent(s) \/ CommitCapture(s) \/ CommitFinalize(s)

\* What happens to carts without payment.
CartStep ==
    \/ \E c \in Carts, k \in Customers \cup {Nobody} :
          shift = "open" /\ CreateCart(c, k)
    \/ \E k \in Customers : SetAccountStatus(k)
    \/ \E s \in Slots, c \in Carts : BeginCart(s, c)
    \/ \E s \in Slots : FinishCart(s) \/ Fail(s)

Next ==
    \/ CartStep /\ UNCHANGED payVars
    \/ \E s \in Slots, c \in Carts : BeginPayment(s, c)
    \/ \E s \in Slots : FinishPayment(s)
    \/ CloseShift

Spec == Init /\ [][Next]_vars

-----------------------------------------------------------------------------
(* Properties of any requests, overlapping or not *)

Invoiced == {c \in Carts : invoice[c] # NoInvoice}

\* Every sale moved cash, stock and loyalty points exactly once, however many
\* finalisations of its cart ran: drawer, stock and balances are the sums over
\* the invoices.
BooksAgree ==
    /\ drawer = SumFunction([c \in {c \in Invoiced : invoice[c].method = "cash"}
                               |-> invoice[c].paid])
    /\ \A p \in Products : stock[p] =
          Opening - SumFunction([c \in Invoiced |-> Units(invoice[c].rows, p)])
    /\ \A k \in Customers : points[k] =
          Earned + SumFunction([c \in {c \in Invoiced : invoice[c].customer = k}
                                  |-> invoice[c].earned - invoice[c].debited])

\* Invoice numbers have no gap and no duplicate, whatever finalisations fail.
NumbersDense ==
    /\ {invoice[c].number : c \in Invoiced} = 1..(nextNumber - 1)
    /\ Cardinality(Invoiced) = nextNumber - 1

\* A cart has at most one completed payment.
OneCompletedPayment == \A c \in Carts : Cardinality(Succeeded(c)) <= 1

\* What AtomicSale sees of an invoice: what it moved.
SaleOf(i) ==
    [number |-> i.number, cash |-> IF i.method = "cash" THEN i.paid ELSE 0,
     units |-> [p \in Products |-> Units(i.rows, p)],
     customer |-> i.customer, debited |-> i.debited, earned |-> i.earned]

Abstract == INSTANCE AtomicSale WITH
    sold <- [c \in Carts |-> IF invoice[c] = NoInvoice THEN {} ELSE {SaleOf(invoice[c])}]

\* Checkout implements AtomicSale: of all the reads, retries and overlapping
\* requests, only the commit of a finalisation is seen, once per cart, with
\* the next number and with stock and points that cover it.
SellsAtomically == Abstract!Spec

-----------------------------------------------------------------------------
(* Properties of requests that overlap only on different carts *)

\* The carts a request is about: a capture names an intent.
CartsOf(r) ==
    CASE r.op = "idle" -> {}
      [] r.op = "capture" -> {i.cart : i \in {j \in intents : j.id = r.id}}
      [] OTHER -> {r.cart}

OnePerCart ==
    \A s, t \in Slots : s # t => CartsOf(req[s]) \cap CartsOf(req[t]) = {}

\* The stored total is always that of the stored lines and discounts, and a
\* product or kind of discount has at most one row.
TotalsMatchRows ==
    \A c \in Carts :
        /\ cart[c].total = Less(Net(cart[c].rows), Off(cart[c].rows))
        /\ \A r, q \in cart[c].rows : r.what = q.what => r = q

\* A cart is paid exactly when it has an invoice, and it is still the cart the
\* invoice was made of: nothing edits, reopens or re-invoices a sold cart.
SoldCartFrozen ==
    \A c \in Carts :
        /\ cart[c].status = "paid" <=> c \in Invoiced
        /\ c \in Invoiced => /\ invoice[c].rows = cart[c].rows
                            /\ invoice[c].total = cart[c].total

\* A completed payment is never dropped, changed or captured again, whatever
\* else the cashier does with the cart (cancel, edit, lock, a new tender).
CapturesKept ==
    [][\A i \in intents : i.status = "succeeded" => i \in intents']_vars

=============================================================================

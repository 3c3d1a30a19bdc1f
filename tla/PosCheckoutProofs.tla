-------------------------- MODULE PosCheckoutProofs --------------------------
(***************************************************************************)
(* Proofs about PosCheckout, for any number of carts, products, customers  *)
(* and requests: whatever requests overlap, types are right, a cart has at *)
(* most one completed payment, invoice numbers are dense, drawer, stock    *)
(* and loyalty points are the sums over the invoices, and a cart is sold   *)
(* in one step as AtomicSale says. As long as no two requests work on one  *)
(* cart, totals match rows, a sold cart is frozen and a completed payment  *)
(* is kept.                                                                *)
(***************************************************************************)
EXTENDS PosCheckout, FiniteSums

USE CartAssumption, CheckoutAssumption

Requests == CartRequests \cup IntentRequest \cup CaptureRequest \cup FinalizeRequest

\* The rows of a cart, of an invoice and of a request are finitely many.
FiniteRequest(r) ==
    /\ r.op = "edit" => IsFiniteSet(r.known) /\ IsFiniteSet(r.upd) /\ IsFiniteSet(r.ins)
    /\ r.op = "finalize" => IsFiniteSet(r.rows)

FiniteRows ==
    /\ \A c \in Carts : IsFiniteSet(cart[c].rows)
    /\ \A c \in Invoiced : IsFiniteSet(invoice[c].rows)
    /\ \A s \in Slots : FiniteRequest(req[s])

TypeInv == TypeOK /\ FiniteRows

-----------------------------------------------------------------------------
(* Sums over rows *)

\* The product of two naturals is a natural.
LEMMA ProductType == \A a, b \in Nat : a * b \in Nat
OBVIOUS

\* What rows are worth is a natural.
LEMMA RowSums ==
  ASSUME NEW rows \in SUBSET RowSet, IsFiniteSet(rows)
  PROVE  /\ Net(rows) \in Nat /\ Off(rows) \in Nat /\ Total(rows) \in Nat
         /\ Total(rows) = Less(Net(rows), Off(rows))
         /\ \A what : /\ IsFiniteSet(Named(rows, what))
                      /\ SumFunction([r \in Named(rows, what) |-> r.n]) \in Nat
<1>1. \A r \in rows : r.n \in Nat /\ r.what \in Products \cup Discounts
  BY DEF RowSet
<1>2. Net(rows) \in Nat
  <2> DEFINE L == Lines(rows)
             f == [r \in L |-> Price[r.what] * r.n]
  <2>1. IsFiniteSet(L) /\ L \subseteq rows
    BY FS_Subset DEF Lines
  <2>2. \A r \in L : Price[r.what] \in Nat /\ r.n \in Nat
    BY <1>1 DEF Lines
  <2>3. f \in [L -> Nat]
    BY <2>2, ProductType
  <2> HIDE DEF f, L
  <2>4. SumFunction(f) \in Nat
    BY <2>1, <2>3, FunSumNat
  <2> QED BY <2>4 DEF Net, f, L
<1>3. Off(rows) \in Nat
  <2> DEFINE L == rows \ Lines(rows)
             f == [r \in L |-> Amount(r)]
  <2>1. IsFiniteSet(L)
    BY FS_Subset
  <2>2. \A r \in L : Amount(r) \in Nat
    BY <1>1, ProductType DEF Amount
  <2>3. f \in [L -> Nat]
    BY <2>2
  <2> HIDE DEF f, L
  <2>4. SumFunction(f) \in Nat
    BY <2>1, <2>3, FunSumNat
  <2> QED BY <2>4 DEF Off, f, L
<1>4. ASSUME NEW what
      PROVE  /\ IsFiniteSet(Named(rows, what))
             /\ SumFunction([r \in Named(rows, what) |-> r.n]) \in Nat
  <2> DEFINE L == Named(rows, what)
             f == [r \in L |-> r.n]
  <2>1. IsFiniteSet(L) /\ L \subseteq rows
    BY FS_Subset DEF Named
  <2>2. f \in [L -> Nat]
    BY <1>1, <2>1
  <2> HIDE DEF f, L
  <2>3. SumFunction(f) \in Nat
    BY <2>1, <2>2, FunSumNat
  <2> QED BY <2>1, <2>3 DEF f, L
<1>5. Total(rows) \in Nat /\ Total(rows) = Less(Net(rows), Off(rows))
  BY <1>2, <1>3 DEF Total, Less
<1> QED BY <1>2, <1>3, <1>4, <1>5

\* The units of a product on rows, and the points redeemed on a cart.
LEMMA UnitsType ==
  ASSUME NEW rows \in SUBSET RowSet, IsFiniteSet(rows), NEW p
  PROVE  Units(rows, p) \in Nat
BY RowSums DEF Units

\* A rounded amount is a natural, and so is a difference cut off at zero.
LEMMA AmountType ==
  /\ \A x \in Nat : RoundCash(x) \in Nat
  /\ \A x, y \in Nat : Less(x, y) \in Nat
  /\ \A total \in Nat, credit \in Credits, method \in Methods, partial \in Int :
        IntentAmount(total, credit, method, partial) \in Nat
<1>1. \A x, y \in Nat : Less(x, y) \in Nat
  BY DEF Less
<1>2. ASSUME NEW x \in Nat PROVE RoundCash(x) \in Nat
  <2>1. \A a \in Nat, b \in Nat \ {0} : a \div b \in Nat
    OBVIOUS
  <2>2. 2 * x + Increment \in Nat /\ 2 * Increment \in Nat \ {0}
    OBVIOUS
  <2>3. (2 * x + Increment) \div (2 * Increment) \in Nat
    BY <2>1, <2>2
  <2> QED BY <2>3, ProductType DEF RoundCash
<1>3. \A total \in Nat, credit \in Credits, method \in Methods, partial \in Int :
        IntentAmount(total, credit, method, partial) \in Nat
  BY <1>1, <1>2 DEF IntentAmount
<1> QED BY <1>1, <1>2, <1>3

-----------------------------------------------------------------------------
(* What a request is *)

\* A request that is not idle, by what it does.
LEMMA RequestCases ==
  ASSUME TypeOK, NEW s \in Slots
  PROVE  /\ req \in [Slots -> Requests]
         /\ req[s] = Idle <=> req[s].op = "idle"
         /\ req[s].op \in {"idle", "edit", "state", "customer", "intent", "capture", "finalize"}
         /\ req[s].op = "edit" => req[s] \in EditRequest
         /\ req[s].op = "state" => req[s] \in StateRequest
         /\ req[s].op = "customer" => req[s] \in CustomerRequest
         /\ req[s].op = "intent" => req[s] \in IntentRequest
         /\ req[s].op = "capture" => req[s] \in CaptureRequest
         /\ req[s].op = "finalize" => req[s] \in FinalizeRequest
<1>1. req \in [Slots -> Requests]
  BY DEF TypeOK, Requests
<1>2. req[s] \in Requests
  BY <1>1
<1> QED BY <1>1, <1>2 DEF Requests, CartRequests, Idle, EditRequest, StateRequest,
           CustomerRequest, IntentRequest, CaptureRequest, FinalizeRequest

\* Each variable of a cart.
LEMMA CartFields ==
  ASSUME TypeOK, NEW c \in Carts
  PROVE  /\ cart \in [Carts -> CartState] /\ cart[c] \in CartState
         /\ cart[c].status \in Statuses /\ cart[c].customer \in Customers \cup {Nobody}
         /\ cart[c].total \in Nat /\ cart[c].rows \in SUBSET RowSet
BY DEF TypeOK, CartTypeOK, CartState

-----------------------------------------------------------------------------
(* Types *)

CartPart == cart \in [Carts -> CartState] /\ \A c \in Carts : IsFiniteSet(cart[c].rows)

RequestPart == req \in [Slots -> Requests] /\ \A s \in Slots : FiniteRequest(req[s])

IntentPart == intents \subseteq IntentSet /\ nextIntent \in 1..(MaxIntents + 1)

InvoicePart ==
    /\ invoice \in [Carts -> InvoiceSet \cup {NoInvoice}]
    /\ \A c \in Invoiced : IsFiniteSet(invoice[c].rows)

StockPart == /\ nextNumber \in Nat /\ drawer \in Nat
             /\ stock \in [Products -> Nat] /\ shift \in {"open", "closed"}

CustomerPart == points \in [Customers -> Int] /\ active \subseteq Customers

RowIdPart == nextRow \in 1..(MaxRows + 1)

\* The parts make up the invariant, in a state and in the next.
LEMMA TypeParts ==
  /\ TypeInv <=> /\ CartPart /\ RequestPart /\ IntentPart /\ InvoicePart /\ StockPart
                 /\ CustomerPart /\ RowIdPart
  /\ TypeInv' <=> /\ CartPart' /\ RequestPart' /\ IntentPart' /\ InvoicePart' /\ StockPart'
                  /\ CustomerPart' /\ RowIdPart'
BY DEF TypeInv, TypeOK, CartTypeOK, FiniteRows, Requests, CartPart, RequestPart, IntentPart,
       InvoicePart, StockPart, CustomerPart, RowIdPart

\* A request is replaced by another.
LEMMA RequestStep ==
  ASSUME RequestPart, NEW s \in Slots, NEW r \in Requests, FiniteRequest(r),
         req' = [req EXCEPT ![s] = r]
  PROVE  RequestPart'
BY DEF RequestPart

\* A cart is replaced by another.
LEMMA CartWrite ==
  ASSUME CartPart, NEW c \in Carts, NEW new \in CartState, IsFiniteSet(new.rows),
         cart' = [cart EXCEPT ![c] = new]
  PROVE  CartPart'
BY DEF CartPart

\* The end of a request: it is idle again.
LEMMA IdleStep ==
  ASSUME RequestPart, NEW s \in Slots, req' = [req EXCEPT ![s] = Idle]
  PROVE  RequestPart'
<1>1. Idle \in Requests /\ FiniteRequest(Idle)
  BY DEF Requests, CartRequests, Idle, FiniteRequest
<1> QED BY <1>1, RequestStep

\* A request begins, and writes nothing but what it is going to do.
LEMMA BeginStep ==
  ASSUME TypeInv, NEW s \in Slots, NEW r \in Requests, FiniteRequest(r),
         Begin(s, r), UNCHANGED <<cart, points, active, payVars>>, RowIdPart'
  PROVE  TypeInv'
<1>1. RequestPart'
  BY RequestStep, TypeParts DEF Begin
<1>2. /\ CartPart' /\ IntentPart' /\ InvoicePart' /\ StockPart' /\ CustomerPart'
  BY TypeParts DEF CartPart, IntentPart, InvoicePart, Invoiced, StockPart, CustomerPart, payVars
<1> QED BY <1>1, <1>2, TypeParts

\* A row is given the next id.
LEMMA NewRowType ==
  ASSUME RowIdPart, nextRow <= MaxRows, NEW what \in Products \cup Discounts, NEW n \in Nat \ {0}
  PROVE  /\ NewRow(what, n) \in SUBSET RowSet /\ IsFiniteSet(NewRow(what, n))
         /\ nextRow \in 1..MaxRows /\ nextRow + 1 \in 1..(MaxRows + 1)
<1>1. nextRow \in 1..MaxRows /\ nextRow + 1 \in 1..(MaxRows + 1)
  BY DEF RowIdPart
<1>2. NewRow(what, n) \in SUBSET RowSet
  BY <1>1 DEF NewRow, RowSet
<1>3. IsFiniteSet(NewRow(what, n))
  BY FS_Singleton DEF NewRow
<1> QED BY <1>1, <1>2, <1>3

\* What an edit is made of makes a request.
LEMMA EditType ==
  ASSUME TypeInv, NEW c \in Carts, NEW known \in SUBSET RowSet, NEW del \in SUBSET (1..MaxRows),
         NEW upd \in SUBSET RowSet, NEW ins \in SUBSET RowSet,
         IsFiniteSet(known), IsFiniteSet(upd), IsFiniteSet(ins)
  PROVE  Edit(c, known, del, upd, ins) \in Requests
         /\ FiniteRequest(Edit(c, known, del, upd, ins))
<1>1. cart[c].total \in Nat
  BY CartFields DEF TypeInv
<1>2. Edit(c, known, del, upd, ins) \in EditRequest
  BY <1>1 DEF Edit, EditRequest
<1>3. FiniteRequest(Edit(c, known, del, upd, ins))
  BY DEF Edit, FiniteRequest
<1> QED BY <1>2, <1>3 DEF Requests, CartRequests

\* The ids and the rows of one kind of a cart.
LEMMA CartRows ==
  ASSUME TypeInv, NEW c \in Carts
  PROVE  /\ cart[c].rows \in SUBSET RowSet /\ IsFiniteSet(cart[c].rows)
         /\ \A what : /\ Named(cart[c].rows, what) \in SUBSET RowSet
                      /\ IsFiniteSet(Named(cart[c].rows, what))
                      /\ Ids(Named(cart[c].rows, what)) \in SUBSET (1..MaxRows)
<1>1. cart[c].rows \in SUBSET RowSet /\ IsFiniteSet(cart[c].rows)
  BY CartFields DEF TypeInv, FiniteRows
<1> DEFINE rows == cart[c].rows
<1> HIDE DEF rows
<1>2. rows \in SUBSET RowSet /\ IsFiniteSet(rows)
  BY <1>1 DEF rows
<1>3. \A what : Named(rows, what) \in SUBSET RowSet
  BY <1>2 DEF Named
<1>4. \A what : IsFiniteSet(Named(rows, what))
  BY <1>2, RowSums
<1>5. \A r \in RowSet : r.id \in 1..MaxRows
  BY DEF RowSet
<1>6. \A what : Ids(Named(rows, what)) \in SUBSET (1..MaxRows)
  BY <1>3, <1>5 DEF Ids
<1> QED BY <1>2, <1>3, <1>4, <1>6 DEF rows

\* Setting a quantity keeps the types,
LEMMA UpsertType ==
  ASSUME TypeInv, NEW s \in Slots, NEW c \in Carts, NEW p \in Products, NEW qty \in 0..MaxQty,
         UpsertLine(s, c, p, qty), UNCHANGED payVars
  PROVE  TypeInv'
<1> DEFINE own == Named(cart[c].rows, p)
           upd == {[r EXCEPT !.n = qty] : r \in Changed(own, qty)}
           del == IF qty = 0 THEN Ids(own) ELSE {}
<1>0. RowIdPart
  BY TypeParts
<1>1. own \in SUBSET RowSet /\ IsFiniteSet(own) /\ Ids(own) \in SUBSET (1..MaxRows)
  BY CartRows
<1>2. IsFiniteSet({}) /\ {} \in SUBSET RowSet /\ {} \in SUBSET (1..MaxRows)
  BY FS_EmptySet
<1>3. CASE qty # 0 /\ own = {}
  <2>1. Begin(s, Edit(c, own, {}, {}, NewRow(p, qty))) /\ TakeId
    BY <1>3 DEF UpsertLine
  <2>2. NewRow(p, qty) \in SUBSET RowSet /\ IsFiniteSet(NewRow(p, qty)) /\ RowIdPart'
    BY <1>0, <1>3, <2>1, NewRowType DEF TakeId, RowIdPart
  <2> HIDE DEF own
  <2>3. Edit(c, own, {}, {}, NewRow(p, qty)) \in Requests
        /\ FiniteRequest(Edit(c, own, {}, {}, NewRow(p, qty)))
    BY <1>1, <1>2, <2>2, EditType
  <2> QED BY <2>1, <2>2, <2>3, BeginStep DEF UpsertLine
<1>4. CASE ~(qty # 0 /\ own = {})
  <2>1. Begin(s, Edit(c, own, del, upd, {})) /\ UNCHANGED nextRow
    BY <1>4 DEF UpsertLine
  <2>2. del \in SUBSET (1..MaxRows)
    BY <1>1
  <2>3. IsFiniteSet(Changed(own, qty)) /\ Changed(own, qty) \subseteq own
    BY <1>1, FS_Subset DEF Changed
  <2> HIDE DEF own
  <2>4. IsFiniteSet(upd)
    <3> DEFINE f == [r \in Changed(own, qty) |-> [r EXCEPT !.n = qty]]
    <3>1. f \in [Changed(own, qty) -> upd] /\ \A u \in upd : \E r \in Changed(own, qty) : f[r] = u
      OBVIOUS
    <3> HIDE DEF f, upd
    <3>2. f \in Surjection(Changed(own, qty), upd)
      BY <3>1 DEF Surjection
    <3> QED BY <2>3, <3>2, FS_Surjection
  <2>5. upd \in SUBSET RowSet
    <3>1. \A r \in Changed(own, qty) : qty \in Nat \ {0} /\ r \in RowSet
      BY <1>1, <2>3 DEF Changed
    <3> QED BY <3>1 DEF RowSet
  <2>6. RowIdPart'
    BY <1>0, <2>1 DEF RowIdPart
  <2> HIDE DEF upd, del
  <2>7. Edit(c, own, del, upd, {}) \in Requests /\ FiniteRequest(Edit(c, own, del, upd, {}))
    BY <1>1, <1>2, <2>2, <2>4, <2>5, EditType
  <2> QED BY <2>1, <2>6, <2>7, BeginStep DEF UpsertLine
<1> QED BY <1>3, <1>4

\* and so does a discount.
LEMMA DiscountType ==
  ASSUME TypeInv, NEW s \in Slots, NEW c \in Carts, NEW what \in Discounts, NEW n \in Nat \ {0},
         Discount(s, c, what, n), UNCHANGED payVars
  PROVE  TypeInv'
<1> DEFINE rows == cart[c].rows
           del == Ids(Named(rows, what))
<1>0. RowIdPart
  BY TypeParts
<1>1. rows \in SUBSET RowSet /\ IsFiniteSet(rows) /\ del \in SUBSET (1..MaxRows)
  BY CartRows
<1>2. IsFiniteSet({}) /\ {} \in SUBSET RowSet
  BY FS_EmptySet
<1>3. Begin(s, Edit(c, rows, del, {}, NewRow(what, n))) /\ TakeId
  BY DEF Discount
<1>4. NewRow(what, n) \in SUBSET RowSet /\ IsFiniteSet(NewRow(what, n)) /\ RowIdPart'
  BY <1>0, <1>3, NewRowType DEF TakeId, RowIdPart
<1> HIDE DEF rows, del
<1>5. Edit(c, rows, del, {}, NewRow(what, n)) \in Requests
      /\ FiniteRequest(Edit(c, rows, del, {}, NewRow(what, n)))
  BY <1>1, <1>2, <1>4, EditType
<1> QED BY <1>3, <1>4, <1>5, BeginStep DEF Discount

\* The requests about the status and the customer of a cart keep the types,
LEMMA BeginOtherType ==
  ASSUME TypeInv, NEW s \in Slots, NEW c \in Carts, UNCHANGED payVars
  PROVE  /\ \A action : ChangeState(s, c, action) => TypeInv'
         /\ \A customer \in Customers \cup {Nobody} : PatchCustomer(s, c, customer) => TypeInv'
<1>0. UNCHANGED nextRow => RowIdPart'
  BY TypeParts DEF RowIdPart
<1>1. ASSUME NEW action, ChangeState(s, c, action) PROVE TypeInv'
  <2> DEFINE r == [op |-> "state", cart |-> c, to |-> Transition(cart[c].status, action)]
  <2>1. Transition(cart[c].status, action) \in Statuses
    BY <1>1 DEF ChangeState, Transition, Statuses
  <2>2. r \in Requests /\ FiniteRequest(r)
    BY <2>1 DEF Requests, CartRequests, StateRequest, FiniteRequest
  <2>3. Begin(s, r) /\ UNCHANGED <<cart, nextRow, points, active>>
    BY <1>1 DEF ChangeState
  <2> HIDE DEF r
  <2> QED BY <1>0, <2>2, <2>3, BeginStep
<1>2. ASSUME NEW customer \in Customers \cup {Nobody}, PatchCustomer(s, c, customer) PROVE TypeInv'
  <2> DEFINE r == [op |-> "customer", cart |-> c, from |-> cart[c].customer, to |-> customer]
  <2>1. cart[c].customer \in Customers \cup {Nobody}
    BY CartFields DEF TypeInv
  <2>2. r \in Requests /\ FiniteRequest(r)
    BY <2>1 DEF Requests, CartRequests, CustomerRequest, FiniteRequest
  <2>3. Begin(s, r) /\ UNCHANGED <<cart, nextRow, points, active>>
    BY <1>2 DEF PatchCustomer
  <2> HIDE DEF r
  <2> QED BY <1>0, <2>2, <2>3, BeginStep
<1> QED BY <1>1, <1>2

\* and so do those about its payment.
LEMMA BeginPaymentType ==
  ASSUME TypeInv, NEW s \in Slots, NEW c \in Carts, BeginPayment(s, c)
  PROVE  TypeInv'
<1>0. TypeOK /\ (UNCHANGED nextRow => RowIdPart')
  BY TypeParts DEF RowIdPart, TypeInv
<1>1. ASSUME NEW credit \in Credits, NEW method \in Methods, NEW partial \in Partials \cup {-1},
             CreateIntent(s, c, credit, method, partial)
      PROVE  TypeInv'
  <2> DEFINE r == [op |-> "intent", cart |-> c, stale |-> Ids(Open(c)),
                   amount |-> IntentAmount(cart[c].total, credit, method, partial)]
  <2>1. IntentAmount(cart[c].total, credit, method, partial) \in Nat
    <3>1. cart[c].total \in Nat /\ partial \in Int
      BY <1>0, CartFields
    <3> QED BY <3>1, AmountType
  <2>2. Ids(Open(c)) \in SUBSET (1..MaxIntents)
    BY <1>0 DEF TypeOK, IntentSet, Ids, Open, OfCart
  <2>3. r \in Requests /\ FiniteRequest(r)
    BY <2>1, <2>2 DEF Requests, IntentRequest, FiniteRequest
  <2>4. Begin(s, r) /\ UNCHANGED <<cart, nextRow, points, active, payVars>>
    BY <1>1 DEF CreateIntent
  <2> HIDE DEF r
  <2> QED BY <1>0, <2>3, <2>4, BeginStep
<1>2. ASSUME NEW i \in OfCart(c), NEW key \in Keys, NEW method \in Methods,
             NEW partial \in Partials \cup {-1}, Capture(s, i, key, method, partial)
      PROVE  TypeInv'
  <2> DEFINE receipt == [key |-> key, method |-> method,
                         amount |-> IF partial >= 0 THEN partial ELSE i.amount]
             r == [op |-> "capture", id |-> i.id, receipt |-> receipt]
  <2>1. i.id \in 1..MaxIntents /\ i.amount \in Nat
    BY <1>0 DEF TypeOK, IntentSet, OfCart
  <2>2. receipt \in ReceiptSet
    BY <2>1 DEF ReceiptSet
  <2>3. Begin(s, r) /\ UNCHANGED <<cart, nextRow, points, active, payVars>>
    BY <1>2 DEF Capture
  <2> HIDE DEF receipt
  <2>4. r \in Requests /\ FiniteRequest(r)
    BY <2>1, <2>2 DEF Requests, CaptureRequest, FiniteRequest
  <2> HIDE DEF r
  <2> QED BY <1>0, <2>3, <2>4, BeginStep
<1>3. ASSUME NEW i \in OfCart(c), Finalize(s, i) PROVE TypeInv'
  <2> DEFINE r == [op |-> "finalize", cart |-> i.cart, id |-> i.id, due |-> i.amount,
                   customer |-> cart[i.cart].customer,
                   total |-> cart[i.cart].total, rows |-> cart[i.cart].rows]
  <2>1. i.id \in 1..MaxIntents /\ i.amount \in Nat /\ i.cart = c
    BY <1>0 DEF TypeOK, IntentSet, OfCart
  <2>2. /\ cart[c].customer \in Customers \cup {Nobody} /\ cart[c].total \in Nat
        /\ cart[c].rows \in SUBSET RowSet /\ IsFiniteSet(cart[c].rows)
    BY <1>0, CartFields, CartRows
  <2>3. Begin(s, r) /\ UNCHANGED <<cart, nextRow, points, active, payVars>>
    BY <1>3 DEF Finalize
  <2>4. r \in FinalizeRequest
    BY <2>1, <2>2 DEF FinalizeRequest
  <2>5. r \in Requests /\ FiniteRequest(r)
    BY <2>1, <2>2, <2>4 DEF Requests, FiniteRequest
  <2> HIDE DEF r
  <2> QED BY <1>0, <2>3, <2>5, BeginStep
<1> QED BY <1>1, <1>2, <1>3 DEF BeginPayment

\* The writes of an edit, before they are committed.
LEMMA FlushType ==
  ASSUME TypeInv, NEW s \in Slots, Flush(s), UNCHANGED payVars
  PROVE  TypeInv'
<1>1. TypeOK
  BY DEF TypeInv
<1>2. PICK e \in Requests : e = req[s]
  BY <1>1, RequestCases
<1>3. e \in EditRequest /\ FiniteRequest(e)
  BY <1>1, <1>2, RequestCases DEF Flush, TypeInv, FiniteRows
<1>4. View(e) \in SUBSET RowSet /\ IsFiniteSet(View(e))
  <2> DEFINE kept == {r \in cart[e.cart].rows : r.id \notin e.del \cup Ids(e.upd)}
             stayed == {r \in kept : r.id \notin Ids(e.known)}
             same == {k \in e.known : k.id \in Ids(kept)}
  <2>1. /\ e.cart \in Carts /\ e.known \in SUBSET RowSet /\ e.upd \in SUBSET RowSet
        /\ e.ins \in SUBSET RowSet
        /\ IsFiniteSet(e.known) /\ IsFiniteSet(e.upd) /\ IsFiniteSet(e.ins)
    BY <1>3 DEF EditRequest, FiniteRequest
  <2>2. cart[e.cart].rows \in SUBSET RowSet /\ IsFiniteSet(cart[e.cart].rows)
    BY <2>1, CartRows
  <2>3. stayed \subseteq cart[e.cart].rows /\ same \subseteq e.known
    OBVIOUS
  <2>4. View(e) = stayed \cup same \cup e.upd \cup e.ins
    BY DEF View
  <2> HIDE DEF stayed, same
  <2>5. IsFiniteSet(stayed) /\ IsFiniteSet(same)
    BY <2>1, <2>2, <2>3, FS_Subset
  <2>6. IsFiniteSet(stayed \cup same \cup e.upd \cup e.ins)
    BY <2>1, <2>5, FS_Union
  <2> QED BY <2>1, <2>2, <2>3, <2>4, <2>6
<1>5. Total(View(e)) \in Nat
  BY <1>4, RowSums
<1> DEFINE t == Total(View(e))
<1> HIDE DEF t
<1>6. t \in Nat /\ req' = [req EXCEPT ![s].flushed = TRUE, ![s].total = t]
  BY <1>2, <1>5 DEF t, Flush
<1> DEFINE new == [e EXCEPT !.flushed = TRUE, !.total = t]
<1>7. req' = [req EXCEPT ![s] = new]
  BY <1>1, <1>2, <1>6, RequestCases
<1>8. new \in EditRequest /\ new.known = e.known /\ new.upd = e.upd /\ new.ins = e.ins
  BY <1>3, <1>6 DEF EditRequest
<1>9. new \in Requests /\ FiniteRequest(new)
  BY <1>3, <1>8 DEF Requests, CartRequests, FiniteRequest, EditRequest
<1> HIDE DEF new
<1>10. RequestPart'
  BY <1>7, <1>9, RequestStep, TypeParts
<1>11. /\ CartPart' /\ IntentPart' /\ InvoicePart' /\ StockPart' /\ CustomerPart' /\ RowIdPart'
  BY TypeParts DEF CartPart, IntentPart, InvoicePart, Invoiced, StockPart, CustomerPart, payVars,
     Flush, RowIdPart
<1> QED BY <1>10, <1>11, TypeParts

\* The commit of an edit,
LEMMA CommitEditType ==
  ASSUME TypeInv, NEW s \in Slots, CommitEdit(s), UNCHANGED payVars
  PROVE  TypeInv'
<1>1. TypeOK
  BY DEF TypeInv
<1>2. PICK e \in Requests : e = req[s]
  BY <1>1, RequestCases
<1>3. e \in EditRequest /\ FiniteRequest(e)
  BY <1>1, <1>2, RequestCases DEF CommitEdit, TypeInv, FiniteRows
<1>4. PICK c \in Carts : c = e.cart
  BY <1>3 DEF EditRequest
<1> DEFINE kept == {r \in cart[c].rows : r.id \notin e.del \cup Ids(e.upd)}
           rows == kept \cup e.upd \cup e.ins
           total == IF e.total = e.loaded THEN cart[c].total ELSE e.total
           new == [cart[c] EXCEPT !.rows = rows, !.total = total]
<1>5. cart[c] \in CartState /\ cart \in [Carts -> CartState]
      /\ cart[c].rows \in SUBSET RowSet /\ IsFiniteSet(cart[c].rows)
  BY <1>1, CartFields, CartRows
<1>6. rows \in SUBSET RowSet /\ IsFiniteSet(rows)
  <2>1. /\ e.upd \in SUBSET RowSet /\ e.ins \in SUBSET RowSet
        /\ IsFiniteSet(e.upd) /\ IsFiniteSet(e.ins)
    BY <1>3 DEF EditRequest, FiniteRequest
  <2>2. IsFiniteSet(kept)
    BY <1>5, FS_Subset
  <2>3. kept \in SUBSET RowSet
    BY <1>5
  <2> HIDE DEF kept
  <2> QED BY <2>1, <2>2, <2>3, FS_Union
<1>7. total \in Nat
  BY <1>3, <1>5 DEF EditRequest, CartState
<1>8. cart' = [cart EXCEPT ![c] = new] /\ req' = [req EXCEPT ![s] = Idle]
      /\ UNCHANGED <<nextRow, points, active>>
  BY <1>2, <1>4, <1>5 DEF CommitEdit
<1> HIDE DEF rows, total
<1>9. new \in CartState /\ IsFiniteSet(new.rows)
  BY <1>5, <1>6, <1>7 DEF CartState
<1> HIDE DEF new
<1>10. CartPart' /\ RequestPart'
  BY <1>4, <1>8, <1>9, CartWrite, IdleStep, TypeParts
<1>11. /\ IntentPart' /\ InvoicePart' /\ StockPart' /\ CustomerPart' /\ RowIdPart'
  BY <1>8, TypeParts DEF IntentPart, InvoicePart, Invoiced, StockPart, CustomerPart, payVars,
     RowIdPart
<1> QED BY <1>10, <1>11, TypeParts

\* of a status and of a customer, a new cart, an account and a failure.
LEMMA OtherCartType ==
  ASSUME TypeInv, UNCHANGED payVars
  PROVE  /\ \A s \in Slots : CommitState(s) \/ CommitCustomer(s) \/ Fail(s) => TypeInv'
         /\ \A c \in Carts, customer \in Customers \cup {Nobody} :
               CreateCart(c, customer) => TypeInv'
         /\ \A customer \in Customers : SetAccountStatus(customer) => TypeInv'
<1>0. TypeOK /\ CartPart /\ RequestPart
  BY TypeParts DEF TypeInv
<1>1. /\ IntentPart' /\ InvoicePart' /\ StockPart'
      /\ UNCHANGED nextRow => RowIdPart'
      /\ UNCHANGED <<points, active>> => CustomerPart'
      /\ UNCHANGED req => RequestPart'
      /\ UNCHANGED cart => CartPart'
  BY TypeParts DEF IntentPart, InvoicePart, Invoiced, StockPart, CustomerPart, payVars,
     RowIdPart, RequestPart, CartPart
<1>2. ASSUME NEW c \in Carts, NEW status \in Statuses, NEW customer \in Customers \cup {Nobody},
             cart' = [cart EXCEPT ![c].status = status, ![c].customer = customer]
      PROVE  CartPart'
  <2> DEFINE new == [cart[c] EXCEPT !.status = status, !.customer = customer]
  <2>1. /\ cart[c] \in CartState /\ cart \in [Carts -> CartState] /\ IsFiniteSet(cart[c].rows)
    BY <1>0, CartFields, CartRows
  <2>2. cart' = [cart EXCEPT ![c] = new]
    BY <1>2, <2>1
  <2>3. new \in CartState /\ IsFiniteSet(new.rows)
    BY <2>1 DEF CartState
  <2> HIDE DEF new
  <2> QED BY <1>0, <2>2, <2>3, CartWrite
<1>3. ASSUME NEW s \in Slots, CommitState(s) PROVE TypeInv'
  <2>1. PICK r \in StateRequest : r = req[s]
    BY <1>0, <1>3, RequestCases DEF CommitState
  <2>2. PICK c \in Carts : c = r.cart
    BY <2>1 DEF StateRequest
  <2>3. PICK to \in Statuses : to = r.to
    BY <2>1 DEF StateRequest
  <2>4. cart' = [cart EXCEPT ![c].status = to]
    BY <1>3, <2>1, <2>2, <2>3 DEF CommitState
  <2>5. PICK k \in Customers \cup {Nobody} : k = cart[c].customer
    BY <1>0, CartFields
  <2>6. cart' = [cart EXCEPT ![c].status = to, ![c].customer = k]
    BY <1>0, <2>4, <2>5, CartFields DEF CartState
  <2>7. CartPart' /\ RequestPart'
    BY <1>0, <1>2, <1>3, <2>6, IdleStep DEF CommitState
  <2> QED BY <1>1, <1>3, <2>7, TypeParts DEF CommitState
<1>4. ASSUME NEW s \in Slots, CommitCustomer(s) PROVE TypeInv'
  <2>1. PICK r \in CustomerRequest : r = req[s]
    BY <1>0, <1>4, RequestCases DEF CommitCustomer
  <2>2. PICK c \in Carts : c = r.cart
    BY <2>1 DEF CustomerRequest
  <2>3. PICK k \in Customers \cup {Nobody} : k = r.to
    BY <2>1 DEF CustomerRequest
  <2>4. cart' = cart \/ cart' = [cart EXCEPT ![c].customer = k]
    BY <1>4, <2>1, <2>2, <2>3 DEF CommitCustomer
  <2>5. PICK status \in Statuses : status = cart[c].status
    BY <1>0, CartFields
  <2>6. cart' = cart \/ cart' = [cart EXCEPT ![c].status = status, ![c].customer = k]
    BY <1>0, <2>4, <2>5, CartFields DEF CartState
  <2>7. CartPart' /\ RequestPart'
    BY <1>0, <1>1, <1>2, <1>4, <2>6, IdleStep DEF CommitCustomer
  <2> QED BY <1>1, <1>4, <2>7, TypeParts DEF CommitCustomer
<1>5. ASSUME NEW s \in Slots, Fail(s) PROVE TypeInv'
  <2>1. RequestPart'
    BY <1>0, <1>5, IdleStep DEF Fail
  <2> QED BY <1>1, <1>5, <2>1, TypeParts DEF Fail
<1>6. ASSUME NEW c \in Carts, NEW customer \in Customers \cup {Nobody}, CreateCart(c, customer)
      PROVE  TypeInv'
  <2>1. "active" \in Statuses
    BY DEF Statuses
  <2>2. CartPart'
    BY <1>2, <1>6, <2>1 DEF CreateCart
  <2> QED BY <1>1, <1>6, <2>2, TypeParts DEF CreateCart
<1>7. ASSUME NEW customer \in Customers, SetAccountStatus(customer) PROVE TypeInv'
  <2>1. active \subseteq Customers /\ points \in [Customers -> Int]
    BY TypeParts DEF CustomerPart
  <2>2. CustomerPart'
    BY <1>7, <2>1 DEF CustomerPart, SetAccountStatus
  <2> QED BY <1>1, <1>7, <2>2, TypeParts DEF SetAccountStatus
<1> QED BY <1>3, <1>4, <1>5, <1>6, <1>7

\* The commit of an intent and of a capture.
LEMMA CommitIntentType ==
  ASSUME TypeInv, NEW s \in Slots, CommitIntent(s) \/ CommitCapture(s)
  PROVE  TypeInv'
<1>0. TypeOK /\ IntentPart /\ RequestPart
  BY TypeParts DEF TypeInv
<1>1. /\ CartPart' /\ InvoicePart' /\ StockPart' /\ CustomerPart' /\ RowIdPart'
  BY TypeParts DEF CartPart, InvoicePart, Invoiced, StockPart, CustomerPart,
     RowIdPart, CommitIntent, CommitCapture
<1>2. RequestPart'
  BY <1>0, IdleStep DEF CommitIntent, CommitCapture
<1>3. CASE CommitIntent(s)
  <2>1. PICK r \in IntentRequest : r = req[s]
    BY <1>0, <1>3, RequestCases DEF CommitIntent
  <2> DEFINE new == [id |-> nextIntent, cart |-> r.cart, amount |-> r.amount,
                     status |-> "requires_capture", receipts |-> {}]
             rest == {i \in intents : i.id \notin r.stale}
  <2>2. intents' = rest \cup {new} /\ nextIntent' = nextIntent + 1 /\ nextIntent <= MaxIntents
    BY <1>3, <2>1 DEF CommitIntent
  <2>3. new \in IntentSet
    BY <1>0, <2>1, <2>2 DEF IntentSet, IntentRequest, IntentPart
  <2>4. nextIntent + 1 \in 1..(MaxIntents + 1)
    BY <1>0, <2>2 DEF IntentPart
  <2>5. rest \subseteq intents
    OBVIOUS
  <2> HIDE DEF new, rest
  <2>6. IntentPart'
    BY <1>0, <2>2, <2>3, <2>4, <2>5 DEF IntentPart
  <2> QED BY <1>1, <1>2, <2>6, TypeParts
<1>4. CASE CommitCapture(s)
  <2>1. PICK r \in CaptureRequest : r = req[s]
    BY <1>0, <1>4, RequestCases DEF CommitCapture
  <2>2. PICK i \in intents :
           intents' = (intents \ {i}) \cup
                {[i EXCEPT !.status = "succeeded", !.receipts = @ \cup {r.receipt}]}
    BY <1>4, <2>1 DEF CommitCapture
  <2>3. [i EXCEPT !.status = "succeeded", !.receipts = @ \cup {r.receipt}] \in IntentSet
    <3>1. i \in IntentSet
      BY <1>0 DEF IntentPart
    <3>2. r.receipt \in ReceiptSet
      BY <2>1 DEF CaptureRequest
    <3> HIDE DEF ReceiptSet
    <3> QED BY <3>1, <3>2 DEF IntentSet
  <2>4. IntentPart'
    BY <1>0, <1>4, <2>2, <2>3 DEF IntentPart, CommitCapture
  <2> QED BY <1>1, <1>2, <2>4, TypeParts
<1> QED BY <1>3, <1>4

\* What is posted for a sale: by the request, the receipt and the points.
Sale(r, receipt, redeemed, earned) ==
    [number |-> nextNumber, total |-> r.total, paid |-> receipt.amount,
     method |-> receipt.method, due |-> r.due, customer |-> r.customer,
     ar |-> IF r.customer = Nobody THEN 0 ELSE Less(r.total, receipt.amount),
     debited |-> redeemed, earned |-> earned, rows |-> r.rows]

\* A finalisation is committed.
Sells(s, r, receipt, redeemed, earned) ==
    /\ r = req[s] /\ r.op = "finalize" /\ IsFiniteSet(r.rows) /\ invoice[r.cart] = NoInvoice
    /\ invoice' = [invoice EXCEPT ![r.cart] = Sale(r, receipt, redeemed, earned)]
    /\ drawer' = IF receipt.method = "cash" THEN drawer + receipt.amount ELSE drawer
    /\ \A p \in Products : Units(r.rows, p) <= stock[p]
    /\ r.customer # Nobody => redeemed <= points[r.customer]
    /\ stock' = [p \in Products |-> stock[p] - Units(r.rows, p)]
    /\ points' = IF r.customer = Nobody THEN points
                 ELSE [points EXCEPT ![r.customer] = @ - redeemed + earned]
    /\ cart' = [cart EXCEPT ![r.cart].status = "paid"]
    /\ nextNumber' = nextNumber + 1
    /\ req' = [req EXCEPT ![s] = Idle]
    /\ UNCHANGED <<nextRow, active, intents, nextIntent, shift>>

\* The commit of a finalisation is such a sale, of right types.
LEMMA FinalizeSells ==
  ASSUME TypeInv, NEW s \in Slots, CommitFinalize(s)
  PROVE  \E r \in FinalizeRequest, receipt \in ReceiptSet, redeemed \in Nat, earned \in Nat :
            Sells(s, r, receipt, redeemed, earned)
<1>0. TypeOK /\ FiniteRows
  BY DEF TypeInv
<1>1. PICK r \in FinalizeRequest : r = req[s]
  BY <1>0, RequestCases DEF CommitFinalize
<1>2. r.op = "finalize" /\ IsFiniteSet(r.rows) /\ r.cart \in Carts
  BY <1>0, <1>1 DEF FiniteRows, FiniteRequest, FinalizeRequest
<1>3. PICK i \in intents : \E receipt \in i.receipts :
          /\ i.id = r.id /\ i.receipts = {receipt}
          /\ \A p \in Products : Units(r.rows, p) <= stock[p]
          /\ r.customer # Nobody => Redeemed(r.cart) <= points[r.customer]
          /\ Post(s, receipt, IF r.customer = Nobody THEN 0 ELSE Redeemed(r.cart),
                  IF r.customer \in active THEN Earned ELSE 0)
  BY <1>1 DEF CommitFinalize
<1>4. PICK receipt \in i.receipts :
          /\ \A p \in Products : Units(r.rows, p) <= stock[p]
          /\ r.customer # Nobody => Redeemed(r.cart) <= points[r.customer]
          /\ Post(s, receipt, IF r.customer = Nobody THEN 0 ELSE Redeemed(r.cart),
                  IF r.customer \in active THEN Earned ELSE 0)
  BY <1>3
<1>5. receipt \in ReceiptSet
  BY <1>0, <1>4 DEF TypeOK, IntentSet
<1> DEFINE redeemed == IF r.customer = Nobody THEN 0 ELSE Redeemed(r.cart)
           earned == IF r.customer \in active THEN Earned ELSE 0
<1>6. redeemed \in Nat /\ earned \in Nat
  <2>1. cart[r.cart].rows \in SUBSET RowSet /\ IsFiniteSet(cart[r.cart].rows)
    BY <1>2, CartRows
  <2>2. Redeemed(r.cart) \in Nat
    BY <2>1, RowSums DEF Redeemed
  <2> QED BY <2>2
<1>7. Post(s, receipt, redeemed, earned) /\ (r.customer # Nobody => redeemed <= points[r.customer])
  BY <1>4
<1> HIDE DEF redeemed, earned
<1>8. /\ invoice[r.cart] = NoInvoice /\ nextNumber' = nextNumber + 1
      /\ req' = [req EXCEPT ![s] = Idle]
      /\ UNCHANGED <<nextRow, active, intents, nextIntent, shift>>
  BY <1>1 DEF CommitFinalize
<1>9. Sells(s, r, receipt, redeemed, earned)
  BY <1>1, <1>2, <1>4, <1>7, <1>8 DEF Sells, Post, Sale
<1> QED BY <1>5, <1>6, <1>9

\* What a sale changes, invoice by invoice and cart by cart.
LEMMA SaleFacts ==
  ASSUME TypeInv, NEW s \in Slots, NEW r \in FinalizeRequest, NEW receipt \in ReceiptSet,
         NEW redeemed \in Nat, NEW earned \in Nat, Sells(s, r, receipt, redeemed, earned)
  PROVE  /\ r.cart \in Carts /\ r.rows \in SUBSET RowSet
         /\ r.customer \in Customers \cup {Nobody} /\ r.total \in Nat
         /\ Sale(r, receipt, redeemed, earned) \in InvoiceSet
         /\ invoice \in [Carts -> InvoiceSet \cup {NoInvoice}]
         /\ \A c \in Carts \ {r.cart} : invoice'[c] = invoice[c]
         /\ r.cart \notin Invoiced /\ Invoiced' = Invoiced \cup {r.cart}
         /\ IsFiniteSet(Invoiced)
         /\ cart'[r.cart] = [cart[r.cart] EXCEPT !.status = "paid"]
         /\ \A c \in Carts \ {r.cart} : cart'[c] = cart[c]
<1>1. /\ r.cart \in Carts /\ r.rows \in SUBSET RowSet
      /\ r.customer \in Customers \cup {Nobody} /\ r.total \in Nat /\ r.due \in Nat
  BY DEF FinalizeRequest
<1> DEFINE sale == Sale(r, receipt, redeemed, earned)
<1>2. receipt.amount \in Nat /\ receipt.method \in Methods
  BY DEF ReceiptSet
<1>3. sale \in InvoiceSet
  <2>1. nextNumber \in Nat
    BY TypeParts DEF StockPart
  <2>2. Less(r.total, receipt.amount) \in Nat
    BY <1>1, <1>2, AmountType
  <2> QED BY <1>1, <1>2, <2>1, <2>2 DEF InvoiceSet, Sale
<1>4. invoice \in [Carts -> InvoiceSet \cup {NoInvoice}]
  BY TypeParts DEF InvoicePart
<1> HIDE DEF sale
<1>5. invoice' = [invoice EXCEPT ![r.cart] = sale] /\ invoice[r.cart] = NoInvoice
  BY DEF Sells, sale
<1>6. sale # NoInvoice
  BY <1>3
<1>7. /\ invoice'[r.cart] = sale /\ \A c \in Carts \ {r.cart} : invoice'[c] = invoice[c]
  BY <1>1, <1>4, <1>5
<1>8. r.cart \notin Invoiced /\ Invoiced' = Invoiced \cup {r.cart}
  BY <1>1, <1>5, <1>6, <1>7 DEF Invoiced
<1>9. IsFiniteSet(Invoiced)
  BY FS_Subset DEF Invoiced
<1>10. cart'[r.cart] = [cart[r.cart] EXCEPT !.status = "paid"]
       /\ \A c \in Carts \ {r.cart} : cart'[c] = cart[c]
  BY <1>1, CartFields DEF Sells, TypeInv
<1> QED BY <1>1, <1>3, <1>4, <1>7, <1>8, <1>9, <1>10 DEF sale

\* The commit of a finalisation keeps the types.
LEMMA CommitFinalizeType ==
  ASSUME TypeInv, NEW s \in Slots, CommitFinalize(s)
  PROVE  TypeInv'
<1>1. PICK r \in FinalizeRequest, receipt \in ReceiptSet, redeemed \in Nat, earned \in Nat :
         Sells(s, r, receipt, redeemed, earned)
  BY FinalizeSells
<1>a. /\ r.cart \in Carts /\ r.rows \in SUBSET RowSet /\ r.customer \in Customers \cup {Nobody}
      /\ Sale(r, receipt, redeemed, earned) \in InvoiceSet
      /\ invoice'[r.cart] = Sale(r, receipt, redeemed, earned)
      /\ \A c \in Carts \ {r.cart} : invoice'[c] = invoice[c]
      /\ Invoiced' = Invoiced \cup {r.cart}
  <2>1. r.cart \in Carts /\ r.rows \in SUBSET RowSet /\ r.customer \in Customers \cup {Nobody}
    BY DEF FinalizeRequest
  <2>2. Sale(r, receipt, redeemed, earned) \in InvoiceSet
    BY <1>1, SaleFacts
  <2>3. invoice'[r.cart] = Sale(r, receipt, redeemed, earned)
    BY <1>1, <2>1, TypeParts DEF Sells, InvoicePart
  <2>4. \A c \in Carts \ {r.cart} : invoice'[c] = invoice[c]
    BY <1>1, SaleFacts
  <2>5. Invoiced' = Invoiced \cup {r.cart}
    BY <1>1, SaleFacts
  <2> QED BY <2>1, <2>2, <2>3, <2>4, <2>5
<1>2. RequestPart' /\ IntentPart' /\ RowIdPart'
  BY <1>1, IdleStep, TypeParts DEF Sells, IntentPart, RowIdPart
<1>3. CartPart'
  <2>1. r.cart \in Carts
    BY <1>1, SaleFacts
  <2> DEFINE new == [cart[r.cart] EXCEPT !.status = "paid"]
  <2>2. cart[r.cart] \in CartState /\ cart \in [Carts -> CartState] /\ IsFiniteSet(cart[r.cart].rows)
    BY <2>1, CartFields, CartRows DEF TypeInv
  <2>3. new \in CartState /\ IsFiniteSet(new.rows)
    BY <2>2 DEF CartState, Statuses
  <2>4. cart' = [cart EXCEPT ![r.cart] = new]
    BY <1>1, <2>1, <2>2 DEF Sells
  <2> HIDE DEF new
  <2> QED BY <2>1, <2>3, <2>4, CartWrite, TypeParts
<1>4. InvoicePart'
  <2> DEFINE sale == Sale(r, receipt, redeemed, earned)
  <2>1. /\ r.cart \in Carts /\ sale \in InvoiceSet /\ Invoiced' = Invoiced \cup {r.cart}
        /\ invoice'[r.cart] = sale /\ \A c \in Carts \ {r.cart} : invoice'[c] = invoice[c]
    BY <1>a
  <2>2. IsFiniteSet(sale.rows)
    BY <1>1 DEF Sells, Sale
  <2> HIDE DEF sale
  <2>3. invoice' = [invoice EXCEPT ![r.cart] = sale]
    BY <1>1 DEF Sells, sale
  <2>4. invoice' \in [Carts -> InvoiceSet \cup {NoInvoice}]
    BY <2>1, <2>3, TypeParts DEF InvoicePart
  <2>5. \A c \in Invoiced' : IsFiniteSet(invoice'[c].rows)
    BY <2>1, <2>2, TypeParts DEF InvoicePart, Invoiced
  <2> QED BY <2>4, <2>5 DEF InvoicePart
<1>5. StockPart'
  <2>1. receipt.amount \in Nat
    BY DEF ReceiptSet
  <2>2. r.rows \in SUBSET RowSet /\ IsFiniteSet(r.rows)
    BY <1>1, <1>a DEF Sells
  <2>3. \A p \in Products : stock[p] \in Nat /\ Units(r.rows, p) \in Nat
    BY <2>2, UnitsType, TypeParts DEF StockPart
  <2>4. \A p \in Products : Units(r.rows, p) <= stock[p]
    BY <1>1 DEF Sells
  <2>5. \A p \in Products : stock[p] - Units(r.rows, p) \in Nat
    BY <2>3, <2>4
  <2>6. stock' \in [Products -> Nat]
    BY <1>1, <2>5 DEF Sells
  <2>7. nextNumber' \in Nat /\ drawer' \in Nat /\ shift' \in {"open", "closed"}
    BY <1>1, <2>1, TypeParts DEF Sells, StockPart
  <2> QED BY <2>6, <2>7 DEF StockPart
<1>6. CustomerPart'
  <2>1. points \in [Customers -> Int] /\ active \subseteq Customers /\ active' = active
    BY <1>1, TypeParts DEF Sells, CustomerPart
  <2>2. CASE r.customer = Nobody
    BY <1>1, <2>1, <2>2 DEF Sells, CustomerPart
  <2>3. CASE r.customer \in Customers
    <3>1. points' = [points EXCEPT ![r.customer] = @ - redeemed + earned]
      BY <1>1, <2>3 DEF Sells
    <3>2. points[r.customer] - redeemed + earned \in Int
      BY <2>1, <2>3
    <3> QED BY <2>1, <3>1, <3>2 DEF CustomerPart
  <2> QED BY <1>a, <2>2, <2>3
<1> QED BY <1>2, <1>3, <1>4, <1>5, <1>6, TypeParts

\* A row or a discount keeps the types: what a cashier may begin on a cart.
LEMMA BeginCartType ==
  ASSUME TypeInv, NEW s \in Slots, NEW c \in Carts, BeginCart(s, c), UNCHANGED payVars
  PROVE  TypeInv'
<1>1. CartTypeOK
  BY DEF TypeInv, TypeOK
<1>2. ASSUME NEW amount \in FlatAmounts, ApplyFlatDiscount(s, c, amount) PROVE TypeInv'
  <2>1. "flat" \in Discounts /\ amount \in Nat \ {0} /\ Discount(s, c, "flat", amount)
    BY <1>2 DEF Discounts, ApplyFlatDiscount
  <2> QED BY <2>1, DiscountType
<1>3. ASSUME NEW value \in CodeAmounts, ApplyDiscount(s, c, value) PROVE TypeInv'
  <2> DEFINE net == Net(cart[c].rows)
             n == IF value < net THEN value ELSE net
  <2>1. cart[c].rows \in SUBSET RowSet /\ IsFiniteSet(cart[c].rows)
    BY CartRows
  <2>2. net \in Nat
    BY <2>1, RowSums
  <2>3. Discount(s, c, "code", n)
    BY <1>3 DEF ApplyDiscount
  <2>4. net > 0
    BY <2>3 DEF Discount
  <2> HIDE DEF net
  <2>5. "code" \in Discounts /\ n \in Nat \ {0}
    BY <2>2, <2>4 DEF Discounts
  <2> HIDE DEF n
  <2> QED BY <2>3, <2>5, DiscountType
<1>4. ASSUME NEW pts \in PointAmounts, ApplyLoyaltyDiscount(s, c, pts) PROVE TypeInv'
  <2>1. "points" \in Discounts /\ pts \in Nat \ {0} /\ Discount(s, c, "points", pts)
    BY <1>4 DEF Discounts, ApplyLoyaltyDiscount
  <2> QED BY <2>1, DiscountType
<1> QED BY <1>2, <1>3, <1>4, UpsertType, BeginOtherType DEF BeginCart

\* The types are those of the start,
LEMMA InitType == Init => TypeInv
<1> SUFFICES ASSUME Init PROVE TypeInv
  OBVIOUS
<1>1. CartPart
  BY FS_EmptySet DEF Init, CartInit, CartPart, CartState, Statuses
<1>2. RequestPart
  BY DEF Init, CartInit, RequestPart, Requests, CartRequests, Idle, FiniteRequest
<1>3. IntentPart /\ InvoicePart /\ StockPart /\ CustomerPart /\ RowIdPart
  BY DEF Init, CartInit, IntentPart, InvoicePart, Invoiced, StockPart, CustomerPart, RowIdPart
<1> QED BY <1>1, <1>2, <1>3, TypeParts

\* and every step keeps them.
LEMMA NextType ==
  ASSUME TypeInv, [Next]_vars
  PROVE  TypeInv'
<1>1. CASE UNCHANGED vars
  BY <1>1, TypeParts DEF vars, cartVars, payVars, CartPart, RequestPart, IntentPart, InvoicePart,
     Invoiced, StockPart, CustomerPart, RowIdPart
<1>2. CASE CartStep /\ UNCHANGED payVars
  BY <1>2, BeginCartType, FlushType, CommitEditType, OtherCartType DEF CartStep, FinishCart
<1>3. ASSUME NEW s \in Slots, FinishPayment(s) PROVE TypeInv'
  BY <1>3, CommitIntentType, CommitFinalizeType DEF FinishPayment
<1>4. CASE CloseShift
  BY <1>4, TypeParts DEF CloseShift, cartVars, CartPart, RequestPart, IntentPart, InvoicePart,
     Invoiced, StockPart, CustomerPart, RowIdPart
<1> QED BY <1>1, <1>2, <1>3, <1>4, BeginPaymentType DEF Next

\* Types are right, whatever requests overlap.
THEOREM TypeCorrect == Spec => []TypeOK
<1>1. TypeInv /\ [Next]_vars => TypeInv'
  BY NextType
<1>2. TypeInv => TypeOK
  BY DEF TypeInv
<1> QED BY <1>1, <1>2, InitType, PTL DEF Spec

-----------------------------------------------------------------------------
(* Requests that may overlap: payments, numbers and books *)

\* Only the commits about a payment change it, or what a sale moves.
LEMMA PaymentSteps ==
  ASSUME [Next]_vars
  PROVE  \/ UNCHANGED <<intents, invoice, nextNumber, drawer, stock, points>>
         \/ \E s \in Slots : CommitIntent(s) \/ CommitCapture(s) \/ CommitFinalize(s)
<1> DEFINE Same == UNCHANGED <<intents, invoice, nextNumber, drawer, stock, points>>
<1>1. CASE UNCHANGED vars
  BY <1>1 DEF vars, cartVars, payVars
<1>2. CASE CartStep /\ UNCHANGED payVars
  <2>1. UNCHANGED points
    <3>1. ASSUME NEW s \in Slots, NEW c \in Carts, BeginCart(s, c) PROVE UNCHANGED points
      BY <3>1 DEF BeginCart, UpsertLine, ApplyFlatDiscount, ApplyDiscount, ApplyLoyaltyDiscount,
         Discount, ChangeState, PatchCustomer
    <3>2. ASSUME NEW s \in Slots, FinishCart(s) \/ Fail(s) PROVE UNCHANGED points
      BY <3>2 DEF FinishCart, Flush, CommitEdit, CommitState, CommitCustomer, Fail
    <3>3. ASSUME NEW c, NEW k, CreateCart(c, k) \/ SetAccountStatus(k) PROVE UNCHANGED points
      BY <3>3 DEF CreateCart, SetAccountStatus
    <3> QED BY <1>2, <3>1, <3>2, <3>3 DEF CartStep
  <2> QED BY <1>2, <2>1 DEF payVars
<1>3. ASSUME NEW s \in Slots, NEW c \in Carts, BeginPayment(s, c) PROVE Same
  BY <1>3 DEF BeginPayment, CreateIntent, Capture, Finalize, payVars
<1>4. CASE CloseShift
  BY <1>4 DEF CloseShift, cartVars
<1> QED BY <1>1, <1>2, <1>3, <1>4 DEF Next, FinishPayment

\* The completed payments of a cart are one and the same.
OnePayment ==
    \A i, j \in intents : i.cart = j.cart /\ i.status = "succeeded" /\ j.status = "succeeded"
                             => i = j

\* That is what OneCompletedPayment counts.
LEMMA OnePaymentCounted ==
  ASSUME OnePayment
  PROVE  OneCompletedPayment
<1> SUFFICES ASSUME NEW c \in Carts PROVE Cardinality(Succeeded(c)) <= 1
  BY DEF OneCompletedPayment
<1>1. CASE Succeeded(c) = {}
  BY <1>1, FS_EmptySet
<1>2. CASE Succeeded(c) # {}
  <2>1. PICK i : i \in Succeeded(c)
    BY <1>2
  <2>2. Succeeded(c) = {i}
    BY <2>1 DEF OnePayment, Succeeded, OfCart
  <2>3. Cardinality({i}) = 1
    BY FS_Singleton
  <2> QED BY <2>2, <2>3
<1> QED BY <1>1, <1>2

\* A commit about a payment keeps it the only completed one.
LEMMA PaymentStep ==
  ASSUME TypeInv, OnePayment, [Next]_vars
  PROVE  OnePayment'
<1>1. CASE UNCHANGED intents
  BY <1>1 DEF OnePayment
<1>2. ASSUME NEW s \in Slots, CommitIntent(s) PROVE OnePayment'
  BY <1>2 DEF OnePayment, CommitIntent
<1>3. ASSUME NEW s \in Slots, CommitCapture(s) PROVE OnePayment'
  <2>1. PICK r : r = req[s]
    OBVIOUS
  <2>2. PICK i \in intents :
          /\ Succeeded(i.cart) \subseteq {i}
          /\ intents' = (intents \ {i}) \cup
                {[i EXCEPT !.status = "succeeded", !.receipts = @ \cup {r.receipt}]}
    BY <1>3, <2>1 DEF CommitCapture
  <2> DEFINE new == [i EXCEPT !.status = "succeeded", !.receipts = @ \cup {r.receipt}]
  <2>3. new.cart = i.cart
    BY DEF TypeInv, TypeOK, IntentSet
  <2>4. intents' = (intents \ {i}) \cup {new}
    BY <2>2
  <2> HIDE DEF new
  <2>5. ASSUME NEW j \in intents \ {i}, j.cart = i.cart PROVE j.status # "succeeded"
    BY <2>2, <2>5 DEF Succeeded, OfCart
  <2> QED BY <2>3, <2>4, <2>5 DEF OnePayment
<1>4. ASSUME NEW s \in Slots, CommitFinalize(s) PROVE UNCHANGED intents
  BY <1>4 DEF CommitFinalize
<1> QED BY <1>1, <1>2, <1>3, <1>4, PaymentSteps

\* A cart is paid once: of two captures of its intents that overlap, one is
\* refused by the unique index on cart and status (app/services/payment_service.py).
THEOREM PaidOnce == Spec => []OneCompletedPayment
<1>1. Init => TypeInv /\ OnePayment
  BY InitType DEF Init, OnePayment
<1>2. TypeInv /\ OnePayment /\ [Next]_vars => TypeInv' /\ OnePayment'
  BY NextType, PaymentStep
<1>3. OnePayment => OneCompletedPayment
  BY OnePaymentCounted
<1> QED BY <1>1, <1>2, <1>3, PTL DEF Spec

\* Numbers at the start,
LEMMA InitNumbers == Init => NumbersDense
<1> SUFFICES ASSUME Init PROVE NumbersDense
  OBVIOUS
<1>1. Invoiced = {} /\ nextNumber = 1
  BY DEF Init, Invoiced
<1>2. 1..(nextNumber - 1) = {}
  BY <1>1
<1> QED BY <1>1, <1>2, FS_EmptySet DEF NumbersDense

\* and after a step: a sale takes the next number, in one transaction with
\* the sale itself.
LEMMA NumbersStep ==
  ASSUME TypeInv, NumbersDense, [Next]_vars, UNCHANGED invoice => UNCHANGED nextNumber
  PROVE  NumbersDense'
<1>1. CASE UNCHANGED invoice
  BY <1>1 DEF NumbersDense, Invoiced
<1>2. ASSUME NEW s \in Slots, CommitFinalize(s) PROVE NumbersDense'
  <2>1. PICK r \in FinalizeRequest, receipt \in ReceiptSet, redeemed \in Nat, earned \in Nat :
           Sells(s, r, receipt, redeemed, earned)
    BY <1>2, FinalizeSells
  <2> DEFINE c == r.cart
  <2>2. /\ c \notin Invoiced /\ Invoiced' = Invoiced \cup {c} /\ IsFiniteSet(Invoiced)
        /\ \A d \in Carts \ {c} : invoice'[d] = invoice[d]
    BY <2>1, SaleFacts
  <2>3. c \in Carts /\ invoice \in [Carts -> InvoiceSet \cup {NoInvoice}]
    BY TypeParts DEF FinalizeRequest, InvoicePart
  <2>4. invoice'[c] = Sale(r, receipt, redeemed, earned) /\ nextNumber' = nextNumber + 1
    BY <2>1, <2>3 DEF Sells
  <2>5. invoice'[c].number = nextNumber
    BY <2>4 DEF Sale
  <2> HIDE DEF c
  <2>6. Cardinality(Invoiced) = nextNumber - 1 /\ nextNumber \in Nat
        /\ Cardinality(Invoiced) \in Nat
    BY <2>2, FS_CardinalityType, TypeParts DEF NumbersDense, StockPart
  <2>7. Cardinality(Invoiced') = nextNumber' - 1
    <3>1. Cardinality(Invoiced \cup {c}) = Cardinality(Invoiced) + 1
      BY <2>2, FS_AddElement
    <3> QED BY <2>2, <2>4, <2>6, <3>1
  <2>8. {invoice'[d].number : d \in Invoiced'} = 1..(nextNumber' - 1)
    <3>1. \A d \in Invoiced : invoice'[d].number = invoice[d].number
      BY <2>2 DEF Invoiced
    <3>2. {invoice'[d].number : d \in Invoiced'}
             = {invoice[d].number : d \in Invoiced} \cup {nextNumber}
      BY <2>2, <2>5, <3>1
    <3>3. 1..(nextNumber' - 1) = 1..(nextNumber - 1) \cup {nextNumber}
      <4>1. nextNumber >= 1 /\ nextNumber' - 1 = nextNumber
        BY <2>4, <2>6
      <4>2. \A k : k \in 1..nextNumber <=> k \in 1..(nextNumber - 1) \cup {nextNumber}
        BY <2>6, <4>1
      <4> QED BY <4>1, <4>2
    <3> QED BY <3>2, <3>3 DEF NumbersDense
  <2> QED BY <2>7, <2>8 DEF NumbersDense
<1>3. ASSUME NEW s \in Slots, CommitIntent(s) \/ CommitCapture(s) PROVE UNCHANGED invoice
  BY <1>3 DEF CommitIntent, CommitCapture
<1> QED BY <1>1, <1>2, <1>3, PaymentSteps

\* A number is taken only by a sale.
LEMMA NumberTaken ==
  ASSUME TypeInv, [Next]_vars, UNCHANGED invoice
  PROVE  UNCHANGED nextNumber
<1>1. ASSUME NEW s \in Slots, CommitFinalize(s) PROVE FALSE
  <2>1. PICK r \in FinalizeRequest, receipt \in ReceiptSet, redeemed \in Nat, earned \in Nat :
           Sells(s, r, receipt, redeemed, earned)
    BY <1>1, FinalizeSells
  <2>2. r.cart \notin Invoiced /\ Invoiced' = Invoiced \cup {r.cart}
    BY <2>1, SaleFacts
  <2> QED BY <2>2 DEF Invoiced
<1>2. ASSUME NEW s \in Slots, CommitIntent(s) \/ CommitCapture(s) PROVE UNCHANGED nextNumber
  BY <1>2 DEF CommitIntent, CommitCapture
<1>3. CASE UNCHANGED <<intents, invoice, nextNumber, drawer, stock, points>>
  BY <1>3
<1> QED BY <1>1, <1>2, <1>3, PaymentSteps

\* Invoice numbers are dense and unique, whatever finalisations overlap or
\* fail (app/services/invoice_service.py takes them under the sequence's lock).
THEOREM NumbersAreDense == Spec => []NumbersDense
<1>1. TypeInv /\ NumbersDense /\ [Next]_vars => TypeInv' /\ NumbersDense'
  BY NextType, NumbersStep, NumberTaken
<1> QED BY <1>1, InitType, InitNumbers, PTL DEF Spec

-----------------------------------------------------------------------------
(* The books of the sales *)

\* A sum with at most one element more.
LEMMA SumWithOne ==
  ASSUME NEW S, IsFiniteSet(S), NEW x, x \notin S, NEW T, T = S \/ T = S \cup {x},
         NEW f \in [S -> Int], NEW g \in [T -> Int], \A e \in S : g[e] = f[e]
  PROVE  /\ SumFunction(f) \in Int
         /\ x \in T => SumFunction(g) = SumFunction(f) + g[x]
         /\ x \notin T => SumFunction(g) = SumFunction(f)
<1>1. SumFunction(f) \in Int
  BY FunSumType
<1>2. DOMAIN f = S /\ DOMAIN g = T /\ \A e \in S : f[e] \in Int /\ g[e] = f[e]
  OBVIOUS
<1>3. CASE T = S
  BY <1>1, <1>2, <1>3, FunSumSame
<1>4. CASE T = S \cup {x}
  <2>1. g[x] \in Int
    BY <1>4
  <2> QED BY <1>1, <1>2, <1>4, <2>1, FunSumIn
<1> QED BY <1>3, <1>4

\* The books are empty at the start,
LEMMA InitBooks == Init => BooksAgree
<1> SUFFICES ASSUME Init PROVE BooksAgree
  OBVIOUS
<1>1. Invoiced = {}
  BY DEF Init, Invoiced
<1>2. drawer = SumFunction([c \in {c \in Invoiced : invoice[c].method = "cash"} |-> invoice[c].paid])
  <2> DEFINE f == [c \in {c \in Invoiced : invoice[c].method = "cash"} |-> invoice[c].paid]
  <2>1. DOMAIN f = {}
    BY <1>1
  <2> HIDE DEF f
  <2>2. SumFunction(f) = 0
    BY <2>1, FunSumOfNone
  <2> QED BY <2>2 DEF f, Init
<1>3. ASSUME NEW p \in Products
      PROVE  stock[p] = Opening - SumFunction([c \in Invoiced |-> Units(invoice[c].rows, p)])
  <2> DEFINE f == [c \in Invoiced |-> Units(invoice[c].rows, p)]
  <2>1. DOMAIN f = {}
    BY <1>1
  <2> HIDE DEF f
  <2>2. SumFunction(f) = 0
    BY <2>1, FunSumOfNone
  <2>3. stock[p] = Opening - SumFunction(f)
    BY <2>2 DEF Init
  <2> QED BY <2>3 DEF f
<1>4. ASSUME NEW k \in Customers
      PROVE  points[k] = Earned + SumFunction([c \in {c \in Invoiced : invoice[c].customer = k}
                                                 |-> invoice[c].earned - invoice[c].debited])
  <2> DEFINE f == [c \in {c \in Invoiced : invoice[c].customer = k}
                     |-> invoice[c].earned - invoice[c].debited]
  <2>1. DOMAIN f = {}
    BY <1>1
  <2> HIDE DEF f
  <2>2. SumFunction(f) = 0
    BY <2>1, FunSumOfNone
  <2>3. points[k] = Earned + SumFunction(f)
    BY <2>2 DEF Init
  <2> QED BY <2>3 DEF f
<1> QED BY <1>2, <1>3, <1>4 DEF BooksAgree

\* an invoice's figures are naturals,
LEMMA InvoiceFigures ==
  ASSUME TypeInv, NEW c \in Invoiced
  PROVE  /\ invoice[c] \in InvoiceSet
         /\ invoice[c].paid \in Nat /\ invoice[c].earned - invoice[c].debited \in Int
         /\ invoice[c].rows \in SUBSET RowSet /\ IsFiniteSet(invoice[c].rows)
         /\ \A p : Units(invoice[c].rows, p) \in Nat
<1>1. invoice[c] \in InvoiceSet /\ IsFiniteSet(invoice[c].rows)
  BY TypeParts DEF InvoicePart, Invoiced
<1>2. /\ invoice[c].paid \in Nat /\ invoice[c].earned \in Nat /\ invoice[c].debited \in Nat
      /\ invoice[c].rows \in SUBSET RowSet
  BY <1>1 DEF InvoiceSet
<1>3. \A p : Units(invoice[c].rows, p) \in Nat
  BY <1>1, <1>2, UnitsType
<1> QED BY <1>1, <1>2, <1>3

\* and a sale enters each book once.
LEMMA BooksSale ==
  ASSUME TypeInv, BooksAgree, NEW s \in Slots, CommitFinalize(s)
  PROVE  BooksAgree'
<1>1. PICK r \in FinalizeRequest, receipt \in ReceiptSet, redeemed \in Nat, earned \in Nat :
         Sells(s, r, receipt, redeemed, earned)
  BY FinalizeSells
<1>2. PICK c \in Carts : c = r.cart
  BY DEF FinalizeRequest
<1> DEFINE S == Invoiced
           T == Invoiced'
           sale == Sale(r, receipt, redeemed, earned)
<1>3. /\ c \notin S /\ T = S \cup {c} /\ IsFiniteSet(S)
      /\ \A d \in Carts \ {c} : invoice'[d] = invoice[d]
  BY <1>1, <1>2, SaleFacts
<1>4. invoice \in [Carts -> InvoiceSet \cup {NoInvoice}] /\ S \subseteq Carts
  BY TypeParts DEF InvoicePart, Invoiced
<1>5. invoice'[c] = sale
  BY <1>1, <1>2, <1>4 DEF Sells
<1>6. /\ sale.paid = receipt.amount /\ sale.method = receipt.method /\ sale.rows = r.rows
      /\ sale.customer = r.customer /\ sale.earned = earned /\ sale.debited = redeemed
  BY DEF Sale
<1>7. /\ receipt.amount \in Nat /\ r.rows \in SUBSET RowSet /\ IsFiniteSet(r.rows)
      /\ r.customer \in Customers \cup {Nobody}
  BY <1>1 DEF ReceiptSet, FinalizeRequest, Sells
<1> HIDE DEF sale
<1>8. \A d \in S : invoice'[d] = invoice[d]
  BY <1>3, <1>4
<1>9. drawer' = SumFunction([d \in {d \in T : invoice'[d].method = "cash"} |-> invoice'[d].paid])
  <2> DEFINE S1 == {d \in S : invoice[d].method = "cash"}
             T1 == {d \in T : invoice'[d].method = "cash"}
             f == [d \in S1 |-> invoice[d].paid]
             g == [d \in T1 |-> invoice'[d].paid]
  <2>1. /\ c \notin S1 /\ T1 = IF receipt.method = "cash" THEN S1 \cup {c} ELSE S1
        /\ S1 \subseteq S
    BY <1>3, <1>5, <1>6, <1>8
  <2>2. IsFiniteSet(S1)
    BY <1>3, FS_Subset
  <2>3. f \in [S1 -> Int]
    BY InvoiceFigures
  <2>4. \A d \in S1 : d \in T1 /\ g[d] = f[d]
    BY <1>8, <2>1
  <2>5. c \in T1 => g[c] = receipt.amount
    BY <1>5, <1>6
  <2>6. g \in [T1 -> Int]
    <3>1. \A d \in T1 : invoice'[d].paid \in Int
      <4>1. \A d \in S1 : invoice'[d].paid \in Int
        BY <1>8, <2>1, InvoiceFigures
      <4>2. invoice'[c].paid \in Int
        BY <1>5, <1>6, <1>7
      <4> QED BY <2>1, <4>1, <4>2
    <3> QED BY <3>1
  <2>7. drawer = SumFunction(f)
    BY DEF BooksAgree
  <2>8. drawer' = IF receipt.method = "cash" THEN drawer + receipt.amount ELSE drawer
    BY <1>1 DEF Sells
  <2> HIDE DEF S1, T1, f, g
  <2>9. /\ SumFunction(f) \in Int
        /\ c \in T1 => SumFunction(g) = SumFunction(f) + g[c]
        /\ c \notin T1 => SumFunction(g) = SumFunction(f)
    BY <2>1, <2>2, <2>3, <2>4, <2>6, SumWithOne
  <2>10. drawer' = SumFunction(g)
    BY <2>1, <2>5, <2>7, <2>8, <2>9
  <2> QED BY <2>10 DEF g, T1
<1>10. ASSUME NEW p \in Products
       PROVE  stock'[p] = Opening - SumFunction([d \in T |-> Units(invoice'[d].rows, p)])
  <2> DEFINE f == [d \in S |-> Units(invoice[d].rows, p)]
             g == [d \in T |-> Units(invoice'[d].rows, p)]
  <2>1. Units(r.rows, p) \in Nat
    BY <1>7, UnitsType
  <2>2. f \in [S -> Int]
    BY InvoiceFigures
  <2>3. \A d \in S : g[d] = f[d]
    BY <1>3, <1>8
  <2>4. g[c] = Units(r.rows, p)
    BY <1>3, <1>5, <1>6
  <2>5. g \in [T -> Int]
    <3>1. \A d \in S : Units(invoice'[d].rows, p) \in Int
      BY <1>8, InvoiceFigures
    <3>2. Units(invoice'[c].rows, p) \in Int
      BY <1>5, <1>6, <2>1
    <3> QED BY <1>3, <3>1, <3>2
  <2>6. stock[p] = Opening - SumFunction(f)
    BY DEF BooksAgree
  <2>7. stock'[p] = stock[p] - Units(r.rows, p)
    BY <1>1 DEF Sells
  <2> HIDE DEF S, T, f, g
  <2>8. SumFunction(f) \in Int /\ SumFunction(g) = SumFunction(f) + g[c]
    BY <1>3, <2>2, <2>3, <2>5, SumWithOne
  <2>9. stock'[p] = Opening - SumFunction(g)
    BY <2>1, <2>4, <2>6, <2>7, <2>8
  <2> QED BY <2>9 DEF g, T
<1>11. ASSUME NEW k \in Customers
       PROVE  points'[k] = Earned + SumFunction([d \in {d \in T : invoice'[d].customer = k}
                                                   |-> invoice'[d].earned - invoice'[d].debited])
  <2> DEFINE S1 == {d \in S : invoice[d].customer = k}
             T1 == {d \in T : invoice'[d].customer = k}
             f == [d \in S1 |-> invoice[d].earned - invoice[d].debited]
             g == [d \in T1 |-> invoice'[d].earned - invoice'[d].debited]
  <2>1. /\ c \notin S1 /\ T1 = IF r.customer = k THEN S1 \cup {c} ELSE S1
        /\ S1 \subseteq S
    BY <1>3, <1>5, <1>6, <1>8
  <2>2. IsFiniteSet(S1)
    BY <1>3, FS_Subset
  <2>3. f \in [S1 -> Int]
    BY InvoiceFigures
  <2>4. \A d \in S1 : d \in T1 /\ g[d] = f[d]
    BY <1>8, <2>1
  <2>5. c \in T1 => g[c] = earned - redeemed
    BY <1>5, <1>6
  <2>6. g \in [T1 -> Int]
    <3>1. \A d \in T1 : invoice'[d].earned - invoice'[d].debited \in Int
      <4>1. \A d \in S1 : invoice'[d].earned - invoice'[d].debited \in Int
        BY <1>8, <2>1, InvoiceFigures
      <4>2. invoice'[c].earned - invoice'[c].debited \in Int
        BY <1>5, <1>6
      <4> QED BY <2>1, <4>1, <4>2
    <3> QED BY <3>1
  <2>7. points[k] = Earned + SumFunction(f)
    BY DEF BooksAgree
  <2>8. points'[k] = IF r.customer = k THEN points[k] - redeemed + earned ELSE points[k]
    <3>1. points \in [Customers -> Int]
      BY TypeParts DEF CustomerPart
    <3>2. k # Nobody
      OBVIOUS
    <3>3. points' = IF r.customer = Nobody THEN points
                    ELSE [points EXCEPT ![r.customer] = @ - redeemed + earned]
      BY <1>1 DEF Sells
    <3> QED BY <1>7, <3>1, <3>2, <3>3
  <2> HIDE DEF S1, T1, f, g
  <2>9. /\ SumFunction(f) \in Int
        /\ c \in T1 => SumFunction(g) = SumFunction(f) + g[c]
        /\ c \notin T1 => SumFunction(g) = SumFunction(f)
    BY <2>1, <2>2, <2>3, <2>4, <2>6, SumWithOne
  <2>10. points'[k] = Earned + SumFunction(g)
    <3>1. points[k] \in Int
      BY TypeParts DEF CustomerPart
    <3> QED BY <2>1, <2>5, <2>7, <2>8, <2>9, <3>1
  <2> QED BY <2>10 DEF g, T1
<1> QED BY <1>9, <1>10, <1>11 DEF BooksAgree

\* Drawer, stock and loyalty balances are the sums over the invoices, whatever
\* finalisations of a cart overlap (app/services/invoice_service.py).
THEOREM BooksAlwaysAgree == Spec => []BooksAgree
<1>1. TypeInv /\ BooksAgree /\ [Next]_vars => TypeInv' /\ BooksAgree'
  <2> SUFFICES ASSUME TypeInv, BooksAgree, [Next]_vars PROVE TypeInv' /\ BooksAgree'
    OBVIOUS
  <2>1. TypeInv'
    BY NextType
  <2>2. ASSUME UNCHANGED <<invoice, drawer, stock, points>> PROVE BooksAgree'
    BY <2>2 DEF BooksAgree, Invoiced
  <2>3. ASSUME NEW s \in Slots, CommitIntent(s) \/ CommitCapture(s)
        PROVE  UNCHANGED <<invoice, drawer, stock, points>>
    BY <2>3 DEF CommitIntent, CommitCapture
  <2>4. \/ UNCHANGED <<invoice, drawer, stock, points>>
        \/ \E s \in Slots : CommitFinalize(s)
    BY <2>3, PaymentSteps
  <2>5. BooksAgree'
    BY <2>2, <2>4, BooksSale
  <2> QED BY <2>1, <2>5
<1> QED BY <1>1, InitType, InitBooks, PTL DEF Spec

-----------------------------------------------------------------------------
(* The abstract sale *)

\* The sales of AtomicSale, and what a finalisation adds to them.
SalesMade == [c \in Carts |-> IF invoice[c] = NoInvoice THEN {} ELSE {SaleOf(invoice[c])}]

\* The numbers of the sales are those of the invoices.
LEMMA NumbersInUse == Abstract!Numbers = {invoice[c].number : c \in Invoiced}
<1>1. \A c \in Invoiced : SalesMade[c] = {SaleOf(invoice[c])}
  BY DEF SalesMade, Invoiced
<1>2. \A c \in Carts \ Invoiced : SalesMade[c] = {}
  BY DEF SalesMade, Invoiced
<1>3. UNION {SalesMade[c] : c \in Carts} = {SaleOf(invoice[c]) : c \in Invoiced}
  BY <1>1, <1>2 DEF Invoiced
<1>4. \A c : SaleOf(invoice[c]).number = invoice[c].number
  BY DEF SaleOf
<1>5. Abstract!Numbers = {sale.number : sale \in UNION {SalesMade[c] : c \in Carts}}
  BY DEF Abstract!Numbers, SalesMade
<1> QED BY <1>3, <1>4, <1>5

\* What an invoice moved, and its type.
LEMMA SaleMoves ==
  ASSUME TypeInv, NEW r \in FinalizeRequest, IsFiniteSet(r.rows), NEW receipt \in ReceiptSet,
         NEW redeemed \in Nat, NEW earned \in Nat, NEW sale, nextNumber # 0,
         sale = SaleOf(Sale(r, receipt, redeemed, earned))
  PROVE  /\ sale \in Abstract!Sale
         /\ sale.number = nextNumber
         /\ sale.cash = IF receipt.method = "cash" THEN receipt.amount ELSE 0
         /\ sale.units = [p \in Products |-> Units(r.rows, p)]
         /\ sale.customer = r.customer /\ sale.debited = redeemed /\ sale.earned = earned
<1>1. /\ sale.number = nextNumber
      /\ sale.cash = IF receipt.method = "cash" THEN receipt.amount ELSE 0
      /\ sale.units = [p \in Products |-> Units(r.rows, p)]
      /\ sale.customer = r.customer /\ sale.debited = redeemed /\ sale.earned = earned
  BY DEF SaleOf, Sale
<1>2. /\ nextNumber \in Nat /\ receipt.amount \in Nat
      /\ r.rows \in SUBSET RowSet /\ r.customer \in Customers \cup {Nobody}
  BY TypeParts DEF StockPart, ReceiptSet, FinalizeRequest
<1>3. \A p \in Products : Units(r.rows, p) \in Nat
  BY <1>2, UnitsType
<1>4. sale.units \in [Products -> Nat] /\ sale.cash \in Nat
  BY <1>1, <1>2, <1>3
<1>5. sale = [number |-> sale.number, cash |-> sale.cash, units |-> sale.units,
              customer |-> sale.customer, debited |-> sale.debited, earned |-> sale.earned]
  BY DEF SaleOf
<1> QED BY <1>1, <1>2, <1>4, <1>5 DEF Abstract!Sale

\* The commit of a finalisation is a step of AtomicSale.
LEMMA FinalizeIsSale ==
  ASSUME TypeInv, NumbersDense, NEW s \in Slots, CommitFinalize(s)
  PROVE  Abstract!Next
<1>1. PICK r \in FinalizeRequest, receipt \in ReceiptSet, redeemed \in Nat, earned \in Nat :
         Sells(s, r, receipt, redeemed, earned)
  BY FinalizeSells
<1>2. PICK sale : sale = SaleOf(Sale(r, receipt, redeemed, earned))
  OBVIOUS
<1>3. PICK c \in Carts : c = r.cart
  BY DEF FinalizeRequest
<1>4. IsFiniteSet(r.rows)
  BY <1>1 DEF Sells
<1>5. /\ sale \in Abstract!Sale
      /\ sale.number = nextNumber
      /\ sale.cash = IF receipt.method = "cash" THEN receipt.amount ELSE 0
      /\ sale.units = [p \in Products |-> Units(r.rows, p)]
      /\ sale.customer = r.customer /\ sale.debited = redeemed /\ sale.earned = earned
  <2>1. nextNumber # 0
    <3>1. IsFiniteSet(Invoiced) /\ nextNumber \in Nat
      BY <1>1, SaleFacts, TypeParts DEF StockPart
    <3>2. Cardinality(Invoiced) \in Nat /\ Cardinality(Invoiced) = nextNumber - 1
      BY <3>1, FS_CardinalityType DEF NumbersDense
    <3> QED BY <3>1, <3>2
  <2> QED BY <1>2, <1>4, <2>1, SaleMoves
<1>6. SalesMade' = [SalesMade EXCEPT ![c] = {sale}]
  <2>1. /\ invoice'[c] = Sale(r, receipt, redeemed, earned) /\ invoice'[c] # NoInvoice
        /\ \A d \in Carts \ {c} : invoice'[d] = invoice[d]
    <3>1. /\ Sale(r, receipt, redeemed, earned) \in InvoiceSet
          /\ invoice \in [Carts -> InvoiceSet \cup {NoInvoice}]
          /\ \A d \in Carts \ {c} : invoice'[d] = invoice[d]
      BY <1>1, <1>3, SaleFacts
    <3>2. invoice' = [invoice EXCEPT ![c] = Sale(r, receipt, redeemed, earned)]
      BY <1>1, <1>3 DEF Sells
    <3>3. invoice'[c] = Sale(r, receipt, redeemed, earned)
      BY <3>1, <3>2
    <3> QED BY <3>1, <3>3
  <2>2. SalesMade'[c] = {sale} /\ \A d \in Carts \ {c} : SalesMade'[d] = SalesMade[d]
    BY <1>2, <2>1 DEF SalesMade
  <2>3. SalesMade = [d \in Carts |-> SalesMade[d]] /\ SalesMade' = [d \in Carts |-> SalesMade'[d]]
    BY DEF SalesMade
  <2> HIDE DEF SalesMade
  <2> QED BY <2>2, <2>3
<1>7. SalesMade[c] = {} /\ Abstract!Numbers = 1..(sale.number - 1)
  <2>1. c \notin Invoiced
    BY <1>1, <1>3, SaleFacts
  <2>2. SalesMade[c] = {}
    BY <2>1 DEF SalesMade, Invoiced
  <2>3. Abstract!Numbers = 1..(nextNumber - 1)
    BY NumbersInUse DEF NumbersDense
  <2> QED BY <1>5, <2>2, <2>3
<1>8. Abstract!Covered(sale)
  <2>1. \A p \in Products : sale.units[p] <= stock[p]
    BY <1>1, <1>5 DEF Sells
  <2>2. sale.customer # Nobody => sale.debited <= points[sale.customer]
    BY <1>1, <1>5 DEF Sells
  <2> QED BY <2>1, <2>2 DEF Abstract!Covered
<1>9. drawer' = drawer + sale.cash
  BY <1>1, <1>5, TypeParts DEF Sells, StockPart
<1>10. stock' = [p \in Products |-> stock[p] - sale.units[p]]
  BY <1>1, <1>5 DEF Sells
<1>11. points' = IF sale.customer = Nobody THEN points
                 ELSE [points EXCEPT ![sale.customer] = @ - sale.debited + sale.earned]
  BY <1>1, <1>5 DEF Sells
<1>12. Abstract!Sell(c, sale)
  BY <1>5, <1>6, <1>7, <1>8, <1>9, <1>10, <1>11 DEF Abstract!Sell, SalesMade
<1>13. sale \in SalesMade'[c]
  BY <1>6 DEF SalesMade
<1> QED BY <1>12, <1>13 DEF Abstract!Next, SalesMade

\* Checkout implements AtomicSale, for any number of carts, requests, intents
\* and keys, whatever requests overlap and fail: a cart is sold at most once,
\* with the next number, for stock and points that are there, in one step
\* (finalize_paid_cart in app/services/invoice_service.py).
THEOREM ImplementsAtomicSale == Spec => SellsAtomically
<1>1. Init => Abstract!Init
  BY DEF Init, Abstract!Init
<1>2. Spec => [](TypeInv /\ NumbersDense)
  <2>1. TypeInv /\ [Next]_vars => TypeInv'
    BY NextType
  <2> QED BY <2>1, InitType, NumbersAreDense, PTL DEF Spec
<1>3. TypeInv /\ NumbersDense /\ [Next]_vars
        => [Abstract!Next]_<<[c \in Carts |-> IF invoice[c] = NoInvoice THEN {}
                                              ELSE {SaleOf(invoice[c])}],
                             drawer, stock, points>>
  <2> SUFFICES ASSUME TypeInv, NumbersDense, [Next]_vars
               PROVE  Abstract!Next \/ UNCHANGED <<invoice, drawer, stock, points>>
    OBVIOUS
  <2>1. ASSUME NEW s \in Slots, CommitIntent(s) \/ CommitCapture(s)
        PROVE  UNCHANGED <<invoice, drawer, stock, points>>
    BY <2>1 DEF CommitIntent, CommitCapture
  <2> QED BY <2>1, FinalizeIsSale, PaymentSteps
<1> QED BY <1>1, <1>2, <1>3, PTL DEF Spec, SellsAtomically, Abstract!Spec

-----------------------------------------------------------------------------
(* Requests that overlap only on different carts *)

\* No two rows share an id, a product or a kind of discount.
Distinct(rows) == \A r, q \in rows : r.id = q.id \/ r.what = q.what => r = q

\* The rows a request leaves on its cart.
Committed(e) ==
    {r \in cart[e.cart].rows : r.id \notin e.del \cup Ids(e.upd)} \cup e.upd \cup e.ins

\* The rows of each cart and their total.
RowsKnown ==
    \A c \in Carts : /\ Distinct(cart[c].rows)
                     /\ \A r \in cart[c].rows : r.id < nextRow
                     /\ cart[c].total = Total(cart[c].rows)

IntentIds ==
    /\ \A i, j \in intents : i.id = j.id => i = j
    /\ \A i \in intents : i.id < nextIntent

\* What an edit has read still holds, and what it leaves is right.
EditReady(e) ==
    /\ cart[e.cart].status = "active" /\ e.loaded = cart[e.cart].total
    /\ e.known \subseteq cart[e.cart].rows
    /\ Distinct(Committed(e)) /\ \A r \in Committed(e) : r.id < nextRow
    /\ e.flushed => e.total = Total(Committed(e))

\* What a request has read still holds when it commits.
Ready(r) ==
    /\ r.op = "edit" => EditReady(r)
    /\ r.op = "state" => cart[r.cart].status # "paid" /\ r.to # "paid"
    /\ r.op = "intent" => /\ \A i \in intents : i.id \in r.stale =>
                               i.cart = r.cart /\ i.status # "succeeded"
                         /\ \A id \in r.stale : id < nextIntent
    /\ r.op = "capture" => \A i \in intents : i.id = r.id => i.status # "succeeded"
    /\ r.op = "finalize" => /\ cart[r.cart].status = "checkout_locked"
                            /\ r.rows = cart[r.cart].rows /\ r.total = cart[r.cart].total

RequestsReady == \A s \in Slots : Ready(req[s])

\* The inductive invariant of requests that overlap only on different carts.
SerialInv ==
    TypeInv /\ RowsKnown /\ IntentIds /\ RequestsReady /\ SoldCartFrozen

\* Rows of a set without two alike: fewer of them,
LEMMA DistinctFewer ==
  ASSUME NEW rows, NEW kept \in SUBSET rows, Distinct(rows)
  PROVE  Distinct(kept)
BY DEF Distinct

\* one more of a new id and kind,
LEMMA DistinctMore ==
  ASSUME NEW rows \in SUBSET RowSet, Distinct(rows), NEW new \in RowSet,
         \A r \in rows : r.id < new.id /\ r.what # new.what
  PROVE  Distinct(rows \cup {new})
<1>1. \A r \in rows : r.id # new.id
  BY DEF RowSet
<1> QED BY <1>1 DEF Distinct

\* Rows with another quantity, and a set of rows with some of them replaced.
WithQuantity(some, n) == {[r EXCEPT !.n = n] : r \in some}

Replaced(rows, upd) == {r \in rows : r.id \notin Ids(upd)} \cup upd

\* and some of them with another quantity.
LEMMA DistinctChanged ==
  ASSUME NEW rows \in SUBSET RowSet, Distinct(rows), NEW some \in SUBSET rows, NEW n
  PROVE  LET all == Replaced(rows, WithQuantity(some, n))
         IN  /\ Distinct(all)
             /\ \A x \in all : \E r \in rows : r.id = x.id
<1> DEFINE upd == WithQuantity(some, n)
           all == Replaced(rows, upd)
<1>0. /\ upd = {[r EXCEPT !.n = n] : r \in some}
      /\ all = {r \in rows : r.id \notin Ids(upd)} \cup upd
  BY DEF WithQuantity, Replaced
<1> HIDE DEF upd, all
<1>1. \A u \in upd : \E r \in some : u = [r EXCEPT !.n = n]
  BY <1>0
<1>2. \A r \in RowSet : [r EXCEPT !.n = n].id = r.id /\ [r EXCEPT !.n = n].what = r.what
  BY DEF RowSet
<1>3. \A x \in all : \E r \in rows : r.id = x.id /\ r.what = x.what
  <2>1. ASSUME NEW x \in upd PROVE \E r \in rows : r.id = x.id /\ r.what = x.what
    <3>1. PICK r \in some : x = [r EXCEPT !.n = n]
      BY <1>1, <2>1
    <3>2. r \in rows /\ r \in RowSet
      OBVIOUS
    <3> QED BY <1>2, <3>1, <3>2
  <2>2. \A x \in all : x \in upd \/ x \in rows
    BY <1>0
  <2> QED BY <2>1, <2>2
<1>4. ASSUME NEW x \in all, NEW y \in all, x.id = y.id \/ x.what = y.what PROVE x = y
  <2>1. PICK ox \in rows : ox.id = x.id /\ ox.what = x.what
    BY <1>3
  <2>2. PICK oy \in rows : oy.id = y.id /\ oy.what = y.what
    BY <1>3
  <2>3. ox = oy
    BY <1>4, <2>1, <2>2 DEF Distinct
  <2>4. x.id = y.id
    BY <2>1, <2>2, <2>3
  <2>5. CASE x \notin upd
    <3>1. x \in rows /\ x.id \notin Ids(upd)
      BY <1>0, <2>5
    <3>2. y \notin upd
      BY <2>4, <3>1 DEF Ids
    <3>3. y \in rows
      BY <1>0, <3>2
    <3> QED BY <2>4, <3>1, <3>3 DEF Distinct
  <2>6. CASE x \in upd
    <3>1. y \in upd
      BY <1>0, <2>4, <2>6 DEF Ids
    <3>2. PICK rx \in some : x = [rx EXCEPT !.n = n]
      BY <1>1, <2>6
    <3>3. PICK ry \in some : y = [ry EXCEPT !.n = n]
      BY <1>1, <3>1
    <3>4. rx.id = ry.id
      BY <1>2, <2>4, <3>2, <3>3
    <3>5. rx = ry
      BY <3>4 DEF Distinct
    <3> QED BY <3>2, <3>3, <3>5
  <2> QED BY <2>5, <2>6
<1>5. Distinct(all) /\ \A x \in all : \E r \in rows : r.id = x.id
  BY <1>3, <1>4 DEF Distinct
<1> QED BY <1>5 DEF all, upd

\* What a request has read still holds after a step that changes no cart of
\* its own: the intents the step adds or changes are of other carts.
LEMMA ReadyKept ==
  ASSUME SerialInv, NEW t \in Slots, NEW r, r = req[t],
         \A c \in Carts \cap CartsOf(r) : cart'[c] = cart[c],
         nextRow' = nextRow \/ nextRow' = nextRow + 1,
         nextIntent' = nextIntent \/ nextIntent' = nextIntent + 1,
         \A i \in intents' : i \in intents \/
            /\ i.cart \notin CartsOf(r)
            /\ \/ i.id = nextIntent /\ i.status # "succeeded"
               \/ \E j \in intents : j.id = i.id /\ j.cart = i.cart
  PROVE  Ready(r)'
<1>0. /\ TypeInv /\ TypeOK /\ Ready(r) /\ r \in Requests
      /\ nextRow \in Int /\ nextIntent \in Int
  BY RequestCases, TypeParts DEF SerialInv, RequestsReady, TypeInv, RowIdPart, IntentPart
<1>1. r.op = "edit" => EditReady(r)'
  <2> SUFFICES ASSUME r.op = "edit" PROVE EditReady(r)'
    OBVIOUS
  <2>1. r \in EditRequest /\ EditReady(r)
    BY <1>0, RequestCases DEF Ready
  <2>2. r.cart \in Carts /\ CartsOf(r) = {r.cart}
    BY <2>1 DEF EditRequest, CartsOf
  <2>3. cart'[r.cart] = cart[r.cart]
    BY <2>2
  <2>4. Committed(r)' = Committed(r)
    BY <2>3 DEF Committed
  <2>5. \A x \in Committed(r) : x.id \in Int
    <3>1. cart[r.cart].rows \subseteq RowSet
      BY <1>0, <2>2, CartFields
    <3>2. Committed(r) \subseteq RowSet
      BY <2>1, <3>1 DEF Committed, EditRequest
    <3> QED BY <3>2 DEF RowSet
  <2>6. \A x \in Committed(r) : x.id < nextRow'
    BY <1>0, <2>1, <2>5 DEF EditReady
  <2> QED BY <2>1, <2>3, <2>4, <2>6 DEF EditReady
<1>2. r.op = "state" => cart'[r.cart].status # "paid" /\ r.to # "paid"
  <2>1. r.op = "state" => r.cart \in Carts /\ CartsOf(r) = {r.cart}
    BY <1>0, RequestCases DEF StateRequest, CartsOf
  <2> QED BY <1>0, <2>1 DEF Ready
<1>3. r.op = "intent" => /\ \A i \in intents' : i.id \in r.stale =>
                              i.cart = r.cart /\ i.status # "succeeded"
                         /\ \A id \in r.stale : id < nextIntent'
  <2> SUFFICES ASSUME r.op = "intent"
               PROVE  /\ \A i \in intents' : i.id \in r.stale =>
                              i.cart = r.cart /\ i.status # "succeeded"
                      /\ \A id \in r.stale : id < nextIntent'
    OBVIOUS
  <2>1. /\ \A i \in intents : i.id \in r.stale => i.cart = r.cart /\ i.status # "succeeded"
        /\ \A id \in r.stale : id < nextIntent /\ id \in Int
        /\ CartsOf(r) = {r.cart}
    <3>1. r \in IntentRequest
      BY <1>0, RequestCases
    <3> QED BY <1>0, <3>1 DEF Ready, IntentRequest, CartsOf
  <2>2. ASSUME NEW i \in intents', i.id \in r.stale PROVE i \in intents
    <3>1. ASSUME i.cart \notin CartsOf(r), i.id = nextIntent PROVE FALSE
      BY <1>0, <2>1, <2>2, <3>1
    <3>2. ASSUME i.cart \notin CartsOf(r), NEW j \in intents, j.id = i.id, j.cart = i.cart
          PROVE  FALSE
      BY <2>1, <2>2, <3>2
    <3> QED BY <3>1, <3>2
  <2>3. \A id \in r.stale : id < nextIntent'
    BY <1>0, <2>1
  <2> QED BY <2>1, <2>2, <2>3
<1>4. r.op = "capture" => \A i \in intents' : i.id = r.id => i.status # "succeeded"
  <2> SUFFICES ASSUME r.op = "capture", NEW i \in intents', i.id = r.id
               PROVE  i.status # "succeeded"
    OBVIOUS
  <2>1. \A j \in intents : j.id = r.id => j.status # "succeeded" /\ j.cart \in CartsOf(r)
    BY <1>0 DEF Ready, CartsOf
  <2> QED BY <2>1
<1>5. r.op = "finalize" => /\ cart'[r.cart].status = "checkout_locked"
                           /\ r.rows = cart'[r.cart].rows /\ r.total = cart'[r.cart].total
  <2>1. r.op = "finalize" => r.cart \in Carts /\ CartsOf(r) = {r.cart}
    BY <1>0, RequestCases DEF FinalizeRequest, CartsOf
  <2> QED BY <1>0, <2>1 DEF Ready
<1> QED BY <1>1, <1>2, <1>3, <1>4, <1>5 DEF Ready

\* One request replaces another: what it and the others have read holds.
LEMMA ReadyStep ==
  ASSUME TypeInv, NEW s \in Slots, NEW r, req' = [req EXCEPT ![s] = r], Ready(r)',
         \A t \in Slots \ {s} : \A q : q = req[t] => Ready(q)'
  PROVE  RequestsReady'
<1>1. req \in [Slots -> Requests]
  BY RequestCases DEF TypeInv, TypeOK, Requests
<1>2. req'[s] = r /\ \A t \in Slots \ {s} : req'[t] = req[t]
  BY <1>1
<1>3. ASSUME NEW t \in Slots PROVE Ready(req[t])'
  <2>1. PICK q : q = req'[t]
    OBVIOUS
  <2>2. Ready(q)'
    BY <1>2, <2>1
  <2> QED BY <2>1, <2>2
<1> QED BY <1>3 DEF RequestsReady

\* A request that changes no cart and no intent leaves the others ready.
LEMMA QuietReady ==
  ASSUME SerialInv, NEW s \in Slots, NEW r, req' = [req EXCEPT ![s] = r], Ready(r)',
         UNCHANGED <<cart, intents, nextIntent>>, nextRow' = nextRow \/ nextRow' = nextRow + 1
  PROVE  RequestsReady'
<1>1. ASSUME NEW t \in Slots, NEW q, q = req[t] PROVE Ready(q)'
  BY <1>1, ReadyKept
<1> QED BY <1>1, ReadyStep DEF SerialInv

\* A request that ends changed its own cart at most: the others stay ready.
LEMMA EndReady ==
  ASSUME OnePerCart, SerialInv, NEW s \in Slots, NEW c \in CartsOf(req[s]),
         req' = [req EXCEPT ![s] = Idle],
         \A d \in Carts \ {c} : cart'[d] = cart[d],
         nextRow' = nextRow, nextIntent' = nextIntent \/ nextIntent' = nextIntent + 1,
         \A i \in intents' : i \in intents \/
            /\ i.cart = c
            /\ \/ i.id = nextIntent /\ i.status # "succeeded"
               \/ \E j \in intents : j.id = i.id /\ j.cart = i.cart
  PROVE  RequestsReady'
<1>1. Ready(Idle)'
  BY DEF Ready, Idle
<1>2. ASSUME NEW t \in Slots \ {s}, NEW q, q = req[t] PROVE Ready(q)'
  <2>1. c \notin CartsOf(q)
    BY <1>2 DEF OnePerCart
  <2>2. \A d \in Carts \cap CartsOf(q) : cart'[d] = cart[d]
    BY <2>1
  <2> QED BY <1>2, <2>1, <2>2, ReadyKept
<1> QED BY <1>1, <1>2, ReadyStep DEF SerialInv

\* A request that begins has read what holds.
LEMMA BeginReady ==
  ASSUME SerialInv, TypeInv', NEW s \in Slots, NEW r, Begin(s, r),
         UNCHANGED <<cart, payVars>>, nextRow' = nextRow \/ nextRow' = nextRow + 1, Ready(r)'
  PROVE  SerialInv'
<1>1. RequestsReady'
  BY QuietReady DEF Begin, payVars
<1>2. RowsKnown'
  <2>1. \A c \in Carts : \A r1 \in cart[c].rows : r1.id < nextRow'
    <3>1. nextRow \in Int
      BY TypeParts DEF SerialInv, RowIdPart
    <3>2. \A c \in Carts : \A r1 \in cart[c].rows : r1.id \in Int
      BY CartRows DEF SerialInv, RowSet
    <3> QED BY <3>1, <3>2 DEF SerialInv, RowsKnown
  <2> QED BY <2>1 DEF SerialInv, RowsKnown
<1>3. IntentIds' /\ SoldCartFrozen'
  BY DEF SerialInv, IntentIds, SoldCartFrozen, Invoiced, payVars
<1> QED BY <1>1, <1>2, <1>3 DEF SerialInv

\* The rows of a cart.
LEMMA SerialRows ==
  ASSUME SerialInv, NEW c \in Carts
  PROVE  /\ cart[c].rows \in SUBSET RowSet /\ Distinct(cart[c].rows)
         /\ \A r \in cart[c].rows : r.id < nextRow /\ r.id \in Int
         /\ nextRow \in Int
<1>1. cart[c].rows \in SUBSET RowSet /\ nextRow \in Int
  BY CartRows, TypeParts DEF SerialInv, RowIdPart
<1>2. \A r \in cart[c].rows : r.id \in Int
  BY <1>1 DEF RowSet
<1> QED BY <1>1, <1>2 DEF SerialInv, RowsKnown

\* An edit that begins: what it leaves on the cart.
LEMMA EditBegins ==
  ASSUME SerialInv, TypeInv', NEW s \in Slots, NEW c \in Carts,
         cart[c].status = "active", NEW known \in SUBSET cart[c].rows, NEW del, NEW upd, NEW ins,
         NEW left, left = {r \in cart[c].rows : r.id \notin del \cup Ids(upd)} \cup upd \cup ins,
         Distinct(left), \A r \in left : r.id < nextRow',
         Begin(s, Edit(c, known, del, upd, ins)), UNCHANGED <<cart, payVars>>,
         nextRow' = nextRow \/ nextRow' = nextRow + 1
  PROVE  SerialInv'
<1>1. PICK e : e = Edit(c, known, del, upd, ins)
  OBVIOUS
<1>2. /\ e.op = "edit" /\ e.cart = c /\ e.loaded = cart[c].total /\ e.known = known /\ e.del = del
      /\ e.upd = upd /\ e.ins = ins /\ e.flushed = FALSE
  BY <1>1 DEF Edit
<1>3. Committed(e)' = left
  BY <1>2 DEF Committed
<1>4. EditReady(e)'
  BY <1>2, <1>3 DEF EditReady
<1>5. Ready(e)'
  BY <1>2, <1>4 DEF Ready
<1>6. Begin(s, e)
  BY <1>1
<1> QED BY <1>5, <1>6, BeginReady

\* Setting a quantity,
LEMMA UpsertSerial ==
  ASSUME SerialInv, NEW s \in Slots, NEW c \in Carts, NEW p \in Products,
         NEW qty \in 0..MaxQty, UpsertLine(s, c, p, qty), UNCHANGED payVars
  PROVE  SerialInv'
<1> DEFINE rows == cart[c].rows
           own == Named(rows, p)
           changed == Changed(own, qty)
           upd == {[r EXCEPT !.n = qty] : r \in changed}
           del == IF qty = 0 THEN Ids(own) ELSE {}
<1>1. /\ rows \in SUBSET RowSet /\ Distinct(rows) /\ nextRow \in Int
      /\ \A r \in rows : r.id < nextRow /\ r.id \in Int
  BY SerialRows
<1>2. TypeInv'
  BY UpsertType DEF SerialInv
<1>3. cart[c].status = "active" /\ UNCHANGED <<cart, payVars>>
  BY DEF UpsertLine
<1>4. own \in SUBSET rows /\ changed \in SUBSET own /\ changed \in SUBSET rows
  BY DEF Named, Changed
<1>5. CASE qty # 0 /\ own = {}
  <2>1. Begin(s, Edit(c, own, {}, {}, NewRow(p, qty))) /\ TakeId
    BY <1>5 DEF UpsertLine
  <2> DEFINE new == [id |-> nextRow, what |-> p, n |-> qty]
             left == {r \in rows : r.id \notin {} \cup Ids({})} \cup {} \cup NewRow(p, qty)
  <2>2. RowIdPart
    BY TypeParts DEF SerialInv
  <2>3. new \in RowSet
    BY <1>5, <2>1, <2>2 DEF RowSet, TakeId, RowIdPart
  <2>4. \A r \in rows : r.id < new.id /\ r.what # new.what
    BY <1>1, <1>5 DEF Named
  <2>5. left = rows \cup {new}
    BY DEF NewRow, Ids
  <2>6. new.id = nextRow /\ nextRow' = nextRow + 1
    BY <2>1 DEF TakeId
  <2> HIDE DEF new, rows
  <2>7. Distinct(left)
    BY <1>1, <2>3, <2>4, <2>5, DistinctMore
  <2>8. \A r \in left : r.id < nextRow'
    BY <1>1, <2>5, <2>6
  <2> HIDE DEF own, left
  <2>9. left = {r \in rows : r.id \notin {} \cup Ids({})} \cup {} \cup NewRow(p, qty)
    BY DEF left
  <2> QED BY <1>2, <1>3, <1>4, <2>1, <2>6, <2>7, <2>8, <2>9, EditBegins DEF rows
<1>6. CASE ~(qty # 0 /\ own = {})
  <2>1. Begin(s, Edit(c, own, del, upd, {})) /\ nextRow' = nextRow
    BY <1>6 DEF UpsertLine
  <2> DEFINE left == {r \in rows : r.id \notin del \cup Ids(upd)} \cup upd \cup {}
  <2>2. Distinct(left) /\ \A r \in left : r.id < nextRow
    <3>1. CASE qty = 0
      <4>1. upd = {}
        BY <3>1 DEF Changed
      <4>2. left \in SUBSET rows
        BY <4>1
      <4> HIDE DEF left, rows
      <4>3. Distinct(left)
        BY <1>1, <4>2, DistinctFewer
      <4> QED BY <1>1, <4>2, <4>3
    <3>2. CASE qty # 0
      <4>1. del = {}
        BY <3>2
      <4>2. left = Replaced(rows, WithQuantity(changed, qty))
        BY <4>1 DEF Replaced, WithQuantity
      <4> HIDE DEF rows, changed, own, del, upd, left
      <4>3. Distinct(left) /\ \A x \in left : \E r \in rows : r.id = x.id
        BY <1>1, <1>4, <4>2, DistinctChanged
      <4> QED BY <1>1, <4>3
    <3> QED BY <3>1, <3>2
  <2> HIDE DEF own, upd, del, left
  <2>3. left = {r \in rows : r.id \notin del \cup Ids(upd)} \cup upd \cup {}
    BY DEF left
  <2> HIDE DEF rows
  <2> QED BY <1>2, <1>3, <1>4, <2>1, <2>2, <2>3, EditBegins DEF rows
<1> QED BY <1>5, <1>6

\* a discount,
LEMMA DiscountSerial ==
  ASSUME SerialInv, NEW s \in Slots, NEW c \in Carts, NEW what \in Discounts,
         NEW n \in Nat \ {0}, Discount(s, c, what, n), UNCHANGED payVars
  PROVE  SerialInv'
<1> DEFINE rows == cart[c].rows
           del == Ids(Named(rows, what))
           new == [id |-> nextRow, what |-> what, n |-> n]
           kept == {r \in rows : r.id \notin del}
           left == {r \in rows : r.id \notin del \cup Ids({})} \cup {} \cup NewRow(what, n)
<1>1. /\ rows \in SUBSET RowSet /\ Distinct(rows) /\ nextRow \in Int
      /\ \A r \in rows : r.id < nextRow /\ r.id \in Int
  BY SerialRows
<1>2. TypeInv'
  BY DiscountType DEF SerialInv
<1>3. cart[c].status = "active" /\ UNCHANGED <<cart, payVars>>
      /\ Begin(s, Edit(c, rows, del, {}, NewRow(what, n))) /\ TakeId
  BY DEF Discount
<1>4. RowIdPart
  BY TypeParts DEF SerialInv
<1>5. new \in RowSet
  BY <1>3, <1>4 DEF RowSet, TakeId, RowIdPart
<1>6. kept \in SUBSET rows /\ \A r \in kept : r.id < new.id /\ r.what # new.what
  BY <1>1 DEF Ids, Named
<1>7. left = kept \cup {new}
  BY DEF NewRow, Ids
<1>8. new.id = nextRow /\ nextRow' = nextRow + 1
  BY <1>3 DEF TakeId
<1> HIDE DEF new, rows, kept, del
<1>9. kept \in SUBSET RowSet /\ Distinct(kept)
  BY <1>1, <1>6, DistinctFewer
<1>10. Distinct(left)
  BY <1>5, <1>6, <1>7, <1>9, DistinctMore
<1>11. \A r \in left : r.id < nextRow'
  BY <1>1, <1>6, <1>7, <1>8
<1> HIDE DEF left
<1>12. left = {r \in rows : r.id \notin del \cup Ids({})} \cup {} \cup NewRow(what, n)
  BY DEF left
<1>13. rows \in SUBSET rows
  OBVIOUS
<1> QED BY <1>2, <1>3, <1>8, <1>10, <1>11, <1>12, <1>13, EditBegins DEF rows

\* and the requests about the status and the customer of a cart.
LEMMA BeginOtherSerial ==
  ASSUME SerialInv, NEW s \in Slots, NEW c \in Carts, UNCHANGED payVars
  PROVE  /\ \A action : ChangeState(s, c, action) => SerialInv'
         /\ \A customer \in Customers \cup {Nobody} : PatchCustomer(s, c, customer) => SerialInv'
<1>0. TypeInv
  BY DEF SerialInv
<1>1. ASSUME NEW action, ChangeState(s, c, action) PROVE SerialInv'
  <2>1. TypeInv'
    BY <1>0, <1>1, BeginOtherType
  <2>2. PICK r : r = [op |-> "state", cart |-> c, to |-> Transition(cart[c].status, action)]
    OBVIOUS
  <2>3. Begin(s, r) /\ UNCHANGED <<cart, nextRow>>
    BY <1>1, <2>2 DEF ChangeState
  <2>4. cart[c].status # "paid" /\ Transition(cart[c].status, action) # "paid"
    BY <1>1 DEF ChangeState, Transition
  <2>5. Ready(r)'
    BY <2>2, <2>3, <2>4 DEF Ready
  <2> QED BY <2>1, <2>3, <2>5, BeginReady
<1>2. ASSUME NEW customer \in Customers \cup {Nobody}, PatchCustomer(s, c, customer)
      PROVE  SerialInv'
  <2>1. TypeInv'
    BY <1>0, <1>2, BeginOtherType
  <2>2. PICK r : r = [op |-> "customer", cart |-> c, from |-> cart[c].customer, to |-> customer]
    OBVIOUS
  <2>3. Begin(s, r) /\ UNCHANGED <<cart, nextRow>>
    BY <1>2, <2>2 DEF PatchCustomer
  <2>4. Ready(r)'
    BY <2>2 DEF Ready
  <2> QED BY <2>1, <2>3, <2>4, BeginReady
<1> QED BY <1>1, <1>2

\* An edit of a cart, whichever it is.
LEMMA BeginCartSerial ==
  ASSUME SerialInv, NEW s \in Slots, NEW c \in Carts, BeginCart(s, c),
         UNCHANGED payVars
  PROVE  SerialInv'
<1>1. ASSUME NEW amount \in FlatAmounts, ApplyFlatDiscount(s, c, amount) PROVE SerialInv'
  <2>1. "flat" \in Discounts /\ amount \in Nat \ {0} /\ Discount(s, c, "flat", amount)
    BY <1>1 DEF Discounts, ApplyFlatDiscount
  <2> QED BY <2>1, DiscountSerial
<1>2. ASSUME NEW value \in CodeAmounts, ApplyDiscount(s, c, value) PROVE SerialInv'
  <2> DEFINE net == Net(cart[c].rows)
             n == IF value < net THEN value ELSE net
  <2>1. cart[c].rows \in SUBSET RowSet /\ IsFiniteSet(cart[c].rows)
    BY CartRows DEF SerialInv
  <2>2. net \in Nat
    BY <2>1, RowSums
  <2>3. Discount(s, c, "code", n)
    BY <1>2 DEF ApplyDiscount
  <2>4. net > 0
    BY <2>3 DEF Discount
  <2> HIDE DEF net
  <2>5. "code" \in Discounts /\ n \in Nat \ {0}
    BY <2>2, <2>4 DEF Discounts
  <2> HIDE DEF n
  <2> QED BY <2>3, <2>5, DiscountSerial
<1>3. ASSUME NEW pts \in PointAmounts, ApplyLoyaltyDiscount(s, c, pts) PROVE SerialInv'
  <2>1. "points" \in Discounts /\ pts \in Nat \ {0} /\ Discount(s, c, "points", pts)
    BY <1>3 DEF Discounts, ApplyLoyaltyDiscount
  <2> QED BY <2>1, DiscountSerial
<1> QED BY <1>1, <1>2, <1>3, UpsertSerial, BeginOtherSerial DEF BeginCart

\* The requests about a payment.
LEMMA BeginPaymentSerial ==
  ASSUME SerialInv, NEW s \in Slots, NEW c \in Carts, BeginPayment(s, c)
  PROVE  SerialInv'
<1>0. TypeInv'
  BY BeginPaymentType DEF SerialInv
<1>1. ASSUME NEW credit \in Credits, NEW method \in Methods, NEW partial \in Partials \cup {-1},
             CreateIntent(s, c, credit, method, partial)
      PROVE  SerialInv'
  <2>1. PICK r : r = [op |-> "intent", cart |-> c, stale |-> Ids(Open(c)),
                      amount |-> IntentAmount(cart[c].total, credit, method, partial)]
    OBVIOUS
  <2>2. Begin(s, r) /\ UNCHANGED <<cart, nextRow, payVars>>
    BY <1>1, <2>1 DEF CreateIntent
  <2>3. /\ \A i \in intents : i.id \in Ids(Open(c)) => i.cart = c /\ i.status # "succeeded"
        /\ \A id \in Ids(Open(c)) : id < nextIntent
    BY DEF SerialInv, IntentIds, Ids, Open, OfCart, Succeeded
  <2>4. Ready(r)'
    BY <2>1, <2>2, <2>3 DEF Ready, payVars
  <2> QED BY <1>0, <2>2, <2>4, BeginReady
<1>2. ASSUME NEW i \in OfCart(c), NEW key \in Keys, NEW method \in Methods,
             NEW partial \in Partials \cup {-1}, Capture(s, i, key, method, partial)
      PROVE  SerialInv'
  <2>1. PICK r : r = [op |-> "capture", id |-> i.id,
                      receipt |-> [key |-> key, method |-> method,
                                   amount |-> IF partial >= 0 THEN partial ELSE i.amount]]
    OBVIOUS
  <2>2. Begin(s, r) /\ UNCHANGED <<cart, nextRow, payVars>> /\ i.status # "succeeded"
    BY <1>2, <2>1 DEF Capture
  <2>3. ASSUME NEW j \in intents, j.id = i.id PROVE j.status # "succeeded"
    BY <2>2, <2>3 DEF SerialInv, IntentIds, OfCart
  <2>4. Ready(r)'
    BY <2>1, <2>2, <2>3 DEF Ready, payVars
  <2> QED BY <1>0, <2>2, <2>4, BeginReady
<1>3. ASSUME NEW i \in OfCart(c), Finalize(s, i) PROVE SerialInv'
  <2>1. PICK r : r = [op |-> "finalize", cart |-> i.cart, id |-> i.id, due |-> i.amount,
                      customer |-> cart[i.cart].customer,
                      total |-> cart[i.cart].total, rows |-> cart[i.cart].rows]
    OBVIOUS
  <2>2. Begin(s, r) /\ UNCHANGED <<cart, nextRow, payVars>>
    BY <1>3, <2>1 DEF Finalize
  <2>3. cart[i.cart].status = "checkout_locked"
    BY <1>3 DEF Finalize
  <2>4. Ready(r)'
    BY <2>1, <2>2, <2>3 DEF Ready
  <2> QED BY <1>0, <2>2, <2>4, BeginReady
<1> QED BY <1>1, <1>2, <1>3 DEF BeginPayment

\* An edit writes its rows and computes the total of what it leaves.
LEMMA FlushSerial ==
  ASSUME SerialInv, NEW s \in Slots, Flush(s), UNCHANGED payVars
  PROVE  SerialInv'
<1>0. TypeInv /\ TypeInv' /\ Ready(req[s])
  BY FlushType DEF SerialInv, RequestsReady
<1>1. PICK e \in EditRequest : e = req[s]
  BY <1>0, RequestCases DEF Flush, TypeInv
<1>2. EditReady(e) /\ e.op = "edit"
  BY <1>0, <1>1 DEF Ready, Flush
<1>3. PICK c \in Carts : c = e.cart
  BY DEF EditRequest
<1>4. View(e) = Committed(e)
  <2> DEFINE kept == {r \in cart[e.cart].rows : r.id \notin e.del \cup Ids(e.upd)}
             stayed == {r \in kept : r.id \notin Ids(e.known)}
             same == {k \in e.known : k.id \in Ids(kept)}
  <2>1. e.known \subseteq cart[e.cart].rows /\ Distinct(cart[e.cart].rows)
    BY <1>2, <1>3, SerialRows DEF EditReady
  <2>2. \A k \in same : k \in kept
    <3>1. ASSUME NEW k \in same PROVE k \in kept
      <4>1. PICK r \in kept : r.id = k.id
        BY DEF Ids
      <4>2. r = k
        BY <2>1, <4>1 DEF Distinct
      <4> QED BY <4>2
    <3> QED BY <3>1
  <2>3. \A r \in kept : r \in stayed \/ r \in same
    <3>1. ASSUME NEW r \in kept, r.id \in Ids(e.known) PROVE r \in same
      <4>1. PICK k \in e.known : k.id = r.id
        BY <3>1 DEF Ids
      <4>2. r = k
        BY <2>1, <4>1 DEF Distinct
      <4> QED BY <4>2 DEF Ids
    <3> QED BY <3>1
  <2>4. stayed \cup same = kept
    BY <2>2, <2>3
  <2> HIDE DEF stayed, same, kept
  <2>5. View(e) = stayed \cup same \cup e.upd \cup e.ins
    BY DEF View, stayed, same, kept
  <2>6. Committed(e) = kept \cup e.upd \cup e.ins
    BY DEF Committed, kept
  <2> QED BY <2>4, <2>5, <2>6
<1>5. PICK t : t = Total(Committed(e))
  OBVIOUS
<1>6. PICK new : new = [e EXCEPT !.flushed = TRUE, !.total = t]
  OBVIOUS
<1>7. req' = [req EXCEPT ![s] = new]
  <2>1. req' = [req EXCEPT ![s].flushed = TRUE, ![s].total = t]
    BY <1>1, <1>4, <1>5 DEF Flush
  <2> QED BY <1>0, <1>1, <1>6, <2>1, RequestCases DEF TypeInv
<1>8. /\ new.op = "edit" /\ new.cart = e.cart /\ new.loaded = e.loaded /\ new.known = e.known
      /\ new.del = e.del /\ new.upd = e.upd /\ new.ins = e.ins /\ new.total = t
  BY <1>6 DEF EditRequest
<1>9. UNCHANGED <<cart, nextRow, points, active>>
  BY DEF Flush
<1>10. Committed(new)' = Committed(e)
  BY <1>8, <1>9 DEF Committed
<1>11. EditReady(new)'
  BY <1>2, <1>5, <1>8, <1>9, <1>10 DEF EditReady
<1>12. Ready(new)'
  BY <1>8, <1>11 DEF Ready
<1>13. RequestsReady'
  BY <1>7, <1>9, <1>12, QuietReady DEF payVars
<1>14. RowsKnown' /\ IntentIds' /\ SoldCartFrozen'
  BY <1>9 DEF SerialInv, RowsKnown, IntentIds, SoldCartFrozen, Invoiced, payVars
<1> QED BY <1>0, <1>13, <1>14 DEF SerialInv

\* An edit commits: the cart has the rows it leaves and their total.
LEMMA CommitEditSerial ==
  ASSUME OnePerCart, SerialInv, NEW s \in Slots, CommitEdit(s), UNCHANGED payVars
  PROVE  SerialInv'
<1>0. TypeInv /\ TypeInv' /\ Ready(req[s])
  BY CommitEditType DEF SerialInv, RequestsReady
<1>1. PICK e \in EditRequest : e = req[s]
  BY <1>0, RequestCases DEF CommitEdit, TypeInv
<1>2. EditReady(e) /\ e.flushed
  BY <1>0, <1>1 DEF Ready, CommitEdit
<1>3. PICK c \in Carts : c = e.cart
  BY DEF EditRequest
<1>4. PICK rows : rows = Committed(e)
  OBVIOUS
<1>5. /\ cart[c].status = "active" /\ e.loaded = cart[c].total /\ e.total = Total(rows)
      /\ Distinct(rows) /\ \A r \in rows : r.id < nextRow
  BY <1>2, <1>3, <1>4 DEF EditReady
<1>6. /\ cart' = [cart EXCEPT ![c].rows = rows, ![c].total = e.total]
      /\ req' = [req EXCEPT ![s] = Idle] /\ UNCHANGED <<nextRow, points, active>>
  <2>1. cart \in [Carts -> CartState]
    BY <1>0, CartFields DEF TypeInv
  <2>2. /\ cart' = [cart EXCEPT ![c].rows = Committed(e),
                                ![c].total = IF e.total = e.loaded THEN @ ELSE e.total]
        /\ req' = [req EXCEPT ![s] = Idle] /\ UNCHANGED <<nextRow, points, active>>
    BY <1>1, <1>3 DEF CommitEdit, Committed
  <2>3. (IF e.total = e.loaded THEN cart[c].total ELSE e.total) = e.total
    BY <1>5
  <2> QED BY <1>4, <2>1, <2>2, <2>3
<1>7. /\ cart'[c].rows = rows /\ cart'[c].total = e.total /\ cart'[c].status = "active"
      /\ \A d \in Carts \ {c} : cart'[d] = cart[d]
  BY <1>0, <1>5, <1>6, CartFields DEF TypeInv, CartState
<1>8. RowsKnown'
  BY <1>5, <1>6, <1>7 DEF SerialInv, RowsKnown
<1>9. RequestsReady'
  <2>1. c \in CartsOf(req[s])
    BY <1>1, <1>3 DEF CartsOf, EditRequest
  <2> QED BY <1>6, <1>7, <2>1, EndReady DEF payVars
<1>10. IntentIds'
  BY DEF SerialInv, IntentIds, payVars
<1>11. UNCHANGED invoice
  BY DEF payVars
<1>12. SoldCartFrozen'
  BY <1>5, <1>7, <1>11 DEF SerialInv, SoldCartFrozen, Invoiced
<1> QED BY <1>0, <1>8, <1>9, <1>10, <1>12 DEF SerialInv

\* The status or the customer of a cart changes, and it is not sold by that.
LEMMA CartChanges ==
  ASSUME SerialInv, NEW c \in Carts, cart[c].status # "paid", cart'[c].status # "paid",
         cart'[c].rows = cart[c].rows, cart'[c].total = cart[c].total,
         \A d \in Carts \ {c} : cart'[d] = cart[d], UNCHANGED payVars, UNCHANGED nextRow
  PROVE  RowsKnown' /\ IntentIds' /\ SoldCartFrozen'
<1>1. RowsKnown'
  BY DEF SerialInv, RowsKnown
<1>2. IntentIds' /\ SoldCartFrozen'
  BY DEF SerialInv, IntentIds, SoldCartFrozen, Invoiced, payVars
<1> QED BY <1>1, <1>2

\* The other steps of carts without payment.
LEMMA OtherCartSerial ==
  ASSUME OnePerCart, SerialInv, UNCHANGED payVars
  PROVE  /\ \A s \in Slots : CommitState(s) \/ CommitCustomer(s) \/ Fail(s) => SerialInv'
         /\ \A c \in Carts, customer \in Customers \cup {Nobody} :
               CreateCart(c, customer) => SerialInv'
         /\ \A customer \in Customers : SetAccountStatus(customer) => SerialInv'
<1>0. TypeInv /\ TypeOK /\ cart \in [Carts -> CartState] /\ RequestsReady
  BY DEF SerialInv, TypeInv, TypeOK, CartTypeOK
<1>1. UNCHANGED <<cart, nextRow>> => RowsKnown' /\ IntentIds' /\ SoldCartFrozen'
  BY DEF SerialInv, RowsKnown, IntentIds, SoldCartFrozen, Invoiced, payVars
<1>2. ASSUME NEW s \in Slots, CommitState(s) PROVE SerialInv'
  <2>1. PICK r \in StateRequest : r = req[s]
    BY <1>0, <1>2, RequestCases DEF CommitState
  <2>2. PICK c \in Carts : c = r.cart
    BY <2>1 DEF StateRequest
  <2>3. cart' = [cart EXCEPT ![c].status = r.to] /\ req' = [req EXCEPT ![s] = Idle]
        /\ UNCHANGED nextRow
    BY <1>2, <2>1, <2>2 DEF CommitState
  <2>4. cart[c].status # "paid" /\ r.to # "paid"
    BY <1>0, <1>2, <2>1, <2>2 DEF RequestsReady, Ready, CommitState
  <2>5. /\ cart'[c].status # "paid" /\ cart'[c].rows = cart[c].rows
        /\ cart'[c].total = cart[c].total /\ \A d \in Carts \ {c} : cart'[d] = cart[d]
    BY <1>0, <2>3, <2>4 DEF CartState
  <2>6. RowsKnown' /\ IntentIds' /\ SoldCartFrozen'
    BY <2>3, <2>4, <2>5, CartChanges
  <2>7. TypeInv' /\ RequestsReady'
    <3>1. c \in CartsOf(req[s])
      BY <2>1, <2>2 DEF CartsOf, StateRequest
    <3> QED BY <1>0, <1>2, <2>3, <2>5, <3>1, OtherCartType, EndReady DEF payVars
  <2> QED BY <2>6, <2>7 DEF SerialInv
<1>3. ASSUME NEW s \in Slots, CommitCustomer(s) PROVE SerialInv'
  <2>1. PICK r \in CustomerRequest : r = req[s]
    BY <1>0, <1>3, RequestCases DEF CommitCustomer
  <2>2. PICK c \in Carts : c = r.cart
    BY <2>1 DEF CustomerRequest
  <2>3. cart' = cart \/ cart' = [cart EXCEPT ![c].customer = r.to]
    BY <1>3, <2>1, <2>2 DEF CommitCustomer
  <2>4. req' = [req EXCEPT ![s] = Idle] /\ UNCHANGED nextRow
    BY <1>3 DEF CommitCustomer
  <2>5. \A d \in Carts : /\ cart'[d].status = cart[d].status /\ cart'[d].rows = cart[d].rows
                         /\ cart'[d].total = cart[d].total
    BY <1>0, <2>3 DEF CartState
  <2>6. RowsKnown' /\ IntentIds' /\ SoldCartFrozen'
    <3>1. RowsKnown'
      BY <2>4, <2>5 DEF SerialInv, RowsKnown
    <3> QED BY <2>5, <3>1 DEF SerialInv, IntentIds, SoldCartFrozen, Invoiced, payVars
  <2>7. TypeInv' /\ RequestsReady'
    <3>1. c \in CartsOf(req[s])
      BY <2>1, <2>2 DEF CartsOf, CustomerRequest
    <3>2. \A d \in Carts \ {c} : cart'[d] = cart[d]
      BY <1>0, <2>3
    <3> QED BY <1>0, <1>3, <2>4, <3>1, <3>2, OtherCartType, EndReady DEF payVars
  <2> QED BY <2>6, <2>7 DEF SerialInv
<1>4. ASSUME NEW s \in Slots, Fail(s) PROVE SerialInv'
  <2>1. TypeInv' /\ RequestsReady'
    <3>1. Ready(Idle)'
      BY DEF Ready, Idle
    <3> QED BY <1>0, <1>4, <3>1, OtherCartType, QuietReady DEF Fail, payVars
  <2> QED BY <1>1, <1>4, <2>1 DEF SerialInv, Fail
<1>5. ASSUME NEW c \in Carts, NEW customer \in Customers \cup {Nobody}, CreateCart(c, customer)
      PROVE  SerialInv'
  <2>1. /\ cart[c].status = "new" /\ UNCHANGED <<nextRow, points, active, req>>
        /\ cart' = [cart EXCEPT ![c].status = "active", ![c].customer = customer]
    BY <1>5 DEF CreateCart
  <2>2. /\ cart'[c].status = "active" /\ cart'[c].rows = cart[c].rows
        /\ cart'[c].total = cart[c].total /\ \A d \in Carts \ {c} : cart'[d] = cart[d]
    BY <1>0, <2>1 DEF CartState
  <2>3. RowsKnown' /\ IntentIds' /\ SoldCartFrozen'
    BY <2>1, <2>2, CartChanges
  <2>4. ASSUME NEW s \in Slots PROVE Ready(req[s])'
    <3>1. PICK r \in Requests : r = req[s] /\ r = req'[s]
      BY <1>0, <2>1, RequestCases
    <3>2. Ready(r)
      BY <1>0, <3>1 DEF RequestsReady
    <3>3. r.op = "edit" => EditReady(r)'
      <4> SUFFICES ASSUME r.op = "edit" PROVE EditReady(r)'
        OBVIOUS
      <4>1. EditReady(r) /\ r.cart \in Carts
        BY <1>0, <3>1, <3>2, RequestCases DEF Ready, EditRequest
      <4>2. r.cart # c
        BY <2>1, <4>1 DEF EditReady
      <4>3. cart'[r.cart] = cart[r.cart]
        BY <2>2, <4>1, <4>2
      <4>4. Committed(r)' = Committed(r)
        BY <4>3 DEF Committed
      <4> QED BY <2>1, <4>1, <4>3, <4>4 DEF EditReady
    <3>4. r.op = "state" => cart'[r.cart].status # "paid" /\ r.to # "paid"
      <4>1. r.op = "state" => r.cart \in Carts
        BY <1>0, <3>1, RequestCases DEF StateRequest
      <4> QED BY <2>2, <3>2, <4>1 DEF Ready
    <3>5. r.op = "finalize" => /\ cart'[r.cart].status = "checkout_locked"
                               /\ r.rows = cart'[r.cart].rows /\ r.total = cart'[r.cart].total
      <4>1. r.op = "finalize" => r.cart \in Carts
        BY <1>0, <3>1, RequestCases DEF FinalizeRequest
      <4> QED BY <2>1, <2>2, <3>2, <4>1 DEF Ready
    <3>6. Ready(r)'
      BY <3>2, <3>3, <3>4, <3>5 DEF Ready, payVars
    <3> QED BY <3>1, <3>6
  <2>5. TypeInv'
    BY <1>0, <1>5, OtherCartType
  <2> QED BY <2>3, <2>4, <2>5 DEF SerialInv, RequestsReady
<1>6. ASSUME NEW customer \in Customers, SetAccountStatus(customer) PROVE SerialInv'
  <2>1. UNCHANGED <<cart, nextRow, points, req>>
    BY <1>6 DEF SetAccountStatus
  <2>2. RequestsReady'
    <3>1. ASSUME NEW r, Ready(r) PROVE Ready(r)'
      <4>1. EditReady(r) => EditReady(r)'
        BY <2>1 DEF EditReady, Committed
      <4> QED BY <1>0, <2>1, <3>1, <4>1 DEF Ready, payVars
    <3> QED BY <1>0, <2>1, <3>1 DEF RequestsReady
  <2>3. TypeInv'
    BY <1>0, <1>6, OtherCartType
  <2> QED BY <1>1, <2>1, <2>2, <2>3 DEF SerialInv
<1> QED BY <1>2, <1>3, <1>4, <1>5, <1>6

\* A new intent replaces open ones, and no completed one.
LEMMA CommitIntentSerial ==
  ASSUME OnePerCart, SerialInv, NEW s \in Slots, CommitIntent(s)
  PROVE  /\ SerialInv'
         /\ \A i \in intents : i.status = "succeeded" => i \in intents'
<1>0. TypeInv /\ TypeInv' /\ Ready(req[s]) /\ nextIntent \in Nat
  BY CommitIntentType, TypeParts DEF SerialInv, RequestsReady, IntentPart
<1>1. PICK r : r = req[s]
  OBVIOUS
<1>2. PICK new : new = [id |-> nextIntent, cart |-> r.cart, amount |-> r.amount,
                        status |-> "requires_capture", receipts |-> {}]
  OBVIOUS
<1>3. /\ r.op = "intent" /\ nextIntent' = nextIntent + 1 /\ req' = [req EXCEPT ![s] = Idle]
      /\ intents' = {i \in intents : i.id \notin r.stale} \cup {new}
      /\ UNCHANGED <<cart, nextRow, invoice>>
  BY <1>1, <1>2 DEF CommitIntent
<1>4. \A i \in intents : i.status = "succeeded" => i \in intents'
  BY <1>0, <1>1, <1>3 DEF Ready
<1>5. IntentIds'
  <2>1. \A i \in intents : i.id < nextIntent /\ i.id \in Nat
    BY <1>0, TypeParts DEF SerialInv, IntentIds, IntentPart, IntentSet
  <2>2. new.id = nextIntent
    BY <1>2
  <2>3. \A i \in intents : i.id # new.id
    BY <1>0, <2>1, <2>2
  <2>4. \A i, j \in intents' : i.id = j.id => i = j
    BY <1>3, <2>3 DEF SerialInv, IntentIds
  <2>5. \A i \in intents' : i.id < nextIntent'
    BY <1>0, <1>3, <2>1, <2>2
  <2> QED BY <2>4, <2>5 DEF IntentIds
<1>6. RequestsReady'
  <2>1. r.cart \in CartsOf(req[s])
    BY <1>1, <1>3 DEF CartsOf
  <2>2. new.cart = r.cart /\ new.id = nextIntent /\ new.status # "succeeded"
    BY <1>2
  <2> QED BY <1>3, <2>1, <2>2, EndReady
<1>7. RowsKnown' /\ SoldCartFrozen'
  BY <1>3 DEF SerialInv, RowsKnown, SoldCartFrozen, Invoiced
<1> QED BY <1>0, <1>4, <1>5, <1>6, <1>7 DEF SerialInv

\* A capture completes an open intent.
LEMMA CommitCaptureSerial ==
  ASSUME OnePerCart, SerialInv, NEW s \in Slots, CommitCapture(s)
  PROVE  /\ SerialInv'
         /\ \A i \in intents : i.status = "succeeded" => i \in intents'
<1>0. TypeInv /\ TypeInv' /\ Ready(req[s]) /\ intents \subseteq IntentSet
  BY CommitIntentType, TypeParts DEF SerialInv, RequestsReady, IntentPart
<1>1. PICK r : r = req[s]
  OBVIOUS
<1>2. PICK i \in intents :
          /\ i.id = r.id
          /\ intents' = (intents \ {i}) \cup
                {[i EXCEPT !.status = "succeeded", !.receipts = @ \cup {r.receipt}]}
  BY <1>1 DEF CommitCapture
<1>3. PICK new : new = [i EXCEPT !.status = "succeeded", !.receipts = @ \cup {r.receipt}]
  OBVIOUS
<1>4. /\ r.op = "capture" /\ req' = [req EXCEPT ![s] = Idle] /\ new.id = i.id
      /\ intents' = (intents \ {i}) \cup {new}
      /\ UNCHANGED <<cart, nextRow, invoice, nextIntent>>
  BY <1>0, <1>1, <1>2, <1>3 DEF CommitCapture, IntentSet
<1>5. i.status # "succeeded"
  BY <1>0, <1>1, <1>2, <1>4 DEF Ready
<1>6. \A j \in intents : j.status = "succeeded" => j \in intents'
  BY <1>4, <1>5
<1>7. IntentIds'
  BY <1>4 DEF SerialInv, IntentIds
<1>8. RequestsReady'
  <2>1. i.cart \in CartsOf(req[s])
    BY <1>1, <1>2, <1>4 DEF CartsOf
  <2>2. new.cart = i.cart
    BY <1>0, <1>3 DEF IntentSet
  <2>3. \A j \in intents' : j \in intents \/
           /\ j.cart = i.cart
           /\ \E k \in intents : k.id = j.id /\ k.cart = j.cart
    BY <1>4, <2>2
  <2> QED BY <1>4, <2>1, <2>3, EndReady
<1>9. RowsKnown' /\ SoldCartFrozen'
  BY <1>4 DEF SerialInv, RowsKnown, SoldCartFrozen, Invoiced
<1> QED BY <1>0, <1>6, <1>7, <1>8, <1>9 DEF SerialInv

\* A finalisation sells the cart as it has read it.
LEMMA CommitFinalizeSerial ==
  ASSUME OnePerCart, SerialInv, NEW s \in Slots, CommitFinalize(s)
  PROVE  SerialInv' /\ UNCHANGED intents
<1>0. TypeInv /\ TypeInv' /\ Ready(req[s])
  BY CommitFinalizeType DEF SerialInv, RequestsReady
<1>1. PICK r \in FinalizeRequest, receipt \in ReceiptSet, redeemed \in Nat, earned \in Nat :
         Sells(s, r, receipt, redeemed, earned)
  BY <1>0, FinalizeSells
<1>2. PICK c \in Carts : c = r.cart
  BY DEF FinalizeRequest
<1>3. /\ r = req[s] /\ r.op = "finalize" /\ req' = [req EXCEPT ![s] = Idle]
      /\ UNCHANGED <<nextRow, intents, nextIntent>>
  BY <1>1 DEF Sells
<1>4. r.rows = cart[c].rows /\ r.total = cart[c].total
  BY <1>0, <1>2, <1>3 DEF Ready
<1>5. /\ Invoiced' = Invoiced \cup {c}
      /\ \A d \in Carts \ {c} : invoice'[d] = invoice[d] /\ cart'[d] = cart[d]
  BY <1>0, <1>1, <1>2, SaleFacts
<1>6. invoice'[c] = Sale(r, receipt, redeemed, earned)
  BY <1>0, <1>1, <1>2, TypeParts DEF Sells, InvoicePart
<1>7. invoice'[c].rows = r.rows /\ invoice'[c].total = r.total
  BY <1>6 DEF Sale
<1>8. /\ cart'[c].status = "paid" /\ cart'[c].rows = cart[c].rows /\ cart'[c].total = cart[c].total
  BY <1>0, <1>1, <1>2, CartFields DEF Sells, TypeInv, CartState
<1>9. RowsKnown'
  BY <1>3, <1>5, <1>8 DEF SerialInv, RowsKnown
<1>10. SoldCartFrozen'
  <2>1. ASSUME NEW d \in Carts \ {c}
        PROVE  /\ cart'[d].status = "paid" <=> d \in Invoiced'
               /\ d \in Invoiced' => /\ invoice'[d].rows = cart'[d].rows
                                     /\ invoice'[d].total = cart'[d].total
    BY <1>5 DEF SerialInv, SoldCartFrozen
  <2> QED BY <1>4, <1>5, <1>7, <1>8, <2>1 DEF SoldCartFrozen
<1>11. RequestsReady' /\ IntentIds'
  <2>1. c \in CartsOf(req[s])
    BY <1>2, <1>3 DEF CartsOf
  <2> QED BY <1>3, <1>5, <2>1, EndReady DEF SerialInv, IntentIds
<1> QED BY <1>0, <1>3, <1>9, <1>10, <1>11 DEF SerialInv

\* The invariant holds at the start,
LEMMA InitSerial == Init => SerialInv
<1> SUFFICES ASSUME Init PROVE SerialInv
  OBVIOUS
<1>1. TypeInv
  BY InitType
<1>2. RowsKnown
  <2>1. Total({}) = 0
    <3>1. Net({}) = 0 /\ Off({}) = 0
      <4> DEFINE f == [r \in Lines({}) |-> Price[r.what] * r.n]
                 g == [r \in {} \ Lines({}) |-> Amount(r)]
      <4>1. DOMAIN f = {} /\ DOMAIN g = {}
        BY DEF Lines
      <4> HIDE DEF f, g
      <4>2. SumFunction(f) = 0 /\ SumFunction(g) = 0
        BY <4>1, FunSumOfNone
      <4> QED BY <4>2 DEF Net, Off, f, g
    <3> QED BY <3>1 DEF Total
  <2> QED BY <2>1 DEF Init, CartInit, RowsKnown, Distinct
<1>3. IntentIds /\ RequestsReady /\ SoldCartFrozen
  BY DEF Init, CartInit, IntentIds, RequestsReady, Ready, Idle, SoldCartFrozen, Invoiced
<1> QED BY <1>1, <1>2, <1>3 DEF SerialInv

\* and every step keeps it, and every completed payment.
LEMMA NextSerial ==
  ASSUME OnePerCart, SerialInv, [Next]_vars
  PROVE  /\ SerialInv'
         /\ \A i \in intents : i.status = "succeeded" => i \in intents'
<1>0. TypeInv'
  BY NextType DEF SerialInv
<1>1. ASSUME UNCHANGED <<cart, nextRow, req, intents, nextIntent, invoice>> PROVE SerialInv'
  <2>1. RequestsReady'
    <3>1. ASSUME NEW t \in Slots, NEW q, q = req[t] PROVE Ready(q)'
      BY <1>1, <3>1, ReadyKept
    <3> QED BY <1>1, <3>1 DEF RequestsReady
  <2>2. RowsKnown' /\ IntentIds' /\ SoldCartFrozen'
    BY <1>1 DEF SerialInv, RowsKnown, IntentIds, SoldCartFrozen, Invoiced
  <2> QED BY <1>0, <2>1, <2>2 DEF SerialInv
<1>2. CASE UNCHANGED vars
  BY <1>1, <1>2 DEF vars, cartVars, payVars
<1>3. CASE CloseShift
  BY <1>1, <1>3 DEF CloseShift, cartVars
<1>4. CASE CartStep /\ UNCHANGED payVars
  <2>1. SerialInv'
    BY <1>4, BeginCartSerial, FlushSerial, CommitEditSerial, OtherCartSerial DEF CartStep, FinishCart
  <2> QED BY <1>4, <2>1 DEF payVars
<1>5. ASSUME NEW s \in Slots, NEW c \in Carts, BeginPayment(s, c)
      PROVE  SerialInv' /\ UNCHANGED intents
  <2>1. UNCHANGED intents
    BY <1>5 DEF BeginPayment, CreateIntent, Capture, Finalize, payVars
  <2> QED BY <1>5, <2>1, BeginPaymentSerial
<1>6. ASSUME NEW s \in Slots, FinishPayment(s)
      PROVE  /\ SerialInv'
             /\ \A i \in intents : i.status = "succeeded" => i \in intents'
  BY <1>6, CommitIntentSerial, CommitCaptureSerial, CommitFinalizeSerial DEF FinishPayment
<1> QED BY <1>2, <1>3, <1>4, <1>5, <1>6 DEF Next

\* The invariant, as long as no two requests about one cart overlap.
THEOREM SerialInvariant ==
  Spec /\ []OnePerCart => []SerialInv
<1>1. SerialInv /\ OnePerCart /\ [Next]_vars => SerialInv'
  BY NextSerial
<1> QED BY <1>1, InitSerial, PTL DEF Spec

\* The total of a cart is that of its lines and discounts, and a product or a
\* kind of discount has one row (_recalc_totals in app/services/cart_service.py).
THEOREM TotalsAreOfRows ==
  Spec /\ []OnePerCart => []TotalsMatchRows
<1>1. SerialInv => TotalsMatchRows
  <2> SUFFICES ASSUME SerialInv, NEW c \in Carts
               PROVE  /\ cart[c].total = Less(Net(cart[c].rows), Off(cart[c].rows))
                      /\ \A r, q \in cart[c].rows : r.what = q.what => r = q
    BY DEF TotalsMatchRows
  <2>1. cart[c].rows \in SUBSET RowSet /\ IsFiniteSet(cart[c].rows)
    BY CartRows DEF SerialInv
  <2>2. cart[c].total = Total(cart[c].rows) /\ Distinct(cart[c].rows)
    BY DEF SerialInv, RowsKnown
  <2>3. Total(cart[c].rows) = Less(Net(cart[c].rows), Off(cart[c].rows))
    BY <2>1, RowSums
  <2> QED BY <2>2, <2>3 DEF Distinct
<1> QED BY <1>1, SerialInvariant, PTL

\* A cart is paid exactly when it has an invoice, and stays the cart that was
\* invoiced (finalize_paid_cart in app/services/invoice_service.py).
THEOREM SoldIsFrozen ==
  Spec /\ []OnePerCart => []SoldCartFrozen
<1>1. SerialInv => SoldCartFrozen
  BY DEF SerialInv
<1> QED BY <1>1, SerialInvariant, PTL

\* A completed payment is never replaced, changed or captured again
\* (create_payment_intent and capture_payment in app/services/payment_service.py).
THEOREM CapturesAreKept ==
  Spec /\ []OnePerCart => CapturesKept
<1>1. SerialInv /\ OnePerCart /\ [Next]_vars =>
         [\A i \in intents : i.status = "succeeded" => i \in intents']_vars
  BY NextSerial
<1> QED BY <1>1, SerialInvariant, PTL DEF Spec, CapturesKept
=============================================================================

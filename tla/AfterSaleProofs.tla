--------------------------- MODULE AfterSaleProofs ---------------------------
(***************************************************************************)
(* Proofs about AfterSale, for any number of invoices, lines, requests,    *)
(* returns and payments: type correctness, that goods, journal and drawer  *)
(* follow every return and void, and that an invoice handled in turn is    *)
(* settled.                                                                *)
(***************************************************************************)
EXTENDS AfterSale, SequenceTheorems, FiniteSums

USE AfterSaleAssumption

\* Besides the types: rows are finitely many, the movements and entries of a
\* kind are of documents that exist, and a payment was within the balance read.
Rows ==
    /\ IsFiniteSet(journal) /\ IsFiniteSet(applied)
    /\ \A m \in movements : m.kind = "return" =>
          m.doc \in DOMAIN returns /\ m.qty = returns[m.doc].lines[m.line] /\ m.qty > 0
    /\ \A n \in DOMAIN returns, l \in Lines : returns[n].lines[l] > 0 =>
          [kind |-> "return", doc |-> n, line |-> l, qty |-> returns[n].lines[l]] \in movements
    /\ \A e \in journal :
          /\ e.kind = "return" => e.doc \in DOMAIN returns
          /\ e.kind = "receipt" => e.doc <= Cardinality(Entries("receipt"))
    /\ \A a \in applied : a.id <= Cardinality(Entries("receipt"))
    /\ \A r \in Requests : req[r].op = "pay" => req[r].amount <= req[r].open

\* Request r is handling invoice i.
Busy(r, i) == req[r] # Idle /\ req[r].invoice = i

\* An invoice nobody raced for has one request, and what that one has read is
\* still so.
InTurn ==
    \A i \in Invoices \ raced, r \in Requests : Busy(r, i) =>
        /\ \A q \in Requests : Busy(q, i) => q = r
        /\ req[r].op \in {"return", "returning", "void"} =>
              ~invoice[i].voided /\ ReturnsOf(i) = {}
        /\ req[r].op = "void" /\ item[i] # None => item[i].open = item[i].total
        /\ req[r].op = "pay" => item[i] # None /\ req[r].open = item[i].open

-----------------------------------------------------------------------------
(* Types *)

\* The product of two naturals is a natural.
LEMMA ProductType == \A a, b \in Nat : a * b \in Nat
OBVIOUS

\* A refund is a natural number.
LEMMA RefundType ==
  ASSUME NEW lines \in Back
  PROVE  Refund(lines) \in Nat
<1> DEFINE f == [l \in Lines |-> lines[l] * Price[l]]
<1>1. f \in [Lines -> Nat]
  BY ProductType DEF Back
<1>2. SumFunction(f) \in Nat
  <2> HIDE DEF f
  <2> QED BY <1>1, FunSumNat
<1> QED BY <1>2 DEF Refund

\* What a request has read, by what it does.
LEMMA RequestCases ==
  ASSUME TypeOK, NEW r \in Requests
  PROVE  /\ req \in [Requests -> Request]
         /\ req[r].op \in {"idle", "return", "returning", "void", "pay"}
         /\ req[r] = Idle <=> req[r].op = "idle"
         /\ req[r] # Idle => req[r].invoice \in Invoices
         /\ req[r].op \in {"return", "returning"} =>
               req[r] \in [op : {"return", "returning"}, invoice : Invoices, lines : Back,
                           cash : BOOLEAN]
         /\ req[r].op = "pay" =>
               req[r] \in [op : {"pay"}, invoice : Invoices, amount : Nat, open : Nat]
<1>1. req \in [Requests -> Request] /\ req[r] \in Request
  BY DEF TypeOK
<1> QED BY <1>1 DEF Request, Idle

\* The returns are rows numbered from 1.
LEMMA ReturnType ==
  ASSUME TypeOK
  PROVE  /\ Len(returns) \in Nat /\ DOMAIN returns = 1..Len(returns)
         /\ \A n \in DOMAIN returns : returns[n] \in Return
BY LenProperties, ElementOfSeq DEF TypeOK

\* The id of the next payment counts the receipts.
LEMMA NextPaymentType ==
  ASSUME IsFiniteSet(journal)
  PROVE  NextPayment \in Nat /\ NextPayment >= 1
         /\ Cardinality(Entries("receipt")) \in Nat
         /\ NextPayment = Cardinality(Entries("receipt")) + 1
         /\ IsFiniteSet(Entries("receipt"))
<1>1. IsFiniteSet(Entries("receipt"))
  BY FS_Subset DEF Entries
<1> QED BY <1>1, FS_CardinalityType DEF NextPayment

-----------------------------------------------------------------------------
(* The books: what the property says, sum by sum *)

Booked == [e \in Entries("return") |-> e.amount]
Refunds == [n \in DOMAIN returns |-> returns[n].refund]
CashReturns == {n \in DOMAIN returns : returns[n].cash}
CashRefunds == [n \in CashReturns |-> returns[n].refund]

Voids ==
    /\ \A i \in Invoices :
          {<<m.line, m.qty>> : m \in {n \in movements : n.kind = "void" /\ n.doc = i}}
             = {<<l, Sold[l]>> : l \in {k \in Lines : invoice[i].voided}}
    /\ \A i \in Invoices : invoice[i].voided <=> \E e \in Entries("reversal") : e.doc = i

Sums ==
    /\ SumFunction(Booked) = SumFunction(Refunds)
    /\ drawer.refunded = SumFunction(CashRefunds)

BooksInv == TypeOK /\ Rows /\ Voids /\ Sums

\* The movements of a line of a return add up to what came back of it.
LEMMA GoodsCameBack ==
  ASSUME TypeOK, Rows, NEW n \in DOMAIN returns, NEW l \in Lines
  PROVE  SumFunction([m \in {m \in movements : m.kind = "return" /\ m.doc = n /\ m.line = l}
                        |-> m.qty]) = returns[n].lines[l]
<1> DEFINE M == {m \in movements : m.kind = "return" /\ m.doc = n /\ m.line = l}
           f == [m \in M |-> m.qty]
           k == returns[n].lines[l]
           x == [kind |-> "return", doc |-> n, line |-> l, qty |-> k]
<1>1. k \in Nat
  BY ReturnType DEF Return, Back
<1>2. \A m \in M : m = x /\ k > 0
  BY DEF TypeOK, Rows, Movement
<1>3. k > 0 => x \in M
  BY DEF Rows
<1>4. CASE k = 0
  <2>1. DOMAIN f = {}
    BY <1>2, <1>4
  <2>2. SumFunction(f) = 0
    <3> HIDE DEF f
    <3> QED BY <2>1, FunSumOfNone
  <2> QED BY <1>4, <2>2
<1>5. CASE k # 0
  <2>1. M = {x}
    <3> HIDE DEF M, x, k
    <3> QED BY <1>1, <1>2, <1>3, <1>5
  <2>2. f \in [{x} -> Int] /\ f[x] = k
    <3>1. x.qty = k
      OBVIOUS
    <3> HIDE DEF M, x, k
    <3> QED BY <1>1, <2>1, <3>1
  <2>3. SumFunction(f) = k
    <3> HIDE DEF f, x, k
    <3> QED BY <2>2, FunSumOfOne
  <2> QED BY <2>3
<1> QED BY <1>4, <1>5

\* So the property follows from the invariant.
LEMMA BooksInvImplies == BooksInv => BooksFollow
<1> SUFFICES ASSUME BooksInv PROVE BooksFollow
  OBVIOUS
<1>1. \A n \in DOMAIN returns, l \in Lines :
         SumFunction([m \in {m \in movements : m.kind = "return" /\ m.doc = n /\ m.line = l}
                        |-> m.qty]) = returns[n].lines[l]
  BY GoodsCameBack DEF BooksInv
<1> QED BY <1>1 DEF BooksInv, Voids, Sums, Booked, Refunds, CashReturns, CashRefunds, BooksFollow

\* A step that writes none of the rows, and neither voids nor refunds.
LEMMA NoRowStep ==
  ASSUME BooksInv, UNCHANGED <<applied, returns, movements, journal>>, TypeOK',
         \A i \in Invoices : invoice'[i].voided = invoice[i].voided,
         drawer'.refunded = drawer.refunded,
         \A r \in Requests : req'[r].op = "pay" => req'[r].amount <= req'[r].open
  PROVE  BooksInv'
<1>1. Rows'
  BY DEF BooksInv, Rows, Entries
<1>2. Voids'
  <2>1. \A i \in Invoices :
           {k \in Lines : invoice'[i].voided} = {k \in Lines : invoice[i].voided}
    OBVIOUS
  <2> QED BY <2>1 DEF BooksInv, Voids, Entries
<1>3. Sums'
  BY DEF BooksInv, Sums, Booked, Entries, Refunds, CashReturns, CashRefunds
<1> QED BY <1>1, <1>2, <1>3 DEF BooksInv

\* A request that starts or goes on.
LEMMA RequestStep ==
  ASSUME BooksInv, NEW r \in Requests, NEW state \in Request,
         state.op = "pay" => state.amount <= state.open,
         req' = [req EXCEPT ![r] = state], raced' \subseteq Invoices,
         UNCHANGED <<invoice, item, applied, returns, movements, journal, drawer>>
  PROVE  BooksInv'
<1>1. TypeOK'
  BY DEF BooksInv, TypeOK
<1>2. \A q \in Requests : req'[q].op = "pay" => req'[q].amount <= req'[q].open
  BY DEF BooksInv, TypeOK, Rows
<1> QED BY <1>1, <1>2, NoRowStep

\* The request that finishes is idle.
LEMMA FinishType ==
  ASSUME BooksInv, NEW r \in Requests, Finish(r)
  PROVE  /\ req' \in [Requests -> Request] /\ raced' \subseteq Invoices
         /\ \A q \in Requests : req'[q].op = "pay" => req'[q].amount <= req'[q].open
BY DEF BooksInv, TypeOK, Rows, Finish, Request, Idle

-----------------------------------------------------------------------------
(* The books, step by step *)

\* A return that starts has lines, and no row yet.
LEMMA BeginReturnBooks ==
  ASSUME BooksInv, NEW r \in Requests, NEW i \in Invoices, NEW lines \in Back,
         NEW cash \in BOOLEAN, BeginReturn(r, i, lines, cash)
  PROVE  BooksInv'
<1> DEFINE state == [op |-> "return", invoice |-> i, lines |-> lines, cash |-> cash]
<1>1. state \in Request /\ state.op = "return"
  BY DEF Request
<1>2. /\ req' = [req EXCEPT ![r] = state] /\ raced' \subseteq Invoices
      /\ UNCHANGED <<invoice, item, applied, returns, movements, journal, drawer>>
  BY DEF BeginReturn, Start, BooksInv, TypeOK
<1> HIDE DEF state
<1> QED BY <1>1, <1>2, RequestStep

\* A void that starts has written nothing either.
LEMMA BeginVoidBooks ==
  ASSUME BooksInv, NEW r \in Requests, NEW i \in Invoices, NEW by, BeginVoid(r, i, by)
  PROVE  BooksInv'
<1> DEFINE state == [op |-> "void", invoice |-> i]
<1>1. state \in Request /\ state.op = "void"
  BY DEF Request
<1>2. /\ req' = [req EXCEPT ![r] = state] /\ raced' \subseteq Invoices
      /\ UNCHANGED <<invoice, item, applied, returns, movements, journal, drawer>>
  BY DEF BeginVoid, Start, BooksInv, TypeOK
<1> HIDE DEF state
<1> QED BY <1>1, <1>2, RequestStep

\* A payment that starts is within the balance it has read.
LEMMA BeginPayBooks ==
  ASSUME BooksInv, NEW r \in Requests, NEW i \in Invoices, NEW amount \in Nat,
         BeginPay(r, i, amount)
  PROVE  BooksInv'
<1> DEFINE state == [op |-> "pay", invoice |-> i, amount |-> amount, open |-> item[i].open]
<1>1. item[i] \in [total : Nat, open : Nat] /\ amount <= item[i].open
  BY DEF BeginPay, BooksInv, TypeOK
<1>2. state \in Request /\ state.amount <= state.open
  BY <1>1 DEF Request
<1>3. /\ req' = [req EXCEPT ![r] = state] /\ raced' \subseteq Invoices
      /\ UNCHANGED <<invoice, item, applied, returns, movements, journal, drawer>>
  BY DEF BeginPay, Start, BooksInv, TypeOK
<1> HIDE DEF state
<1> QED BY <1>2, <1>3, RequestStep

\* A return that has checked its lines only goes on.
LEMMA CheckLinesBooks ==
  ASSUME BooksInv, NEW r \in Requests, CheckLines(r)
  PROVE  BooksInv'
<1> DEFINE state == [req[r] EXCEPT !.op = "returning"]
<1>1. req[r] \in [op : {"return", "returning"}, invoice : Invoices, lines : Back, cash : BOOLEAN]
  BY RequestCases DEF CheckLines, BooksInv
<1>2. state \in Request /\ state.op = "returning"
  BY <1>1 DEF Request
<1>3. /\ req' = [req EXCEPT ![r] = state] /\ raced' \subseteq Invoices
      /\ UNCHANGED <<invoice, item, applied, returns, movements, journal, drawer>>
  BY DEF CheckLines, BooksInv, TypeOK
<1> HIDE DEF state
<1> QED BY <1>2, <1>3, RequestStep

\* A return adds its units, its entry and its cash.
LEMMA CommitReturnBooks ==
  ASSUME BooksInv, NEW r \in Requests, CommitReturn(r)
  PROVE  BooksInv'
<1> DEFINE lines == req[r].lines
           refund == Refund(lines)
           cash == req[r].cash /\ refund > 0
           id == Len(returns) + 1
           row == [invoice |-> req[r].invoice, lines |-> lines, refund |-> refund,
                   cash |-> cash]
           move(l) == [kind |-> "return", doc |-> id, line |-> l, qty |-> lines[l]]
           entry == [kind |-> "return", doc |-> id, amount |-> refund]
<1>1. /\ lines \in Back /\ req[r].invoice \in Invoices /\ req[r].cash \in BOOLEAN
      /\ refund \in Nat /\ cash \in BOOLEAN
  BY RequestCases, RefundType DEF CommitReturn, BooksInv
<1>2. /\ id <= MaxReturns /\ returns' = Append(returns, row)
      /\ movements' = movements \cup {move(l) : l \in {l \in Lines : lines[l] > 0}}
      /\ journal' = journal \cup {[kind |-> "return", doc |-> id, amount |-> a]
                                    : a \in {refund} \ {0}}
      /\ drawer' = [drawer EXCEPT !.refunded = @ + IF cash THEN refund ELSE 0]
      /\ UNCHANGED <<invoice, item, applied>> /\ Finish(r)
  BY DEF CommitReturn
<1>3. row \in Return
  BY <1>1 DEF Return
<1>4. Len(returns) \in Nat /\ DOMAIN returns = 1..Len(returns)
  BY ReturnType DEF BooksInv
<1> DEFINE old == DOMAIN returns
<1>5. /\ returns' \in Seq(Return) /\ Len(returns') = id
      /\ DOMAIN returns' = old \cup {id} /\ id \notin old /\ id \in Nat
      /\ \A n \in old : returns'[n] = returns[n]
      /\ returns'[id] = row
  <2> HIDE DEF row
  <2>1. returns \in Seq(Return)
    BY DEF BooksInv, TypeOK
  <2> QED BY <1>2, <1>3, <1>4, <2>1, AppendProperties
<1>6. \A l \in Lines : lines[l] \in Nat
  BY <1>1 DEF Back
<1>7. /\ movements' \subseteq Movement
      /\ \A m \in movements' : m \in movements \/ (\E l \in Lines : lines[l] > 0 /\ m = move(l))
      /\ \A l \in Lines : lines[l] > 0 => move(l) \in movements'
  <2>1. \A l \in Lines : lines[l] > 0 => move(l) \in Movement
    BY <1>5, <1>6 DEF Movement
  <2> HIDE DEF move
  <2> QED BY <1>2, <2>1 DEF BooksInv, TypeOK
<1>8. entry \in Entry
  BY <1>1, <1>5 DEF Entry
<1>9. /\ refund = 0 => journal' = journal
      /\ refund # 0 => journal' = journal \cup {entry}
  BY <1>2
<1>10. IsFiniteSet(journal) /\ IsFiniteSet(Entries("return"))
  BY FS_Subset DEF BooksInv, Rows, Entries
<1>11. IsFiniteSet(journal') /\ journal' \subseteq Entry
  <2> HIDE DEF entry, refund
  <2>1. journal \subseteq Entry /\ IsFiniteSet(journal \cup {entry})
    BY <1>10, FS_AddElement DEF BooksInv, TypeOK
  <2>2. CASE refund = 0
    BY <1>9, <1>10, <2>1, <2>2
  <2>3. CASE refund # 0
    BY <1>8, <1>9, <2>1, <2>3
  <2> QED BY <2>2, <2>3
<1>12. Entries("receipt")' = Entries("receipt") /\ Entries("reversal")' = Entries("reversal")
  BY <1>9 DEF Entries
<1>13. TypeOK'
  <2>1. drawer' \in [open : BOOLEAN, refunded : Nat]
    <3> DEFINE paid == IF cash THEN refund ELSE 0
    <3>1. drawer \in [open : BOOLEAN, refunded : Nat]
      BY DEF BooksInv, TypeOK
    <3>2. paid \in Nat
      <4> HIDE DEF refund, cash
      <4> QED BY <1>1
    <3>3. drawer' = [drawer EXCEPT !.refunded = @ + paid]
      BY <1>2
    <3> HIDE DEF paid
    <3> QED BY <3>1, <3>2, <3>3
  <2> HIDE DEF id
  <2> QED BY <1>2, <1>5, <1>7, <1>11, <2>1, FinishType DEF BooksInv, TypeOK
<1>14. Rows'
  <2>1. \A m \in movements' : m.kind = "return" =>
          m.doc \in DOMAIN returns' /\ m.qty = returns'[m.doc].lines[m.line] /\ m.qty > 0
    <3> SUFFICES ASSUME NEW m \in movements', m.kind = "return"
                 PROVE  /\ m.doc \in DOMAIN returns' /\ m.qty > 0
                        /\ m.qty = returns'[m.doc].lines[m.line]
      OBVIOUS
    <3>1. CASE m \in movements
      BY <1>5, <3>1 DEF BooksInv, Rows
    <3>2. ASSUME NEW l \in Lines, lines[l] > 0, m = move(l)
          PROVE  /\ m.doc \in DOMAIN returns' /\ m.qty > 0
                 /\ m.qty = returns'[m.doc].lines[m.line]
      <4>1. m.doc = id /\ m.qty = lines[l] /\ m.line = l /\ row.lines = lines
        BY <3>2
      <4> HIDE DEF id, row, lines
      <4> QED BY <1>5, <3>2, <4>1
    <3> QED BY <1>7, <3>1, <3>2
  <2>2. \A n \in DOMAIN returns', l \in Lines : returns'[n].lines[l] > 0 =>
          [kind |-> "return", doc |-> n, line |-> l, qty |-> returns'[n].lines[l]] \in movements'
    <3> SUFFICES ASSUME NEW n \in DOMAIN returns', NEW l \in Lines, returns'[n].lines[l] > 0
                 PROVE  [kind |-> "return", doc |-> n, line |-> l,
                         qty |-> returns'[n].lines[l]] \in movements'
      OBVIOUS
    <3>1. CASE n \in old
      BY <1>2, <1>5, <3>1 DEF BooksInv, Rows
    <3>2. CASE n = id
      <4>1. returns'[n].lines = lines
        BY <1>5, <3>2
      <4> QED BY <1>7, <3>2, <4>1
    <3> QED BY <1>5, <3>1, <3>2
  <2>3. \A e \in journal' :
          /\ e.kind = "return" => e.doc \in DOMAIN returns'
          /\ e.kind = "receipt" => e.doc <= Cardinality(Entries("receipt")')
    <3>1. entry.kind = "return" /\ entry.doc = id
      OBVIOUS
    <3> HIDE DEF entry
    <3> QED BY <1>5, <1>9, <1>12, <3>1 DEF BooksInv, Rows
  <2>4. \A a \in applied' : a.id <= Cardinality(Entries("receipt")')
    BY <1>2, <1>12 DEF BooksInv, Rows
  <2> QED BY <1>2, <1>11, <2>1, <2>2, <2>3, <2>4, FinishType DEF BooksInv, Rows
<1>15. Voids'
  <2>1. \A i \in Invoices :
           {n \in movements' : n.kind = "void" /\ n.doc = i}
              = {n \in movements : n.kind = "void" /\ n.doc = i}
    BY <1>2, <1>7
  <2> QED BY <1>2, <1>12, <2>1 DEF BooksInv, Voids
<1>16. Sums'
  <2>1. /\ IsFiniteSet(old) /\ CashReturns \subseteq old /\ IsFiniteSet(CashReturns)
    <3>1. CashReturns \subseteq old
      BY DEF CashReturns
    <3>2. IsFiniteSet(1..Len(returns))
      BY <1>4, FS_Interval
    <3> QED BY <1>4, <3>1, <3>2, FS_Subset
  <2>2. /\ Booked \in [Entries("return") -> Int]
        /\ Refunds \in [old -> Int] /\ CashRefunds \in [CashReturns -> Int]
    BY ReturnType DEF BooksInv, TypeOK, Entry, Entries, Return, Booked, Refunds, CashReturns,
                      CashRefunds
  <2>3. row.refund = refund /\ row.cash = cash
    OBVIOUS
  <2>4. SumFunction(Refunds') = SumFunction(Refunds) + refund
    <3>1. /\ Refunds' \in [old \cup {id} -> Int] /\ Refunds'[id] = refund
          /\ \A n \in old : Refunds'[n] = Refunds[n]
      <4> HIDE DEF row, refund, id
      <4>1. Refunds' = [n \in old \cup {id} |-> returns'[n].refund]
        BY <1>5 DEF Refunds
      <4>2. \A n \in old : returns'[n].refund = Refunds[n]
        BY <1>5 DEF Refunds
      <4> HIDE DEF old
      <4> QED BY <1>1, <1>5, <2>2, <2>3, <4>1, <4>2
    <3>2. SumFunction(Refunds') = SumFunction(Refunds) + Refunds'[id]
      <4> HIDE DEF id, refund, old
      <4>1. id \notin old /\ IsFiniteSet(old)
        BY <1>5, <2>1
      <4> QED BY <2>2, <3>1, <4>1, FunSumIn
    <3> QED BY <3>1, <3>2
  <2>5. SumFunction(Booked') = SumFunction(Booked) + refund
    <3>1. CASE refund = 0
      <4>1. Booked' = Booked
        BY <1>9, <3>1 DEF Booked, Entries
      <4>2. SumFunction(Booked) \in Int
        BY <1>10, <2>2, FunSumType
      <4> QED BY <3>1, <4>1, <4>2
    <3>2. CASE refund # 0
      <4>1. entry.kind = "return" /\ entry.doc = id /\ entry.amount = refund
        OBVIOUS
      <4> HIDE DEF entry, id
      <4>2. Entries("return")' = Entries("return") \cup {entry}
        BY <1>9, <3>2, <4>1 DEF Entries
      <4>3. entry \notin Entries("return")
        BY <1>5, <4>1 DEF BooksInv, Rows, Entries
      <4>4. /\ Booked' \in [Entries("return") \cup {entry} -> Int] /\ Booked'[entry] = refund
            /\ \A e \in Entries("return") : Booked'[e] = Booked[e]
        BY <1>1, <2>2, <4>1, <4>2 DEF Booked
      <4>5. SumFunction(Booked') = SumFunction(Booked) + Booked'[entry]
        <5> DEFINE S == Entries("return")
        <5>1. entry \notin S /\ IsFiniteSet(S)
          BY <1>10, <4>3
        <5>2. /\ Booked \in [S -> Int] /\ Booked' \in [S \cup {entry} -> Int]
              /\ \A e \in S : Booked'[e] = Booked[e]
          BY <2>2, <4>4
        <5> HIDE DEF S
        <5> QED BY <5>1, <5>2, FunSumIn
      <4> QED BY <4>4, <4>5
    <3> QED BY <3>1, <3>2
  <2>6. drawer'.refunded = SumFunction(CashRefunds')
    <3>1. drawer'.refunded = drawer.refunded + IF cash THEN refund ELSE 0
      BY <1>2 DEF BooksInv, TypeOK
    <3>2. drawer.refunded \in Nat
      BY DEF BooksInv, TypeOK
    <3>3. CASE cash
      <4>1. CashReturns' = CashReturns \cup {id} /\ id \notin CashReturns
        <5> HIDE DEF row, id, cash
        <5> QED BY <1>5, <2>3, <3>3 DEF CashReturns
      <4>2. /\ CashRefunds' \in [CashReturns \cup {id} -> Int] /\ CashRefunds'[id] = refund
            /\ \A n \in CashReturns : CashRefunds'[n] = CashRefunds[n]
        <5> HIDE DEF row, id, cash, refund
        <5>1. CashRefunds' = [n \in CashReturns \cup {id} |-> returns'[n].refund]
          BY <4>1 DEF CashRefunds
        <5>2. \A n \in CashReturns : returns'[n].refund = CashRefunds[n]
          BY <1>5, <2>1 DEF CashRefunds
        <5> QED BY <1>1, <1>5, <2>2, <2>3, <5>1, <5>2
      <4>3. SumFunction(CashRefunds') = SumFunction(CashRefunds) + refund
        <5> HIDE DEF id, refund, cash
        <5>1. id \notin CashReturns /\ IsFiniteSet(CashReturns)
          BY <2>1, <4>1
        <5>2. SumFunction(CashRefunds') = SumFunction(CashRefunds) + CashRefunds'[id]
          BY <2>2, <4>2, <5>1, FunSumIn
        <5> QED BY <4>2, <5>2
      <4> HIDE DEF refund, cash
      <4> QED BY <3>1, <3>3, <4>3 DEF BooksInv, Sums
    <3>4. CASE ~cash
      <4>1. CashReturns' = CashReturns
        <5> HIDE DEF row, id, cash
        <5> QED BY <1>5, <2>3, <3>4 DEF CashReturns
      <4>2. CashRefunds' = CashRefunds
        BY <1>5, <2>1, <4>1 DEF CashRefunds
      <4> HIDE DEF refund, cash
      <4> QED BY <3>1, <3>2, <3>4, <4>2 DEF BooksInv, Sums
    <3> QED BY <3>3, <3>4
  <2> QED BY <2>4, <2>5, <2>6 DEF BooksInv, Sums
<1> QED BY <1>13, <1>14, <1>15, <1>16 DEF BooksInv

\* A void brings back every unit of the invoice and reverses its entries.
LEMMA CommitVoidBooks ==
  ASSUME BooksInv, NEW r \in Requests, CommitVoid(r)
  PROVE  BooksInv'
<1> DEFINE i == req[r].invoice
           total == Refund(Sold)
           move(l) == [kind |-> "void", doc |-> i, line |-> l, qty |-> Sold[l]]
           entry == [kind |-> "reversal", doc |-> i, amount |-> total]
<1>1. i \in Invoices /\ i \in Nat
  BY RequestCases DEF CommitVoid, BooksInv
<1>2. /\ \A e \in Entries("reversal") : e.doc # i
      /\ movements' = movements \cup {move(l) : l \in Lines}
      /\ journal' = journal \cup {entry}
      /\ item' = [item EXCEPT ![i] = None]
      /\ applied' = {a \in applied : a.invoice # i}
      /\ invoice' = [invoice EXCEPT ![i].voided = TRUE]
      /\ Finish(r) /\ UNCHANGED <<returns, drawer>>
  BY DEF CommitVoid
<1>3. total \in Nat
  BY RefundType DEF Back
<1>4. entry \in Entry /\ entry.kind = "reversal" /\ entry.doc = i
  <2> HIDE DEF total, i
  <2> QED BY <1>1, <1>3 DEF Entry
<1> HIDE DEF entry
<1>5. \A l \in Lines : /\ move(l) \in Movement /\ move(l).kind = "void"
                       /\ move(l).doc = i /\ move(l).line = l /\ move(l).qty = Sold[l]
  <2> HIDE DEF i
  <2> QED BY <1>1 DEF Movement
<1> HIDE DEF move
<1>6. /\ invoice' \in [Invoices -> Invoice] /\ invoice'[i].voided
      /\ \A j \in Invoices \ {i} : invoice'[j] = invoice[j]
  <2>1. invoice \in [Invoices -> Invoice]
    BY DEF BooksInv, TypeOK
  <2>2. [invoice[i] EXCEPT !.voided = TRUE] \in Invoice
    BY <1>1, <2>1 DEF Invoice
  <2>3. [invoice[i] EXCEPT !.voided = TRUE].voided
    BY <1>1, <2>1 DEF Invoice
  <2> HIDE DEF i
  <2> QED BY <1>1, <1>2, <2>1, <2>2, <2>3
<1>7. TypeOK'
  <2>1. item' \in [Invoices -> [total : Nat, open : Nat] \cup {None}]
    <3> HIDE DEF i
    <3> QED BY <1>1, <1>2 DEF BooksInv, TypeOK
  <2>2. movements' \subseteq Movement /\ journal' \subseteq Entry
    BY <1>2, <1>4, <1>5 DEF BooksInv, TypeOK
  <2>3. applied' \subseteq applied
    BY <1>2
  <2> QED BY <1>2, <1>6, <2>1, <2>2, <2>3, FinishType DEF BooksInv, TypeOK
<1>8. Entries("receipt")' = Entries("receipt") /\ Entries("return")' = Entries("return")
  BY <1>2, <1>4 DEF Entries
<1>9. Entries("reversal")' = Entries("reversal") \cup {entry}
  BY <1>2, <1>4 DEF Entries
<1>10. Rows'
  <2>1. IsFiniteSet(journal') /\ IsFiniteSet(applied')
    <3>1. IsFiniteSet(journal) /\ IsFiniteSet(applied) /\ applied' \subseteq applied
      BY <1>2 DEF BooksInv, Rows
    <3>2. IsFiniteSet(journal \cup {entry})
      BY <3>1, FS_AddElement
    <3> QED BY <1>2, <3>1, <3>2, FS_Subset
  <2>2. \A m \in movements' : m.kind = "return" => m \in movements
    BY <1>2, <1>5
  <2>3. \A e \in journal' :
          /\ e.kind = "return" => e.doc \in DOMAIN returns'
          /\ e.kind = "receipt" => e.doc <= Cardinality(Entries("receipt")')
    BY <1>2, <1>4, <1>8 DEF BooksInv, Rows
  <2>4. \A a \in applied' : a.id <= Cardinality(Entries("receipt")')
    BY <1>2, <1>8 DEF BooksInv, Rows
  <2>5. \A n \in DOMAIN returns', l \in Lines : returns'[n].lines[l] > 0 =>
          [kind |-> "return", doc |-> n, line |-> l, qty |-> returns'[n].lines[l]] \in movements'
    BY <1>2 DEF BooksInv, Rows
  <2>6. \A m \in movements' : m.kind = "return" =>
          m.doc \in DOMAIN returns' /\ m.qty = returns'[m.doc].lines[m.line] /\ m.qty > 0
    BY <1>2, <2>2 DEF BooksInv, Rows
  <2> QED BY <1>2, <2>1, <2>3, <2>4, <2>5, <2>6, FinishType DEF BooksInv, Rows
<1>11. Voids'
  <2>1. ~invoice[i].voided
    BY <1>1, <1>2 DEF BooksInv, Voids
  <2>2. {m \in movements : m.kind = "void" /\ m.doc = i} = {}
    <3>1. {<<m.line, m.qty>> : m \in {n \in movements : n.kind = "void" /\ n.doc = i}} = {}
      BY <1>1, <2>1 DEF BooksInv, Voids
    <3>2. ASSUME NEW m \in movements, m.kind = "void" /\ m.doc = i PROVE FALSE
      <4>1. <<m.line, m.qty>> \in
              {<<n.line, n.qty>> : n \in {n \in movements : n.kind = "void" /\ n.doc = i}}
        BY <3>2
      <4> QED BY <3>1, <4>1
    <3> QED BY <3>2
  <2>3. {m \in movements' : m.kind = "void" /\ m.doc = i} = {move(l) : l \in Lines}
    BY <1>2, <1>5, <2>2
  <2>4. {<<m.line, m.qty>> : m \in {n \in movements' : n.kind = "void" /\ n.doc = i}}
           = {<<l, Sold[l]>> : l \in {k \in Lines : invoice'[i].voided}}
    BY <1>5, <1>6, <2>3
  <2>5. ASSUME NEW j \in Invoices \ {i}
        PROVE  {<<m.line, m.qty>> : m \in {n \in movements' : n.kind = "void" /\ n.doc = j}}
                  = {<<l, Sold[l]>> : l \in {k \in Lines : invoice'[j].voided}}
    <3>1. {n \in movements' : n.kind = "void" /\ n.doc = j}
             = {n \in movements : n.kind = "void" /\ n.doc = j}
      BY <1>2, <1>5
    <3> QED BY <1>6, <3>1 DEF BooksInv, Voids
  <2>6. \A j \in Invoices : invoice'[j].voided <=> \E e \in Entries("reversal")' : e.doc = j
    BY <1>4, <1>6, <1>9 DEF BooksInv, Voids
  <2> HIDE DEF i
  <2> QED BY <2>4, <2>5, <2>6 DEF Voids
<1>12. Sums'
  BY <1>2, <1>8 DEF BooksInv, Sums, Booked, Refunds, CashReturns, CashRefunds
<1> QED BY <1>7, <1>10, <1>11, <1>12 DEF BooksInv

\* A payment takes the next id, and leaves goods and drawer alone.
LEMMA CommitPayBooks ==
  ASSUME BooksInv, NEW r \in Requests, CommitPay(r)
  PROVE  BooksInv'
<1> DEFINE i == req[r].invoice
           open == req[r].open - req[r].amount
           id == NextPayment
           status == IF open = 0 THEN "paid" ELSE "partially_paid"
           payment == [id |-> id, invoice |-> i, amount |-> req[r].amount]
           entry == [kind |-> "receipt", doc |-> id, amount |-> req[r].amount]
<1>1. /\ i \in Invoices /\ req[r].amount \in Nat /\ open \in Nat
  <2>1. /\ req[r] \in [op : {"pay"}, invoice : Invoices, amount : Nat, open : Nat]
        /\ req[r].amount <= req[r].open
    BY RequestCases DEF CommitPay, BooksInv, Rows
  <2> QED BY <2>1
<1>2. /\ item[i] # None /\ id <= MaxPayments
      /\ item' = [item EXCEPT ![i].open = open]
      /\ applied' = applied \cup {payment} /\ journal' = journal \cup {entry}
      /\ invoice' = [invoice EXCEPT ![i].status = status]
      /\ Finish(r) /\ UNCHANGED <<returns, movements, drawer>>
  BY DEF CommitPay
<1>3. id \in Nat /\ id >= 1 /\ id = Cardinality(Entries("receipt")) + 1
      /\ IsFiniteSet(Entries("receipt")) /\ Cardinality(Entries("receipt")) \in Nat
  BY NextPaymentType DEF BooksInv, Rows
<1> HIDE DEF id, open, i
<1>4. /\ entry \in Entry /\ entry.kind = "receipt" /\ entry.doc = id
      /\ payment \in [id : 1..MaxPayments, invoice : Invoices, amount : Nat] /\ payment.id = id
  BY <1>1, <1>2, <1>3 DEF Entry
<1>5. status \in {"paid", "partially_paid"}
  OBVIOUS
<1> HIDE DEF entry, payment, status
<1>6. invoice' \in [Invoices -> Invoice] /\ \A j \in Invoices : invoice'[j].voided = invoice[j].voided
  <2>1. invoice \in [Invoices -> Invoice]
    BY DEF BooksInv, TypeOK
  <2>2. /\ [invoice[i] EXCEPT !.status = status] \in Invoice
        /\ [invoice[i] EXCEPT !.status = status].voided = invoice[i].voided
    BY <1>1, <1>5, <2>1 DEF Invoice
  <2> QED BY <1>1, <1>2, <2>1, <2>2
<1>7. item' \in [Invoices -> [total : Nat, open : Nat] \cup {None}]
  <2>1. item \in [Invoices -> [total : Nat, open : Nat] \cup {None}]
    BY DEF BooksInv, TypeOK
  <2>2. [item[i] EXCEPT !.open = open] \in [total : Nat, open : Nat]
    BY <1>1, <1>2, <2>1
  <2> QED BY <1>1, <1>2, <2>1, <2>2
<1>8. TypeOK'
  BY <1>2, <1>4, <1>6, <1>7, FinishType DEF BooksInv, TypeOK
<1>9. /\ Entries("return")' = Entries("return") /\ Entries("reversal")' = Entries("reversal")
      /\ Entries("receipt")' = Entries("receipt") \cup {entry}
  BY <1>2, <1>4 DEF Entries
<1>10. Cardinality(Entries("receipt")') = id
  <2>1. entry \notin Entries("receipt")
    BY <1>3, <1>4 DEF BooksInv, Rows, Entries
  <2>2. Cardinality(Entries("receipt") \cup {entry}) = Cardinality(Entries("receipt")) + 1
    BY <1>3, <2>1, FS_AddElement
  <2> QED BY <1>3, <1>9, <2>2
<1>11. Rows'
  <2>1. IsFiniteSet(journal') /\ IsFiniteSet(applied')
    <3>1. IsFiniteSet(journal \cup {entry}) /\ IsFiniteSet(applied \cup {payment})
      BY FS_AddElement DEF BooksInv, Rows
    <3> QED BY <1>2, <3>1
  <2>2. \A a \in applied : a.id <= Cardinality(Entries("receipt")) /\ a.id \in Nat
    BY DEF BooksInv, Rows, TypeOK
  <2>3. \A a \in applied' : a.id <= Cardinality(Entries("receipt")')
    BY <1>2, <1>3, <1>4, <1>10, <2>2
  <2>4. \A e \in journal : e.doc \in Nat
    BY DEF BooksInv, TypeOK, Entry
  <2>5. \A e \in journal' :
          /\ e.kind = "return" => e.doc \in DOMAIN returns'
          /\ e.kind = "receipt" => e.doc <= Cardinality(Entries("receipt")')
    <3>1. \A e \in journal : /\ e.kind = "return" => e.doc \in DOMAIN returns
                             /\ e.kind = "receipt" => e.doc <= Cardinality(Entries("receipt"))
      BY DEF BooksInv, Rows
    <3> QED BY <1>2, <1>3, <1>4, <1>10, <2>4, <3>1
  <2> QED BY <1>2, <2>1, <2>3, <2>5, FinishType DEF BooksInv, Rows
<1>12. Voids'
  <2>1. \A j \in Invoices :
           {k \in Lines : invoice'[j].voided} = {k \in Lines : invoice[j].voided}
    BY <1>6
  <2> QED BY <1>2, <1>6, <1>9, <2>1 DEF BooksInv, Voids
<1>13. Sums'
  BY <1>2, <1>9 DEF BooksInv, Sums, Booked, Refunds, CashReturns, CashRefunds
<1> QED BY <1>8, <1>11, <1>12, <1>13 DEF BooksInv

\* A request that is given up, midnight and the end of a shift write no row.
LEMMA FailBooks ==
  ASSUME BooksInv, NEW r \in Requests, Fail(r)
  PROVE  BooksInv'
<1>1. TypeOK'
  BY FinishType DEF Fail, BooksInv, TypeOK
<1> QED BY <1>1, NoRowStep, FinishType DEF Fail

\* Ageing keeps what an invoice is.
LEMMA AgeBooks ==
  ASSUME BooksInv, Age
  PROVE  BooksInv'
<1>1. /\ invoice' \in [Invoices -> Invoice]
      /\ \A i \in Invoices : invoice'[i].voided = invoice[i].voided
  <2> DEFINE aged(i) == [invoice[i] EXCEPT !.age = IF @ = "young" THEN "recent" ELSE "old"]
  <2>1. invoice' = [i \in Invoices |-> aged(i)]
    BY DEF Age
  <2>2. ASSUME NEW i \in Invoices
        PROVE  aged(i) \in Invoice /\ aged(i).voided = invoice[i].voided
    <3> DEFINE age == IF invoice[i].age = "young" THEN "recent" ELSE "old"
    <3>1. invoice[i] \in Invoice /\ age \in {"recent", "old"}
      BY DEF BooksInv, TypeOK
    <3>2. aged(i) = [invoice[i] EXCEPT !.age = age]
      OBVIOUS
    <3> HIDE DEF age, aged
    <3> QED BY <3>1, <3>2 DEF Invoice
  <2> HIDE DEF aged
  <2> QED BY <2>1, <2>2
<1>2. TypeOK'
  BY <1>1 DEF Age, BooksInv, TypeOK
<1>3. \A r \in Requests : req'[r].op = "pay" => req'[r].amount <= req'[r].open
  BY DEF Age, BooksInv, Rows
<1> QED BY <1>1, <1>2, <1>3, NoRowStep DEF Age

\* The end of a shift keeps what it has paid out.
LEMMA CloseShiftBooks ==
  ASSUME BooksInv, CloseShift
  PROVE  BooksInv'
<1>1. /\ drawer' \in [open : BOOLEAN, refunded : Nat]
      /\ drawer'.refunded = drawer.refunded
  BY DEF CloseShift, BooksInv, TypeOK
<1>2. TypeOK'
  BY <1>1 DEF CloseShift, BooksInv, TypeOK
<1>3. \A r \in Requests : req'[r].op = "pay" => req'[r].amount <= req'[r].open
  BY DEF CloseShift, BooksInv, Rows
<1> QED BY <1>1, <1>2, <1>3, NoRowStep DEF CloseShift

\* At the start nothing is booked.
LEMMA BooksInit == Init => BooksInv
<1> SUFFICES ASSUME Init PROVE BooksInv
  OBVIOUS
<1>1. TypeOK
  <2>1. \A i \in Invoices :
          [voided |-> FALSE, age |-> "young",
           status |-> IF Due[i] = 0 THEN "paid" ELSE "partially_paid"] \in Invoice
    BY DEF Invoice
  <2>2. invoice \in [Invoices -> Invoice]
    BY <2>1 DEF Init
  <2>3. item \in [Invoices -> [total : Nat, open : Nat] \cup {None}]
    BY DEF Init
  <2>4. returns \in Seq(Return) /\ Len(returns) <= MaxReturns
    BY EmptySeq DEF Init
  <2>5. req \in [Requests -> Request]
    BY DEF Init, Request
  <2> QED BY <2>2, <2>3, <2>4, <2>5 DEF Init, TypeOK
<1>2. DOMAIN returns = {}
  BY EmptySeq DEF Init
<1>3. Rows
  BY <1>2, FS_EmptySet DEF Init, Rows, Idle
<1>4. Voids
  <2>1. \A i \in Invoices : ~invoice[i].voided
    BY DEF Init
  <2> QED BY <2>1 DEF Init, Voids, Entries
<1>5. Sums
  <2>1. DOMAIN Booked = {} /\ DOMAIN Refunds = {} /\ DOMAIN CashRefunds = {}
    BY <1>2 DEF Init, Booked, Refunds, CashRefunds, CashReturns, Entries
  <2> QED BY <2>1, FunSumOfNone DEF Init, Sums
<1> QED BY <1>1, <1>3, <1>4, <1>5 DEF BooksInv

\* What a request may be asked for is a quantity of each line, or an amount.
LEMMA NextInputs ==
  ASSUME Next
  PROVE  \/ \E r \in Requests, i \in Invoices :
               \/ \E lines \in Back, cash \in BOOLEAN : BeginReturn(r, i, lines, cash)
               \/ \E by \in {"id", "barcode"} : BeginVoid(r, i, by)
               \/ \E amount \in Nat : BeginPay(r, i, amount)
         \/ \E r \in Requests :
               CheckLines(r) \/ CommitReturn(r) \/ CommitVoid(r) \/ CommitPay(r) \/ Fail(r)
         \/ Age \/ CloseShift
<1>1. ASSUME NEW n, NEW b \in [Lines -> 0..n] PROVE b \in Back
  BY <1>1 DEF Back
<1>2. \A i \in Invoices : \A amount \in 1..Due[i] : amount \in Nat
  OBVIOUS
<1> DEFINE most == Max({Sold[l] : l \in Lines})
           Inputs == {b \in [Lines -> 0..most] : \A l \in Lines : b[l] <= Sold[l]}
<1>3. Inputs \subseteq Back
  <2> HIDE DEF most
  <2> QED BY <1>1
<1>4. \/ \E r \in Requests, i \in Invoices :
           \/ \E lines \in Inputs, cash \in BOOLEAN : BeginReturn(r, i, lines, cash)
           \/ \E by \in {"id", "barcode"} : BeginVoid(r, i, by)
           \/ \E amount \in 1..Due[i] : BeginPay(r, i, amount)
      \/ \E r \in Requests :
           CheckLines(r) \/ CommitReturn(r) \/ CommitVoid(r) \/ CommitPay(r) \/ Fail(r)
      \/ Age \/ CloseShift
  BY DEF Next
<1> HIDE DEF Inputs
<1> QED BY <1>2, <1>3, <1>4

\* Every step keeps the books.
LEMMA BooksNext == BooksInv /\ [Next]_vars => BooksInv'
<1> SUFFICES ASSUME BooksInv, [Next]_vars PROVE BooksInv'
  OBVIOUS
<1>1. CASE UNCHANGED vars
  BY <1>1, NoRowStep DEF vars, BooksInv, TypeOK, Rows
<1>2. CASE Next
  BY <1>2, NextInputs, BeginReturnBooks, BeginVoidBooks, BeginPayBooks, CheckLinesBooks,
     CommitReturnBooks, CommitVoidBooks, CommitPayBooks, FailBooks, AgeBooks, CloseShiftBooks
<1> QED BY <1>1, <1>2

\* The invariant of the books: types, rows, voids and sums.
THEOREM BooksInvariant == Spec => []BooksInv
<1> QED BY BooksInit, BooksNext, PTL DEF Spec

\* Type correctness of returns, voids and payments on account.
THEOREM TypeCorrect == Spec => []TypeOK
<1>1. BooksInv => TypeOK
  BY DEF BooksInv
<1> QED BY <1>1, BooksInvariant, PTL

\* Goods, journal and drawer follow every return and every void, whatever
\* requests overlap (commits of app/services/returns_service.py and
\* void_sales_invoice of app/services/invoice_service.py).
THEOREM BooksAlwaysFollow == Spec => []BooksFollow
<1> QED BY BooksInvariant, BooksInvImplies, PTL

-----------------------------------------------------------------------------
(* Invoices handled in turn *)

Payments(i) == {a \in applied : a.invoice = i}
Amounts(i) == [a \in Payments(i) |-> a.amount]

\* What the property says of one invoice.
Settled(i) ==
    /\ Cardinality(ReturnsOf(i)) + (IF invoice[i].voided THEN 1 ELSE 0) <= 1
    /\ item[i] # None =>
          /\ item[i].open + SumFunction(Amounts(i)) = item[i].total
          /\ item[i].open = 0 <=> invoice[i].status = "paid"
    /\ item[i] = None => SumFunction(Amounts(i)) = 0

\* What the request r that handles invoice i has read is still so.
Fresh(r, i) ==
    /\ req[r].op \in {"return", "returning", "void"} =>
          ~invoice[i].voided /\ ReturnsOf(i) = {}
    /\ req[r].op = "void" /\ item[i] # None => item[i].open = item[i].total
    /\ req[r].op = "pay" => item[i] # None /\ req[r].open = item[i].open

SettledInv == BooksInv /\ InTurn /\ SettledInTurn

\* The invariant, invoice by invoice.
LEMMA SettledParts ==
  SettledInv <=>
    /\ BooksInv
    /\ \A i \in Invoices \ raced :
          /\ Settled(i)
          /\ \A r \in Requests : Busy(r, i) =>
                Fresh(r, i) /\ \A q \in Requests : Busy(q, i) => q = r
BY DEF SettledInv, InTurn, SettledInTurn, Settled, Fresh, Payments, Amounts

\* And after a step.
LEMMA SettledPartsNext ==
  ASSUME BooksInv',
         \A i \in Invoices \ raced' :
            /\ Settled(i)'
            /\ \A r \in Requests : Busy(r, i)' =>
                  Fresh(r, i)' /\ \A q \in Requests : Busy(q, i)' => q = r
  PROVE  SettledInv'
BY DEF SettledInv, InTurn, SettledInTurn, Settled, Fresh, Payments, Amounts

\* A step leaves the rows of invoice i alone.
Untouched(i) ==
    /\ invoice'[i].voided = invoice[i].voided /\ invoice'[i].status = invoice[i].status
    /\ item'[i] = item[i] /\ Payments(i)' = Payments(i) /\ ReturnsOf(i)' = ReturnsOf(i)

\* Then it is settled as before, and as fresh to a request that goes on.
LEMMA UntouchedKept ==
  ASSUME NEW i \in Invoices, Untouched(i)
  PROVE  /\ Settled(i) => Settled(i)'
         /\ \A r \in Requests : req'[r] = req[r] /\ Fresh(r, i) => Fresh(r, i)'
<1>1. Amounts(i)' = Amounts(i)
  BY DEF Amounts, Untouched
<1>2. Settled(i) => Settled(i)'
  BY <1>1 DEF Untouched, Settled
<1>3. \A r \in Requests : req'[r] = req[r] /\ Fresh(r, i) => Fresh(r, i)'
  BY DEF Untouched, Fresh
<1> QED BY <1>2, <1>3

\* A request starts: another one with the same invoice makes it raced.
LEMMA StartTurn ==
  ASSUME SettledInv, BooksInv', NEW r \in Requests, NEW i \in Invoices, NEW state,
         Start(r, i, state), state # Idle, state.invoice = i, Fresh(r, i)'
  PROVE  SettledInv'
<1>1. /\ req[r] = Idle /\ req' = [req EXCEPT ![r] = state]
      /\ raced' = raced \cup {j \in {i} : \E q \in Requests : Busy(q, i)}
      /\ UNCHANGED <<invoice, item, applied, returns, movements, journal, drawer>>
  BY DEF Start, Busy
<1>2. req \in [Requests -> Request]
  BY DEF SettledInv, BooksInv, TypeOK
<1>3. ASSUME NEW j \in Invoices \ raced'
      PROVE  /\ Settled(j)'
             /\ \A p \in Requests : Busy(p, j)' =>
                   Fresh(p, j)' /\ \A q \in Requests : Busy(q, j)' => q = p
  <2>1. j \notin raced /\ (j = i => \A q \in Requests : ~Busy(q, i))
    BY <1>1
  <2>2. /\ Settled(j)
        /\ \A p \in Requests : Busy(p, j) =>
              Fresh(p, j) /\ \A q \in Requests : Busy(q, j) => q = p
    BY <2>1, SettledParts
  <2>3. Untouched(j)
    BY <1>1 DEF Untouched, Payments, ReturnsOf
  <2>4. \A p \in Requests \ {r} : req'[p] = req[p] /\ (Busy(p, j)' <=> Busy(p, j))
    BY <1>1, <1>2 DEF Busy
  <2>5. Busy(r, j)' <=> j = i
    BY <1>1, <1>2 DEF Busy
  <2>6. Settled(j)'
    BY <2>2, <2>3, UntouchedKept
  <2>7. \A p \in Requests \ {r} : Fresh(p, j) => Fresh(p, j)'
    BY <2>3, <2>4, UntouchedKept
  <2>8. CASE j = i
    <3>1. \A p \in Requests : Busy(p, j)' => p = r
      BY <2>1, <2>4, <2>8
    <3> QED BY <2>6, <2>8, <3>1
  <2>9. CASE j # i
    <3>1. \A p \in Requests : Busy(p, j)' => p # r /\ Busy(p, j)
      BY <2>4, <2>5, <2>9
    <3> QED BY <2>2, <2>6, <2>7, <3>1
  <2> QED BY <2>8, <2>9
<1> QED BY <1>3, SettledPartsNext

\* A request is done: of its invoice, if nobody raced for it, it was the only
\* one, so only the rows of that invoice are to be looked at.
LEMMA FinishTurn ==
  ASSUME SettledInv, BooksInv', NEW r \in Requests, NEW i \in Invoices, Busy(r, i), Finish(r),
         \A j \in Invoices \ {i} : Untouched(j),
         Settled(i) /\ Fresh(r, i) => Settled(i)'
  PROVE  SettledInv'
<1>1. req' = [req EXCEPT ![r] = Idle] /\ raced' = raced
  BY DEF Finish
<1>2. req \in [Requests -> Request]
  BY DEF SettledInv, BooksInv, TypeOK
<1>3. \A j : ~Busy(r, j)' /\ \A p \in Requests \ {r} : req'[p] = req[p]
                                                       /\ (Busy(p, j)' <=> Busy(p, j))
  BY <1>1, <1>2 DEF Busy
<1>4. ASSUME NEW j \in Invoices \ raced'
      PROVE  /\ Settled(j)'
             /\ \A p \in Requests : Busy(p, j)' =>
                   Fresh(p, j)' /\ \A q \in Requests : Busy(q, j)' => q = p
  <2>1. /\ Settled(j)
        /\ \A p \in Requests : Busy(p, j) =>
              Fresh(p, j) /\ \A q \in Requests : Busy(q, j) => q = p
    BY <1>1, SettledParts
  <2>2. CASE j = i
    BY <1>3, <2>1, <2>2
  <2>3. CASE j # i
    BY <1>3, <2>1, <2>3, UntouchedKept
  <2> QED BY <2>2, <2>3
<1> QED BY <1>4, SettledPartsNext

\* A return, a void and a payment start with the rows just read.
LEMMA BeginTurn ==
  ASSUME SettledInv, BooksInv', NEW r \in Requests, NEW i \in Invoices,
         \/ \E lines \in Back, cash \in BOOLEAN : BeginReturn(r, i, lines, cash)
         \/ \E by \in {"id", "barcode"} : BeginVoid(r, i, by)
         \/ \E amount \in Nat : BeginPay(r, i, amount)
  PROVE  SettledInv'
<1>1. req \in [Requests -> Request]
  BY DEF SettledInv, BooksInv, TypeOK
<1>2. ASSUME NEW lines \in Back, NEW cash \in BOOLEAN, BeginReturn(r, i, lines, cash)
      PROVE  SettledInv'
  <2> DEFINE state == [op |-> "return", invoice |-> i, lines |-> lines, cash |-> cash]
  <2>1. state # Idle /\ state.invoice = i /\ state.op = "return"
    BY DEF Idle
  <2>2. Start(r, i, state) /\ ~invoice[i].voided /\ ReturnsOf(i) = {}
    BY <1>2 DEF BeginReturn
  <2> HIDE DEF state
  <2>3. Fresh(r, i)'
    BY <1>1, <2>1, <2>2 DEF Start, Fresh, ReturnsOf
  <2> QED BY <2>1, <2>2, <2>3, StartTurn
<1>3. ASSUME NEW by, BeginVoid(r, i, by)
      PROVE  SettledInv'
  <2> DEFINE state == [op |-> "void", invoice |-> i]
  <2>1. state # Idle /\ state.invoice = i /\ state.op = "void"
    BY DEF Idle
  <2>2. /\ Start(r, i, state) /\ ~invoice[i].voided /\ ReturnsOf(i) = {}
        /\ item[i] # None => item[i].open = item[i].total
    BY <1>3 DEF BeginVoid
  <2> HIDE DEF state
  <2>3. Fresh(r, i)'
    BY <1>1, <2>1, <2>2 DEF Start, Fresh, ReturnsOf
  <2> QED BY <2>1, <2>2, <2>3, StartTurn
<1>4. ASSUME NEW amount \in Nat, BeginPay(r, i, amount)
      PROVE  SettledInv'
  <2> DEFINE state == [op |-> "pay", invoice |-> i, amount |-> amount, open |-> item[i].open]
  <2>1. state # Idle /\ state.invoice = i /\ state.op = "pay" /\ state.open = item[i].open
    BY DEF Idle
  <2>2. Start(r, i, state) /\ item[i] # None
    BY <1>4 DEF BeginPay
  <2> HIDE DEF state
  <2>3. Fresh(r, i)'
    BY <1>1, <2>1, <2>2 DEF Start, Fresh, ReturnsOf
  <2> QED BY <2>1, <2>2, <2>3, StartTurn
<1> QED BY <1>2, <1>3, <1>4

\* A return goes on with the same invoice.
LEMMA CheckLinesTurn ==
  ASSUME SettledInv, BooksInv', NEW r \in Requests, CheckLines(r)
  PROVE  SettledInv'
<1>1. /\ req \in [Requests -> Request] /\ req[r].op = "return" /\ req[r] # Idle
      /\ req[r] \in [op : {"return", "returning"}, invoice : Invoices, lines : Back,
                     cash : BOOLEAN]
  BY RequestCases DEF CheckLines, SettledInv, BooksInv
<1>2. /\ req' = [req EXCEPT ![r].op = "returning"] /\ raced' = raced
      /\ UNCHANGED <<invoice, item, applied, returns>>
  BY DEF CheckLines
<1>3. /\ req'[r].op = "returning" /\ req'[r].invoice = req[r].invoice /\ req'[r] # Idle
      /\ \A q \in Requests \ {r} : req'[q] = req[q]
  BY <1>1, <1>2 DEF Idle
<1>4. ASSUME NEW j \in Invoices \ raced'
      PROVE  /\ Settled(j)'
             /\ \A p \in Requests : Busy(p, j)' =>
                   Fresh(p, j)' /\ \A q \in Requests : Busy(q, j)' => q = p
  <2>1. /\ Settled(j)
        /\ \A p \in Requests : Busy(p, j) =>
              Fresh(p, j) /\ \A q \in Requests : Busy(q, j) => q = p
    BY <1>2, SettledParts
  <2>2. Untouched(j)
    BY <1>2 DEF Untouched, Payments, ReturnsOf
  <2>3. \A p \in Requests : Busy(p, j)' <=> Busy(p, j)
    BY <1>1, <1>3 DEF Busy
  <2>4. Fresh(r, j) => Fresh(r, j)'
    BY <1>1, <1>3, <2>2 DEF Fresh, Untouched
  <2> QED BY <1>3, <2>1, <2>2, <2>3, <2>4, UntouchedKept
<1> QED BY <1>4, SettledPartsNext

\* A return is the only one of an invoice that is not voided.
LEMMA CommitReturnTurn ==
  ASSUME SettledInv, BooksInv', NEW r \in Requests, NEW i \in Invoices, Busy(r, i),
         CommitReturn(r)
  PROVE  SettledInv'
<1> DEFINE id == Len(returns) + 1
           row == [invoice |-> req[r].invoice, lines |-> req[r].lines,
                   refund |-> Refund(req[r].lines),
                   cash |-> req[r].cash /\ Refund(req[r].lines) > 0]
<1>1. /\ req[r].op = "returning" /\ req[r].invoice = i
      /\ returns' = Append(returns, row) /\ Finish(r) /\ UNCHANGED <<invoice, item, applied>>
  BY DEF CommitReturn, Busy
<1>2. row.invoice = i
  BY <1>1
<1> HIDE DEF row
<1>3. /\ returns \in Seq(Return) /\ returns' \in Seq(Return)
      /\ DOMAIN returns = 1..Len(returns) /\ Len(returns) \in Nat
      /\ DOMAIN returns' = 1..Len(returns') /\ Len(returns') = id
  <2>1. returns \in Seq(Return) /\ returns' \in Seq(Return)
    BY DEF SettledInv, BooksInv, TypeOK
  <2>2. Len(Append(returns, row)) = Len(returns) + 1
    BY <2>1
  <2> QED BY <1>1, <2>1, <2>2, LenProperties
<1>4. returns'[id] = row /\ \A n \in DOMAIN returns : returns'[n] = returns[n]
  BY <1>1, <1>3
<1>5. /\ ReturnsOf(i) = {} => ReturnsOf(i)' = {id}
      /\ \A j \in Invoices \ {i} : ReturnsOf(j)' = ReturnsOf(j)
  <2>1. DOMAIN returns' = DOMAIN returns \cup {id}
    BY <1>3
  <2> HIDE DEF id
  <2> QED BY <1>2, <1>4, <2>1 DEF ReturnsOf
<1>6. \A j \in Invoices \ {i} : Untouched(j)
  BY <1>1, <1>5 DEF Untouched, Payments
<1>7. Settled(i) /\ Fresh(r, i) => Settled(i)'
  <2> SUFFICES ASSUME Settled(i), Fresh(r, i) PROVE Settled(i)'
    OBVIOUS
  <2>1. Amounts(i)' = Amounts(i)
    BY <1>1 DEF Amounts, Payments
  <2>2. ReturnsOf(i)' = {id} /\ ~invoice'[i].voided
    BY <1>1, <1>5 DEF Fresh
  <2>3. Cardinality(ReturnsOf(i)') = 1
    BY <2>2, FS_Singleton
  <2> QED BY <1>1, <2>1, <2>2, <2>3 DEF Settled
<1> QED BY <1>1, <1>6, <1>7, FinishTurn

\* A void is of an invoice without returns, and takes its payments with it.
LEMMA CommitVoidTurn ==
  ASSUME SettledInv, BooksInv', NEW r \in Requests, NEW i \in Invoices, Busy(r, i),
         CommitVoid(r)
  PROVE  SettledInv'
<1>1. /\ req[r].op = "void"
      /\ item' = [item EXCEPT ![i] = None] /\ applied' = {a \in applied : a.invoice # i}
      /\ invoice' = [invoice EXCEPT ![i].voided = TRUE]
      /\ Finish(r) /\ UNCHANGED returns
  BY DEF CommitVoid, Busy
<1>2. /\ invoice \in [Invoices -> Invoice]
      /\ item \in [Invoices -> [total : Nat, open : Nat] \cup {None}]
  BY DEF SettledInv, BooksInv, TypeOK
<1>3. \A j \in Invoices \ {i} : Untouched(j)
  BY <1>1, <1>2 DEF Untouched, Payments, ReturnsOf
<1>4. Settled(i) /\ Fresh(r, i) => Settled(i)'
  <2> SUFFICES ASSUME Fresh(r, i) PROVE Settled(i)'
    OBVIOUS
  <2>1. ReturnsOf(i)' = {} /\ item'[i] = None
    BY <1>1, <1>2 DEF Fresh, ReturnsOf
  <2>2. Cardinality(ReturnsOf(i)') = 0
    BY <2>1, FS_EmptySet
  <2>3. DOMAIN Amounts(i)' = {}
    BY <1>1 DEF Amounts, Payments
  <2>4. SumFunction(Amounts(i)') = 0
    BY <2>3, FunSumOfNone
  <2>5. Cardinality(ReturnsOf(i)') + (IF invoice'[i].voided THEN 1 ELSE 0) <= 1
    BY <2>2
  <2> QED BY <2>1, <2>4, <2>5 DEF Settled
<1> QED BY <1>1, <1>3, <1>4, FinishTurn

\* A payment moves its amount from the balance to the payments.
LEMMA CommitPayTurn ==
  ASSUME SettledInv, BooksInv', NEW r \in Requests, NEW i \in Invoices, Busy(r, i),
         CommitPay(r)
  PROVE  SettledInv'
<1> DEFINE open == req[r].open - req[r].amount
           status == IF open = 0 THEN "paid" ELSE "partially_paid"
           payment == [id |-> NextPayment, invoice |-> i, amount |-> req[r].amount]
<1>1. /\ req[r].op = "pay" /\ item' = [item EXCEPT ![i].open = open]
      /\ applied' = applied \cup {payment}
      /\ invoice' = [invoice EXCEPT ![i].status = status]
      /\ Finish(r) /\ UNCHANGED returns
  BY DEF CommitPay, Busy
<1>2. /\ invoice \in [Invoices -> Invoice]
      /\ item \in [Invoices -> [total : Nat, open : Nat] \cup {None}]
  BY DEF SettledInv, BooksInv, TypeOK
<1>3. req[r].open \in Nat /\ req[r].amount \in Nat
  BY <1>1, RequestCases DEF SettledInv, BooksInv
<1>4. payment.invoice = i /\ payment.amount = req[r].amount /\ payment \notin applied
  <2>1. \A a \in applied : a.id <= Cardinality(Entries("receipt"))
    BY DEF SettledInv, BooksInv, Rows
  <2>2. /\ NextPayment = Cardinality(Entries("receipt")) + 1
        /\ Cardinality(Entries("receipt")) \in Nat
    BY NextPaymentType DEF SettledInv, BooksInv, Rows
  <2>3. payment.id = NextPayment
    OBVIOUS
  <2> HIDE DEF payment
  <2>4. payment \notin applied
    BY <2>1, <2>2, <2>3
  <2> QED BY <2>4 DEF payment
<1> HIDE DEF payment, status
<1>5. \A j \in Invoices \ {i} : Untouched(j)
  BY <1>1, <1>2, <1>4 DEF Untouched, Payments, ReturnsOf
<1>6. Settled(i) /\ Fresh(r, i) => Settled(i)'
  <2> SUFFICES ASSUME Settled(i), Fresh(r, i) PROVE Settled(i)'
    OBVIOUS
  <2>1. item[i] # None /\ item[i] \in [total : Nat, open : Nat] /\ req[r].open = item[i].open
    BY <1>1, <1>2 DEF Fresh
  <2>2. item'[i] \in [total : Nat, open : Nat]
        /\ item'[i].open = open /\ item'[i].total = item[i].total
    <3>1. item'[i] = [item[i] EXCEPT !.open = open]
      BY <1>1, <1>2
    <3>2. item' \in [Invoices -> [total : Nat, open : Nat] \cup {None}]
      BY DEF BooksInv, TypeOK
    <3>3. open \in Nat
      BY <1>1, <1>3 DEF SettledInv, BooksInv, Rows
    <3> HIDE DEF open
    <3> QED BY <2>1, <3>1, <3>3
  <2>3. item'[i] # None
    BY <2>2
  <2>4. invoice'[i].status = status /\ invoice'[i].voided = invoice[i].voided
    <3>1. invoice[i] \in Invoice /\ invoice'[i] = [invoice[i] EXCEPT !.status = status]
      BY <1>1, <1>2
    <3> QED BY <3>1 DEF Invoice
  <2>5. SumFunction(Amounts(i)') = SumFunction(Amounts(i)) + req[r].amount
        /\ SumFunction(Amounts(i)) \in Int
    <3>1. Payments(i)' = Payments(i) \cup {payment} /\ payment \notin Payments(i)
      BY <1>1, <1>4 DEF Payments
    <3>2. IsFiniteSet(Payments(i)) /\ \A a \in Payments(i) : a.amount \in Nat
      <4>1. IsFiniteSet(applied) /\ Payments(i) \subseteq applied
        BY DEF SettledInv, BooksInv, Rows, Payments
      <4>2. \A a \in applied : a.amount \in Nat
        BY DEF SettledInv, BooksInv, TypeOK
      <4> QED BY <4>1, <4>2, FS_Subset
    <3>3. /\ DOMAIN Amounts(i) = Payments(i) /\ DOMAIN Amounts(i)' = Payments(i) \cup {payment}
          /\ \A a \in Payments(i) : Amounts(i)[a] \in Int /\ Amounts(i)'[a] = Amounts(i)[a]
          /\ Amounts(i)'[payment] = req[r].amount
      BY <1>4, <3>1, <3>2 DEF Amounts
    <3>4. SumFunction(Amounts(i)') = SumFunction(Amounts(i)) + Amounts(i)'[payment]
      BY <1>3, <3>1, <3>2, <3>3, FunSumIn
    <3>5. Amounts(i) \in [Payments(i) -> Int]
      BY <3>2 DEF Amounts
    <3>6. SumFunction(Amounts(i)) \in Int
      BY <3>2, <3>5, FunSumType
    <3> QED BY <3>3, <3>4, <3>6
  <2>6. ReturnsOf(i)' = ReturnsOf(i)
    BY <1>1 DEF ReturnsOf
  <2>7. item[i].open + SumFunction(Amounts(i)) = item[i].total
    BY <2>1 DEF Settled
  <2>8. item'[i].open + SumFunction(Amounts(i)') = item'[i].total
    BY <1>3, <2>1, <2>2, <2>5, <2>7
  <2>9. item'[i].open = 0 <=> invoice'[i].status = "paid"
    BY <2>2, <2>4 DEF status
  <2>10. Cardinality(ReturnsOf(i)') + (IF invoice'[i].voided THEN 1 ELSE 0) <= 1
    BY <2>4, <2>6 DEF Settled
  <2> QED BY <2>3, <2>8, <2>9, <2>10 DEF Settled
<1> QED BY <1>1, <1>5, <1>6, FinishTurn

\* At the start nothing is returned, voided or paid.
LEMMA SettledInit == Init => SettledInv
<1> SUFFICES ASSUME Init PROVE SettledInv
  OBVIOUS
<1>1. ASSUME NEW i \in Invoices PROVE Settled(i)
  <2>1. ReturnsOf(i) = {} /\ DOMAIN Amounts(i) = {}
    BY EmptySeq DEF Init, ReturnsOf, Amounts, Payments
  <2>2. Cardinality(ReturnsOf(i)) = 0 /\ SumFunction(Amounts(i)) = 0
    BY <2>1, FS_EmptySet, FunSumOfNone
  <2>3. /\ ~invoice[i].voided
        /\ invoice[i].status = IF Due[i] = 0 THEN "paid" ELSE "partially_paid"
        /\ item[i] = IF Due[i] = 0 THEN None ELSE [total |-> Due[i], open |-> Due[i]]
    BY DEF Init
  <2> QED BY <2>2, <2>3 DEF Settled
<1>2. \A r \in Requests, i \in Invoices : ~Busy(r, i)
  BY DEF Init, Busy
<1> QED BY <1>1, <1>2, BooksInit, SettledParts

\* Every step keeps an invoice handled in turn settled.
LEMMA SettledNext == SettledInv /\ [Next]_vars => SettledInv'
<1> SUFFICES ASSUME SettledInv, [Next]_vars PROVE SettledInv'
  OBVIOUS
<1>1. BooksInv'
  BY BooksNext DEF SettledInv
<1>2. ASSUME raced' = raced, req' = req, \A j \in Invoices : Untouched(j) PROVE SettledInv'
  <2>1. \A i \in Invoices \ raced' :
           /\ Settled(i)'
           /\ \A r \in Requests : Busy(r, i)' =>
                 Fresh(r, i)' /\ \A q \in Requests : Busy(q, i)' => q = r
    <3>1. \A r \in Requests, i \in Invoices : Busy(r, i)' <=> Busy(r, i)
      BY <1>2 DEF Busy
    <3> QED BY <1>2, <3>1, UntouchedKept, SettledParts
  <2> QED BY <1>1, <2>1, SettledPartsNext
<1>3. CASE UNCHANGED vars
  BY <1>2, <1>3 DEF vars, Untouched, Payments, ReturnsOf
<1>4. ASSUME NEW r \in Requests, NEW i \in Invoices,
             \/ \E lines \in Back, cash \in BOOLEAN : BeginReturn(r, i, lines, cash)
             \/ \E by \in {"id", "barcode"} : BeginVoid(r, i, by)
             \/ \E amount \in Nat : BeginPay(r, i, amount)
      PROVE  SettledInv'
  BY <1>1, <1>4, BeginTurn
<1>5. ASSUME NEW r \in Requests,
             CommitReturn(r) \/ CommitVoid(r) \/ CommitPay(r) \/ Fail(r)
      PROVE  SettledInv'
  <2>1. req[r] # Idle /\ req[r].invoice \in Invoices
    <3>1. req[r].op \in {"returning", "void", "pay"} \/ req[r] # Idle
      BY <1>5 DEF CommitReturn, CommitVoid, CommitPay, Fail
    <3> QED BY <3>1, RequestCases DEF SettledInv, BooksInv
  <2>2. PICK i \in Invoices : Busy(r, i)
    BY <2>1 DEF Busy
  <2>3. CASE Fail(r)
    <3>1. \A j \in Invoices : Untouched(j)
      BY <2>3 DEF Fail, Untouched, Payments, ReturnsOf
    <3>2. Finish(r) /\ (Settled(i) => Settled(i)')
      BY <2>3, <3>1, UntouchedKept DEF Fail
    <3> QED BY <1>1, <2>2, <3>1, <3>2, FinishTurn
  <2> QED BY <1>1, <1>5, <2>2, <2>3, CommitReturnTurn, CommitVoidTurn, CommitPayTurn
<1>6. CASE Age
  <2>1. \A j \in Invoices : invoice'[j].voided = invoice[j].voided
                            /\ invoice'[j].status = invoice[j].status
    BY <1>6 DEF Age, SettledInv, BooksInv, TypeOK, Invoice
  <2> QED BY <1>2, <1>6, <2>1 DEF Age, Untouched, Payments, ReturnsOf
<1>7. CASE CloseShift
  BY <1>2, <1>7 DEF CloseShift, Untouched, Payments, ReturnsOf
<1>8. CASE Next
  BY <1>1, <1>4, <1>5, <1>6, <1>7, <1>8, NextInputs, CheckLinesTurn
<1> QED BY <1>3, <1>8

\* An invoice that one request at a time handles is returned or voided and not
\* both, its receivable is what was not yet paid, and a void leaves no payment
\* behind.
THEOREM InTurnIsSettled == Spec => []SettledInTurn
<1>1. SettledInv => SettledInTurn
  BY DEF SettledInv
<1> QED BY <1>1, SettledInit, SettledNext, PTL DEF Spec
=============================================================================

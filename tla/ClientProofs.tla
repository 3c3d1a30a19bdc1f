--------------------------- MODULE ClientProofs ---------------------------
(***************************************************************************)
(* Proofs about the state the client keeps between calls and tabs. About   *)
(* OfflineTender, for any number of carts, tenders, replays and intents:   *)
(* type correctness, that an invoice stays paid, that a row shown as       *)
(* synced is a sale, and that what was handed over is accounted for. About *)
(* AuthSession, for any number of tabs, requests and sign-ins: type        *)
(* correctness, that nothing waits for what is not under way, and that a   *)
(* removed token is forgotten by every tab that was told.                  *)
(***************************************************************************)
EXTENDS OfflineTender, SessionTabs, TLAPS

Session == INSTANCE AuthSession

USE OfflineAssumption

ServerType ==
    [cart : [Carts -> {"active", "locked", "paid", "cancelled"}],
     intent : [Ids -> IntentRecord], next : 1..(MaxIntents + 1),
     attempt : [Tenders -> Ids \cup {0}], invoice : [Carts -> Ids \cup {0}]]

\* What the server keeps, of any of its states v: intents not handed out yet do
\* not exist, and an invoiced cart is paid by a captured intent of its own.
ServerOK(v) ==
    /\ v \in ServerType
    /\ \A i \in Ids : i >= v.next => v.intent[i] = Absent
    /\ \A c \in Carts : v.invoice[c] # 0 =>
          /\ v.cart[c] = "paid"
          /\ v.intent[v.invoice[c]].cart = c
          /\ v.intent[v.invoice[c]].status = "captured"

\* v is a state the server may go on to: no invoice is lost.
Onward(v) ==
    /\ ServerOK(v)
    /\ \A c \in Carts : server.invoice[c] # 0 => v.invoice[c] # 0

-----------------------------------------------------------------------------
(* The calls of the server *)

\* An intent that is answered is an id of an intent.
LEMMA IntentForType ==
  ASSUME ServerOK(server), NEW c \in Carts, IntentAccepted(c)
  PROVE  /\ IntentFor(c) \in Ids
         /\ IntentFor(c) # server.next => server.intent[IntentFor(c)].status = "captured"
<1>1. server.next \in Nat /\ server.next >= 1
  BY DEF ServerOK, ServerType
<1>2. CASE server.invoice[c] = 0 /\ Completed(c) # {}
  BY <1>2 DEF IntentFor, Completed, IntentsOf
<1>3. CASE ~(server.invoice[c] = 0 /\ Completed(c) # {})
  BY <1>1, <1>3 DEF IntentFor, IntentAccepted, Ids
<1> QED BY <1>2, <1>3

\* A new intent, which deletes the open ones, leaves the captured ones.
LEMMA IntentOnward ==
  ASSUME ServerOK(server), NEW c \in Carts, IntentAccepted(c)
  PROVE  Onward(WithIntent(c))
<1> DEFINE new == [cart |-> c, status |-> "open", receipt |-> None]
           intents == [i \in Ids |->
               CASE i = server.next -> new
                 [] i \in IntentsOf(c) /\ server.intent[i].status = "open" -> Absent
                 [] OTHER -> server.intent[i]]
<1>1. CASE IntentFor(c) # server.next
  BY <1>1 DEF WithIntent, Onward
<1>2. CASE IntentFor(c) = server.next
  <2>1. server.next \in Ids
    BY <1>2, IntentForType
  <2>2. WithIntent(c) = [server EXCEPT !.intent = intents, !.next = server.next + 1]
    BY <1>2 DEF WithIntent
  <2>3. new \in IntentRecord /\ Absent \in IntentRecord
    BY DEF IntentRecord, Absent
  <2>4. intents \in [Ids -> IntentRecord]
    BY <2>3 DEF ServerOK, ServerType
  <2>5. server.next + 1 \in 1..(MaxIntents + 1)
    BY <2>1 DEF Ids
  <2>6. WithIntent(c) \in ServerType
    <3> HIDE DEF intents
    <3>1. server \in ServerType
      BY DEF ServerOK
    <3> QED BY <2>2, <2>4, <2>5, <3>1 DEF ServerType
  <2>7. \A i \in Ids : i >= server.next + 1 => intents[i] = Absent
    BY <2>1 DEF ServerOK, Ids
  <2>8. ASSUME NEW i \in Ids, server.intent[i].status = "captured"
        PROVE  intents[i] = server.intent[i]
    <3>1. i # server.next
      BY <2>1, <2>8 DEF ServerOK, Absent, Ids
    <3> QED BY <2>8, <3>1
  <2>9. ASSUME NEW d \in Carts, server.invoice[d] # 0
        PROVE  /\ server.cart[d] = "paid"
               /\ intents[server.invoice[d]].cart = d
               /\ intents[server.invoice[d]].status = "captured"
    <3>1. server.invoice[d] \in Ids
      BY <2>9 DEF ServerOK, ServerType
    <3>2. intents[server.invoice[d]] = server.intent[server.invoice[d]]
      BY <2>8, <2>9, <3>1 DEF ServerOK
    <3>3. /\ server.cart[d] = "paid"
          /\ server.intent[server.invoice[d]].cart = d
          /\ server.intent[server.invoice[d]].status = "captured"
      BY <2>9 DEF ServerOK
    <3> HIDE DEF intents
    <3> QED BY <3>2, <3>3
  <2> HIDE DEF intents
  <2>10. /\ WithIntent(c).intent = intents /\ WithIntent(c).next = server.next + 1
         /\ WithIntent(c).invoice = server.invoice /\ WithIntent(c).cart = server.cart
    BY <2>2 DEF ServerOK, ServerType
  <2> QED BY <2>6, <2>7, <2>9, <2>10 DEF ServerOK, Onward
<1> QED BY <1>1, <1>2

\* A capture leaves the intents that are captured.
LEMMA CaptureOnward ==
  ASSUME ServerOK(server), NEW i \in Ids, NEW key \in Tenders, NEW cash \in {"full", "part"},
         CaptureAccepted(i)
  PROVE  Onward(WithCapture(i, key, cash))
<1> DEFINE row == [server.intent[i] EXCEPT !.status = "captured", !.receipt = cash]
<1>1. CASE server.attempt[key] # 0 \/ server.intent[i].status = "captured"
  BY <1>1 DEF WithCapture, Onward
<1>2. CASE ~(server.attempt[key] # 0 \/ server.intent[i].status = "captured")
  <2> DEFINE v == WithCapture(i, key, cash)
             intents == [server.intent EXCEPT ![i] = row]
             attempts == [server.attempt EXCEPT ![key] = i]
  <2>1. v = [server EXCEPT !.intent = intents, !.attempt = attempts]
    BY <1>2 DEF WithCapture
  <2>2. row \in IntentRecord /\ row.status = "captured" /\ row.cart = server.intent[i].cart
    <3>1. server.intent[i] \in IntentRecord
      BY DEF ServerOK, ServerType
    <3> QED BY <3>1 DEF IntentRecord
  <2>3. server \in ServerType
    BY DEF ServerOK
  <2>4. intents \in [Ids -> IntentRecord] /\ attempts \in [Tenders -> Ids \cup {0}]
    BY <2>2, <2>3 DEF ServerType
  <2>5. /\ v \in ServerType /\ v.intent = intents
        /\ v.invoice = server.invoice /\ v.cart = server.cart /\ v.next = server.next
    <3> HIDE DEF intents, attempts, v
    <3> QED BY <2>1, <2>3, <2>4 DEF ServerType
  <2>6. i < server.next
    BY DEF CaptureAccepted, ServerOK, ServerType, Absent, Ids
  <2>7. \A j \in Ids : intents[j] = IF j = i THEN row ELSE server.intent[j]
    BY <2>3 DEF ServerType
  <2> HIDE DEF v, row, intents
  <2>8. ServerOK(v)
    <3>1. \A j \in Ids : j >= v.next => v.intent[j] = Absent
      BY <2>3, <2>5, <2>6, <2>7 DEF ServerOK, ServerType, Ids
    <3>2. ASSUME NEW c \in Carts, v.invoice[c] # 0
          PROVE  /\ v.cart[c] = "paid"
                 /\ v.intent[v.invoice[c]].cart = c
                 /\ v.intent[v.invoice[c]].status = "captured"
      <4>1. server.invoice[c] \in Ids
        BY <2>3, <2>5, <3>2 DEF ServerType
      <4> QED BY <2>2, <2>5, <2>7, <3>2, <4>1 DEF ServerOK
    <3> QED BY <2>5, <3>1, <3>2 DEF ServerOK
  <2> QED BY <2>5, <2>8 DEF v, Onward
<1> QED BY <1>1, <1>2

\* A finalize that is accepted invoices a cart that is paid.
LEMMA InvoiceOnward ==
  ASSUME ServerOK(server), NEW c \in Carts, NEW i \in Ids, FinalizeAccepted(c, i)
  PROVE  Onward(WithInvoice(c, i)) /\ WithInvoice(c, i).invoice[c] # 0
<1>1. CASE server.invoice[c] # 0
  BY <1>1 DEF WithInvoice, Onward
<1>2. CASE server.invoice[c] = 0
  <2> DEFINE v == WithInvoice(c, i)
             invoices == [server.invoice EXCEPT ![c] = i]
             carts == [server.cart EXCEPT ![c] = "paid"]
  <2>1. v = [server EXCEPT !.invoice = invoices, !.cart = carts]
    BY <1>2 DEF WithInvoice
  <2>2. server.intent[i].cart = c /\ server.intent[i].status = "captured" /\ i # 0
    BY <1>2 DEF FinalizeAccepted, Ids
  <2>3. server \in ServerType
    BY DEF ServerOK
  <2>4. /\ invoices \in [Carts -> Ids \cup {0}]
        /\ carts \in [Carts -> {"active", "locked", "paid", "cancelled"}]
    BY <2>3 DEF ServerType
  <2>5. /\ v \in ServerType /\ v.intent = server.intent /\ v.next = server.next
        /\ v.invoice = invoices /\ v.cart = carts
    <3> HIDE DEF invoices, carts, v
    <3> QED BY <2>1, <2>3, <2>4 DEF ServerType
  <2>6. \A d \in Carts : /\ invoices[d] = IF d = c THEN i ELSE server.invoice[d]
                         /\ carts[d] = IF d = c THEN "paid" ELSE server.cart[d]
    BY <2>3 DEF ServerType
  <2> HIDE DEF v, invoices, carts
  <2>7. ServerOK(v)
    BY <2>2, <2>5, <2>6 DEF ServerOK
  <2> QED BY <2>2, <2>5, <2>6, <2>7 DEF v, Onward
<1> QED BY <1>1, <1>2

\* A cancel leaves an invoiced cart.
LEMMA CancelOnward ==
  ASSUME ServerOK(server), NEW c \in Carts
  PROVE  Onward(WithCancel(c))
<1>1. server.cart[c] \in {"active", "locked", "paid", "cancelled"}
  BY DEF ServerOK, ServerType
<1>2. PICK status \in {"active", "locked", "paid", "cancelled"} :
         /\ WithCancel(c) = [server EXCEPT !.cart = [server.cart EXCEPT ![c] = status]]
         /\ server.cart[c] = "paid" => status = "paid"
  BY <1>1 DEF WithCancel
<1> QED BY <1>2 DEF ServerOK, ServerType, Onward

\* Locking an active cart leaves an invoiced one.
LEMMA LockOnward ==
  ASSUME ServerOK(server), NEW c \in Carts, server.cart[c] = "active"
  PROVE  Onward([server EXCEPT !.cart[c] = "locked"])
BY DEF ServerOK, ServerType, Onward

-----------------------------------------------------------------------------
(* The client *)

\* A tender whose row is stored, or that a replay has still to do or is doing.
Held(k) ==
    queue[k] # "absent" \/ \E f \in Flushes : k = flush[f].at \/ k \in flush[f].todo

\* The calls of pay() know what they are about, and a tender whose row was
\* stored is over: nothing changes its cart and its intent any more.
TenderInv ==
    /\ \A k \in Tenders :
          /\ tender[k].step # "unused" => tender[k].cart \in Carts
          /\ tender[k].step \in {"capture", "finalize"} => tender[k].intent \in Ids
          /\ Held(k) => /\ tender[k].step = "over"
                        /\ tender[k].cart \in Carts /\ tender[k].intent \in Ids
    /\ drawer # None => tender[drawer].step # "unused"

OfflineInv == TypeOK /\ ServerOK(server) /\ TenderInv /\ SyncedMeansSold /\ HandedOverKept

\* Staying is going on.
LEMMA SameOnward ==
  ASSUME ServerOK(server)
  PROVE  Onward(server)
BY DEF Onward

\* A step of the dialogs: tenders that are over stay as they are.
LEMMA DialogStep ==
  ASSUME OfflineInv, Onward(server'),
         UNCHANGED <<online, shown, signedIn, queue, flush, promised>>,
         drawer' \in Tenders \cup {None},
         drawer' # None => tender'[drawer'].step # "unused",
         cached' \in [Carts -> {"active", "locked", "gone"}],
         tender' \in [Tenders -> TenderRecord],
         \A k \in Tenders :
            /\ tender'[k].step # "unused" => tender'[k].cart \in Carts
            /\ tender'[k].step \in {"capture", "finalize"} => tender'[k].intent \in Ids
            /\ tender[k].step = "over" => tender'[k] = tender[k]
  PROVE  OfflineInv'
<1>1. TypeOK'
  BY DEF OfflineInv, TypeOK, Onward, ServerOK, ServerType
<1>2. \A k \in Tenders : Held(k)' <=> Held(k)
  BY DEF Held
<1>3. \A k \in Tenders : Held(k) => tender[k].cart \in Carts /\ tender'[k] = tender[k]
  BY DEF OfflineInv, TenderInv
<1>4. TenderInv'
  BY <1>2, <1>3 DEF OfflineInv, TenderInv
<1>5. SyncedMeansSold'
  BY <1>3 DEF OfflineInv, SyncedMeansSold, Onward, Held
<1>6. promised \subseteq Carts
  BY DEF OfflineInv, TypeOK
<1>7. HandedOverKept'
  BY <1>3, <1>6 DEF OfflineInv, HandedOverKept, Onward, Held
<1> QED BY <1>1, <1>4, <1>5, <1>7 DEF OfflineInv, Onward

\* A step of the replays: it does rows that are stored, and gives up a row that
\* waits only for a sale.
LEMMA ReplayStep ==
  ASSUME OfflineInv, Onward(server'), UNCHANGED <<drawer, tender, promised>>,
         online' \in BOOLEAN, shown' \in BOOLEAN, signedIn' \in BOOLEAN,
         cached' \in [Carts -> {"active", "locked", "gone"}],
         queue' \in [Tenders -> RowStatus], flush' \in [Flushes -> FlushRecord],
         \A k \in Tenders :
            /\ Held(k)' => Held(k)
            /\ queue'[k] = "synced" =>
                  queue[k] = "synced" \/ server'.invoice[tender[k].cart] # 0
            /\ queue[k] \in {"pending", "failed"} =>
                  queue'[k] \in {"pending", "failed"} \/ server'.invoice[tender[k].cart] # 0
  PROVE  OfflineInv'
<1>1. TypeOK'
  BY DEF OfflineInv, TypeOK, Onward, ServerOK, ServerType
<1>2. \A k \in Tenders : Held(k) => tender[k].cart \in Carts
  BY DEF OfflineInv, TenderInv
<1>3. TenderInv'
  BY DEF OfflineInv, TenderInv
<1>4. SyncedMeansSold'
  BY <1>2 DEF OfflineInv, SyncedMeansSold, Onward, Held
<1>5. promised \subseteq Carts
  BY DEF OfflineInv, TypeOK
<1>6. HandedOverKept'
  BY <1>2, <1>5 DEF OfflineInv, HandedOverKept, Onward, Held
<1> QED BY <1>1, <1>3, <1>4, <1>6 DEF OfflineInv, Onward

\* A tender is a record of its type, and not None.
LEMMA TenderFacts ==
  ASSUME OfflineInv, NEW k \in Tenders
  PROVE  /\ tender[k] \in TenderRecord /\ k # None /\ tender \in [Tenders -> TenderRecord]
         /\ drawer \in Tenders \cup {None}
         /\ cached \in [Carts -> {"active", "locked", "gone"}]
         /\ tender[k].step # "unused" => tender[k].cart \in Carts
         /\ tender[k].step \in {"capture", "finalize"} => tender[k].intent \in Ids
         /\ drawer # None => tender[drawer].step # "unused"
BY DEF OfflineInv, TypeOK, TenderInv

\* A step of the dialogs that gives one tender, not over yet, another record.
LEMMA OneTender ==
  ASSUME OfflineInv, Onward(server'),
         UNCHANGED <<online, shown, signedIn, queue, flush, promised>>,
         NEW k \in Tenders, NEW r \in TenderRecord, tender' = [tender EXCEPT ![k] = r],
         tender[k].step # "over", r.step # "unused", r.cart \in Carts,
         r.step \in {"capture", "finalize"} => r.intent \in Ids,
         drawer' \in {drawer, None, k},
         cached' \in [Carts -> {"active", "locked", "gone"}]
  PROVE  OfflineInv'
<1>1. /\ tender' \in [Tenders -> TenderRecord] /\ tender'[k] = r
      /\ \A j \in Tenders \ {k} : tender'[j] = tender[j]
  BY TenderFacts
<1>2. drawer' \in Tenders \cup {None}
  BY TenderFacts
<1>3. drawer' # None => tender'[drawer'].step # "unused"
  BY <1>1, TenderFacts
<1>4. \A j \in Tenders :
         /\ tender'[j].step # "unused" => tender'[j].cart \in Carts
         /\ tender'[j].step \in {"capture", "finalize"} => tender'[j].intent \in Ids
         /\ tender[j].step = "over" => tender'[j] = tender[j]
  BY <1>1, TenderFacts
<1> QED BY <1>1, <1>2, <1>3, <1>4, DialogStep

\* A step of the dialogs that leaves the tenders.
LEMMA NoTender ==
  ASSUME OfflineInv, Onward(server'),
         UNCHANGED <<online, shown, signedIn, tender, queue, flush, promised>>,
         drawer' \in {drawer, None},
         cached' \in [Carts -> {"active", "locked", "gone"}]
  PROVE  OfflineInv'
<1>1. drawer' \in Tenders \cup {None} /\ tender \in [Tenders -> TenderRecord]
  BY DEF OfflineInv, TypeOK
<1>2. \A j \in Tenders :
         /\ tender[j].step # "unused" => tender[j].cart \in Carts
         /\ tender[j].step \in {"capture", "finalize"} => tender[j].intent \in Ids
  BY TenderFacts
<1>3. drawer' # None => tender[drawer'].step # "unused"
  BY DEF OfflineInv, TenderInv
<1> QED BY <1>1, <1>2, <1>3, DialogStep

\* Opening the dialog draws a key for a cart.
LEMMA OpenDrawerStep ==
  ASSUME OfflineInv, NEW k \in Tenders, NEW c \in Carts, OpenDrawer(k, c)
  PROVE  OfflineInv'
<1> DEFINE r == [tender[k] EXCEPT !.step = "ready", !.cart = c]
<1>1. /\ tender' = [tender EXCEPT ![k] = r] /\ tender[k].step = "unused" /\ drawer' = k
      /\ cached' = [cached EXCEPT ![c] = "locked"]
      /\ UNCHANGED <<online, shown, signedIn, queue, flush, promised>>
  BY DEF OpenDrawer
<1>2. Onward(server')
  BY LockOnward, SameOnward DEF OpenDrawer, OfflineInv
<1>3. r \in TenderRecord /\ r.step = "ready" /\ r.cart = c
  <2>1. tender[k] \in TenderRecord
    BY TenderFacts
  <2> QED BY <2>1 DEF TenderRecord
<1>4. cached' \in [Carts -> {"active", "locked", "gone"}]
  BY <1>1, TenderFacts
<1> HIDE DEF r
<1> QED BY <1>1, <1>2, <1>3, <1>4, OneTender

\* pay() moves its tender,
LEMMA PayStep ==
  ASSUME OfflineInv, NEW k \in Tenders, NEW cash \in Cash, Pay(k, cash)
  PROVE  OfflineInv'
<1> DEFINE r == [tender[k] EXCEPT !.step = "intent", !.cash = cash]
<1>1. /\ tender' = [tender EXCEPT ![k] = r] /\ tender[k].step = "ready"
      /\ UNCHANGED <<server, drawer, cached, online, shown, signedIn, queue, flush, promised>>
  BY DEF Pay
<1>2. r \in TenderRecord /\ r.step = "intent" /\ r.cart \in Carts
  <2>1. tender[k] \in TenderRecord /\ tender[k].cart \in Carts /\ cash \in {"full", "part"}
    BY <1>1, TenderFacts
  <2> QED BY <2>1 DEF TenderRecord
<1>3. Onward(server')
  BY <1>1, SameOnward DEF OfflineInv
<1>4. cached' \in [Carts -> {"active", "locked", "gone"}]
  BY <1>1, TenderFacts
<1> HIDE DEF r
<1> QED BY <1>1, <1>2, <1>3, <1>4, OneTender

\* an answered intent is noted,
LEMMA IntentCreatedStep ==
  ASSUME OfflineInv, NEW k \in Tenders, IntentCreated(k)
  PROVE  OfflineInv'
<1> DEFINE c == tender[k].cart
           i == IntentFor(c)
           r == [tender[k] EXCEPT !.step = "capture", !.intent = i]
<1>1. /\ tender' = [tender EXCEPT ![k] = r] /\ tender[k].step = "intent"
      /\ server' = WithIntent(c) /\ IntentAccepted(c)
      /\ UNCHANGED <<drawer, cached, online, shown, signedIn, queue, flush, promised>>
  BY DEF IntentCreated
<1>2. c \in Carts /\ tender[k] \in TenderRecord
  BY <1>1, TenderFacts
<1>3. i \in Ids
  BY <1>1, <1>2, IntentForType DEF OfflineInv
<1>4. r \in TenderRecord /\ r.step = "capture" /\ r.cart = c /\ r.intent = i
  <2> HIDE DEF i
  <2> QED BY <1>2, <1>3 DEF TenderRecord
<1>5. Onward(server')
  BY <1>1, <1>2, IntentOnward DEF OfflineInv
<1>6. cached' \in [Carts -> {"active", "locked", "gone"}]
  BY <1>1, TenderFacts
<1> HIDE DEF r, i
<1> QED BY <1>1, <1>2, <1>3, <1>4, <1>5, <1>6, OneTender

\* What becomes of a tender whose attempt failed.
LEMMA AgainRecord ==
  ASSUME OfflineInv, NEW k \in Tenders, tender[k].step # "unused"
  PROVE  \E r \in TenderRecord :
            /\ Again(k) = [tender EXCEPT ![k] = r]
            /\ r.step \in {"ready", "over"} /\ r.cart \in Carts
<1>1. tender[k] \in TenderRecord /\ tender[k].cart \in Carts
  BY TenderFacts
<1>2. PICK step \in {"ready", "over"} :
         Again(k) = [tender EXCEPT ![k] = [tender[k] EXCEPT !.step = step]]
  BY DEF Again, Over
<1> DEFINE r == [tender[k] EXCEPT !.step = step]
<1>3. r \in TenderRecord /\ r.step = step /\ r.cart \in Carts
  BY <1>1 DEF TenderRecord
<1> HIDE DEF r
<1> QED BY <1>2, <1>3 DEF r

\* and the dialog can pay again after an error.
LEMMA IntentFailsStep ==
  ASSUME OfflineInv, NEW k \in Tenders, IntentFails(k)
  PROVE  OfflineInv'
<1>1. /\ tender' = Again(k) /\ tender[k].step = "intent"
      /\ UNCHANGED <<drawer, cached, online, shown, signedIn, queue, flush, promised>>
  BY DEF IntentFails
<1>2. tender[k].cart \in Carts
  BY <1>1, TenderFacts
<1>3. Onward(server')
  BY <1>2, SameOnward, IntentOnward DEF IntentFails, OfflineInv
<1>4. cached' \in [Carts -> {"active", "locked", "gone"}]
  BY <1>1, TenderFacts
<1>5. PICK r \in TenderRecord :
         /\ Again(k) = [tender EXCEPT ![k] = r]
         /\ r.step \in {"ready", "over"} /\ r.cart \in Carts
  BY <1>1, AgainRecord
<1> QED BY <1>1, <1>3, <1>4, <1>5, OneTender

\* The server goes on when it processes a call of a tender
LEMMA PayReachesStep ==
  ASSUME OfflineInv, NEW k \in Tenders, PayReaches(k)
  PROVE  OfflineInv'
<1>1. UNCHANGED <<online, shown, signedIn, drawer, cached, tender, queue, flush, promised>>
  BY DEF PayReaches, client
<1>2. tender[k].cart \in Carts /\ tender[k].intent \in Ids /\ tender[k].cash \in {"full", "part"}
  BY TenderFacts DEF PayReaches, TenderRecord
<1>3. Onward(server')
  BY <1>2, CaptureOnward, InvoiceOnward DEF PayReaches, OfflineInv
<1>4. cached' \in [Carts -> {"active", "locked", "gone"}]
  BY <1>1 DEF OfflineInv, TypeOK
<1> QED BY <1>1, <1>3, <1>4, NoTender

\* or answers its capture.
LEMMA CapturedStep ==
  ASSUME OfflineInv, NEW k \in Tenders, Captured(k)
  PROVE  OfflineInv'
<1> DEFINE r == [tender[k] EXCEPT !.step = "finalize"]
<1>1. /\ tender' = [tender EXCEPT ![k] = r] /\ tender[k].step = "capture"
      /\ UNCHANGED <<drawer, cached, online, shown, signedIn, queue, flush, promised>>
  BY DEF Captured
<1>2. /\ tender[k] \in TenderRecord
      /\ tender[k].cart \in Carts /\ tender[k].intent \in Ids /\ tender[k].cash \in {"full", "part"}
  BY <1>1, TenderFacts DEF TenderRecord
<1>3. r \in TenderRecord /\ r.step = "finalize" /\ r.cart \in Carts /\ r.intent \in Ids
  BY <1>2 DEF TenderRecord
<1>4. Onward(server')
  BY <1>2, CaptureOnward DEF Captured, OfflineInv
<1>5. cached' \in [Carts -> {"active", "locked", "gone"}]
  BY <1>1, TenderFacts
<1> HIDE DEF r
<1> QED BY <1>1, <1>3, <1>4, <1>5, OneTender

\* A finalize that is answered ends its tender and that of the open dialog.
LEMMA FinalizedStep ==
  ASSUME OfflineInv, NEW k \in Tenders, Finalized(k)
  PROVE  OfflineInv'
<1> DEFINE over(j) == [tender[j] EXCEPT !.step = "over"]
<1>1. /\ tender[k].step = "finalize" /\ drawer' = None
      /\ cached' = [cached EXCEPT ![tender[k].cart] = "gone"]
      /\ UNCHANGED <<online, shown, signedIn, queue, flush, promised>>
  BY DEF Finalized
<1>2. \A j \in Tenders : tender[j] \in TenderRecord
  BY TenderFacts
<1>3. \A j \in Tenders : /\ over(j) \in TenderRecord /\ over(j).step = "over"
                         /\ over(j).cart = tender[j].cart
  BY <1>2 DEF TenderRecord
<1>4. PICK J \in SUBSET Tenders :
         /\ \A j \in J : tender[j].step \in {"finalize", "ready"}
         /\ tender' = [j \in Tenders |-> IF j \in J THEN over(j) ELSE tender[j]]
  <2> HIDE DEF over
  <2>1. CASE drawer \in {None, k} \/ tender[drawer].step # "ready"
    <3>1. tender' = [tender EXCEPT ![k] = over(k)]
      BY <2>1 DEF Finalized, Over, over
    <3>2. tender' = [j \in Tenders |-> IF j \in {k} THEN over(j) ELSE tender[j]]
      BY <3>1, TenderFacts
    <3> QED BY <1>1, <3>2
  <2>2. CASE ~(drawer \in {None, k} \/ tender[drawer].step # "ready")
    <3>1. tender' = [tender EXCEPT ![k] = over(k), ![drawer] = over(drawer)]
      BY <2>2 DEF Finalized, over
    <3>2. drawer \in Tenders
      BY <2>2, TenderFacts
    <3>3. tender' = [j \in Tenders |-> IF j \in {k, drawer} THEN over(j) ELSE tender[j]]
      BY <2>2, <3>1, <3>2, TenderFacts
    <3> QED BY <1>1, <2>2, <3>2, <3>3
  <2> QED BY <2>1, <2>2
<1>5. tender[k].cart \in Carts /\ tender[k].intent \in Ids
  BY <1>1, TenderFacts
<1>6. Onward(server')
  BY <1>5, InvoiceOnward DEF Finalized, OfflineInv
<1>7. cached' \in [Carts -> {"active", "locked", "gone"}]
  BY <1>1, TenderFacts
<1>8. tender' \in [Tenders -> TenderRecord]
  BY <1>2, <1>3, <1>4
<1>9. \A j \in Tenders :
         /\ tender'[j].step # "unused" => tender'[j].cart \in Carts
         /\ tender'[j].step \in {"capture", "finalize"} => tender'[j].intent \in Ids
         /\ tender[j].step = "over" => tender'[j] = tender[j]
  <2> HIDE DEF over
  <2> QED BY <1>3, <1>4, TenderFacts
<1> HIDE DEF over
<1> QED BY <1>1, <1>6, <1>7, <1>8, <1>9, DialogStep

\* Closing the dialog may cancel its cart.
LEMMA CloseDrawerStep ==
  ASSUME OfflineInv, CloseDrawer
  PROVE  OfflineInv'
<1> DEFINE c == tender[drawer].cart
           r == [tender[drawer] EXCEPT !.step = "over"]
<1>1. /\ drawer' = None
      /\ tender' = IF tender[drawer].step = "ready" THEN [tender EXCEPT ![drawer] = r] ELSE tender
      /\ UNCHANGED <<online, shown, signedIn, queue, flush, promised>>
  BY DEF CloseDrawer, Over
<1>2. /\ drawer \in Tenders /\ tender[drawer] \in TenderRecord /\ c \in Carts
      /\ cached \in [Carts -> {"active", "locked", "gone"}]
  BY TenderFacts DEF CloseDrawer, OfflineInv, TypeOK
<1>3. Onward(server')
  BY <1>2, CancelOnward, SameOnward DEF CloseDrawer, OfflineInv
<1>4. cached' \in [Carts -> {"active", "locked", "gone"}]
  BY <1>2 DEF CloseDrawer
<1>5. r \in TenderRecord /\ r.step = "over" /\ r.cart \in Carts
  BY <1>2 DEF TenderRecord
<1> HIDE DEF r
<1>6. CASE tender[drawer].step = "ready"
  BY <1>1, <1>2, <1>3, <1>4, <1>5, <1>6, OneTender
<1>7. CASE tender[drawer].step # "ready"
  BY <1>1, <1>3, <1>4, <1>7, NoTender
<1> QED BY <1>6, <1>7

-----------------------------------------------------------------------------
(* The replays *)

\* A row that is replayed is a tender that is over, and a replay is a record.
LEMMA FlushFacts ==
  ASSUME OfflineInv, NEW f \in Flushes
  PROVE  /\ flush[f] \in FlushRecord /\ flush \in [Flushes -> FlushRecord]
         /\ queue \in [Tenders -> RowStatus]
         /\ cached \in [Carts -> {"active", "locked", "gone"}]
         /\ online \in BOOLEAN /\ shown \in BOOLEAN /\ signedIn \in BOOLEAN
         /\ flush[f].at # None => /\ flush[f].at \in Tenders
                                  /\ tender[flush[f].at].cart \in Carts
                                  /\ tender[flush[f].at].intent \in Ids
<1>1. flush[f] \in FlushRecord /\ flush \in [Flushes -> FlushRecord]
  BY DEF OfflineInv, TypeOK
<1>2. flush[f].at # None => flush[f].at \in Tenders
  BY <1>1 DEF FlushRecord
<1>3. flush[f].at # None => Held(flush[f].at)
  BY <1>2 DEF Held
<1> QED BY <1>1, <1>2, <1>3 DEF OfflineInv, TypeOK, TenderInv

\* A replay that starts takes rows that are stored.
LEMMA FlushStartsStep ==
  ASSUME OfflineInv, NEW g \in [Flushes -> FlushRecord], NEW f \in Flushes,
         \A e \in Flushes : g[e] = flush[e] \/ (g[e].todo = {} /\ g[e].at = None),
         flush' = g \/ flush' = [g EXCEPT ![f].todo = Pending],
         UNCHANGED queue
  PROVE  /\ flush' \in [Flushes -> FlushRecord]
         /\ \A k \in Tenders : Held(k)' => Held(k)
<1>1. flush' \in [Flushes -> FlushRecord]
  BY DEF FlushRecord, Pending
<1>2. ASSUME NEW k \in Tenders, NEW e \in Flushes, k = flush'[e].at \/ k \in flush'[e].todo
      PROVE  Held(k)
  <2>1. \/ k = g[e].at \/ k \in g[e].todo
        \/ k \in Pending
    BY <1>2 DEF FlushRecord
  <2>2. k # None
    OBVIOUS
  <2> QED BY <2>1, <2>2 DEF Held, Pending
<1> QED BY <1>1, <1>2 DEF Held

\* The shell follows the network, and starts a replay when it is back.
LEMMA RenderedStep ==
  ASSUME OfflineInv, Rendered
  PROVE  OfflineInv'
<1>1. /\ UNCHANGED <<server, online, signedIn, drawer, cached, tender, queue, promised>>
      /\ shown' = online
  BY DEF Rendered
<1>2. \/ flush' = flush
      \/ \E f \in Flushes : flush' = [flush EXCEPT ![f].todo = Pending]
  BY DEF Rendered, FlushStarts
<1>3. flush \in [Flushes -> FlushRecord] /\ \A e \in Flushes : flush[e] = flush[e]
  BY DEF OfflineInv, TypeOK
<1>4. /\ flush' \in [Flushes -> FlushRecord]
      /\ \A k \in Tenders : Held(k)' => Held(k)
  <2>1. CASE flush' = flush
    BY <1>1, <1>3, <2>1 DEF Held
  <2>2. ASSUME NEW f \in Flushes, flush' = [flush EXCEPT ![f].todo = Pending]
        PROVE  /\ flush' \in [Flushes -> FlushRecord]
               /\ \A k \in Tenders : Held(k)' => Held(k)
    BY <1>1, <1>3, <2>2, FlushStartsStep
  <2> QED BY <1>2, <2>1, <2>2
<1>5. Onward(server')
  BY <1>1, SameOnward DEF OfflineInv
<1> QED BY <1>1, <1>4, <1>5, ReplayStep DEF OfflineInv, TypeOK

\* A replay goes to its next row.
LEMMA FlushTakesStep ==
  ASSUME OfflineInv, NEW f \in Flushes, NEW k \in Tenders, FlushTakes(f, k)
  PROVE  OfflineInv'
<1> DEFINE r == [todo |-> flush[f].todo \ {k}, at |-> k, step |-> "capture"]
<1>1. /\ UNCHANGED <<server, online, shown, signedIn, drawer, cached, tender, queue, promised>>
      /\ flush' = [flush EXCEPT ![f] = r] /\ k \in flush[f].todo
  BY DEF FlushTakes
<1>2. r \in FlushRecord
  BY FlushFacts DEF FlushRecord
<1>3. flush' \in [Flushes -> FlushRecord]
  BY <1>1, <1>2, FlushFacts
<1>4. \A j \in Tenders : Held(j)' => Held(j)
  BY <1>1, FlushFacts DEF Held
<1>5. Onward(server')
  BY <1>1, SameOnward DEF OfflineInv
<1> QED BY <1>1, <1>3, <1>4, <1>5, FlushFacts, ReplayStep

\* The server processes a call of a replay,
LEMMA FlushReachesStep ==
  ASSUME OfflineInv, NEW f \in Flushes, FlushReaches(f)
  PROVE  OfflineInv'
<1>1. UNCHANGED <<online, shown, signedIn, drawer, cached, tender, queue, flush, promised>>
  BY DEF FlushReaches, client
<1>2. /\ flush[f].at \in Tenders /\ tender[flush[f].at].cart \in Carts
      /\ tender[flush[f].at].intent \in Ids
  BY FlushFacts DEF FlushReaches
<1>3. Onward(server')
  BY <1>2, CaptureOnward, InvoiceOnward DEF FlushReaches, ReplayCapture, OfflineInv
<1>4. cached' \in [Carts -> {"active", "locked", "gone"}]
  BY <1>1 DEF OfflineInv, TypeOK
<1> QED BY <1>1, <1>3, <1>4, NoTender

\* answers its capture,
LEMMA FlushCapturedStep ==
  ASSUME OfflineInv, NEW f \in Flushes, FlushCaptured(f)
  PROVE  OfflineInv'
<1>1. /\ UNCHANGED <<online, shown, signedIn, drawer, cached, tender, queue, promised>>
      /\ flush' = [flush EXCEPT ![f].step = "finalize"]
  BY DEF FlushCaptured
<1>2. /\ flush[f].at \in Tenders /\ tender[flush[f].at].intent \in Ids
      /\ flush[f] \in FlushRecord /\ flush \in [Flushes -> FlushRecord]
  BY FlushFacts DEF FlushCaptured
<1>3. Onward(server')
  BY <1>2, CaptureOnward DEF FlushCaptured, ReplayCapture, OfflineInv
<1>4. /\ flush' \in [Flushes -> FlushRecord]
      /\ \A e \in Flushes : flush'[e].at = flush[e].at /\ flush'[e].todo = flush[e].todo
  BY <1>1, <1>2 DEF FlushRecord
<1>5. \A j \in Tenders : Held(j)' => Held(j)
  BY <1>1, <1>4 DEF Held
<1> QED BY <1>1, <1>3, <1>4, <1>5, FlushFacts, ReplayStep

\* The row that a replay is at is marked, if it is there.
LEMMA MarkedStep ==
  ASSUME OfflineInv, NEW f \in Flushes, flush[f].at # None,
         NEW status \in {"synced", "failed"},
         queue' = Marked(flush[f].at, status), flush' = [flush EXCEPT ![f].at = None]
  PROVE  /\ queue' \in [Tenders -> RowStatus] /\ flush' \in [Flushes -> FlushRecord]
         /\ \A j \in Tenders : Held(j)' => Held(j)
         /\ \A j \in Tenders \ {flush[f].at} : queue'[j] = queue[j]
         /\ queue'[flush[f].at] \in {queue[flush[f].at], status}
<1>1. /\ flush[f].at \in Tenders /\ flush[f] \in FlushRecord
      /\ flush \in [Flushes -> FlushRecord] /\ queue \in [Tenders -> RowStatus]
  BY FlushFacts
<1>2. /\ queue' \in [Tenders -> RowStatus]
      /\ \A j \in Tenders \ {flush[f].at} : queue'[j] = queue[j]
      /\ queue'[flush[f].at] \in {queue[flush[f].at], status}
      /\ \A j \in Tenders : queue'[j] # "absent" => queue[j] # "absent"
  BY <1>1 DEF Marked, RowStatus
<1>3. /\ flush' \in [Flushes -> FlushRecord]
      /\ \A e \in Flushes : flush'[e].at \in {None, flush[e].at} /\ flush'[e].todo = flush[e].todo
  BY <1>1 DEF FlushRecord
<1>4. \A j \in Tenders : Held(j)' => Held(j)
  BY <1>2, <1>3 DEF Held
<1> QED BY <1>2, <1>3, <1>4

\* answers its finalize, which marks the row synced,
LEMMA FlushFinalizedStep ==
  ASSUME OfflineInv, NEW f \in Flushes, FlushFinalized(f)
  PROVE  OfflineInv'
<1> DEFINE k == flush[f].at
<1>1. /\ UNCHANGED <<online, shown, signedIn, drawer, cached, tender, promised>>
      /\ k # None /\ FinalizeAccepted(tender[k].cart, tender[k].intent)
      /\ server' = WithInvoice(tender[k].cart, tender[k].intent)
      /\ queue' = Marked(k, "synced") /\ flush' = [flush EXCEPT ![f].at = None]
  BY DEF FlushFinalized
<1>2. k \in Tenders /\ tender[k].cart \in Carts /\ tender[k].intent \in Ids
  BY <1>1, FlushFacts
<1>3. Onward(server') /\ server'.invoice[tender[k].cart] # 0
  BY <1>1, <1>2, InvoiceOnward DEF OfflineInv
<1>4. /\ queue' \in [Tenders -> RowStatus] /\ flush' \in [Flushes -> FlushRecord]
      /\ \A j \in Tenders : Held(j)' => Held(j)
      /\ \A j \in Tenders \ {k} : queue'[j] = queue[j]
  BY <1>1, MarkedStep
<1>5. /\ cached' \in [Carts -> {"active", "locked", "gone"}]
      /\ online' \in BOOLEAN /\ shown' \in BOOLEAN /\ signedIn' \in BOOLEAN
  BY <1>1, FlushFacts
<1> HIDE DEF k
<1>6. \A j \in Tenders :
         /\ queue'[j] = "synced" => queue[j] = "synced" \/ server'.invoice[tender[j].cart] # 0
         /\ queue[j] \in {"pending", "failed"} =>
               queue'[j] \in {"pending", "failed"} \/ server'.invoice[tender[j].cart] # 0
  BY <1>3, <1>4
<1> QED BY <1>1, <1>3, <1>4, <1>5, <1>6, ReplayStep

\* or fails, which marks it failed.
LEMMA FlushFailsStep ==
  ASSUME OfflineInv, NEW f \in Flushes, FlushFails(f)
  PROVE  OfflineInv'
<1> DEFINE k == flush[f].at
<1>1. /\ UNCHANGED <<server, online, shown, signedIn, drawer, cached, tender, promised>>
      /\ k # None
      /\ queue' = Marked(k, "failed") /\ flush' = [flush EXCEPT ![f].at = None]
  BY DEF FlushFails
<1>2. k \in Tenders
  BY <1>1, FlushFacts
<1>3. Onward(server')
  BY <1>1, SameOnward DEF OfflineInv
<1>4. /\ queue' \in [Tenders -> RowStatus] /\ flush' \in [Flushes -> FlushRecord]
      /\ \A j \in Tenders : Held(j)' => Held(j)
      /\ \A j \in Tenders \ {k} : queue'[j] = queue[j]
      /\ queue'[k] \in {queue[k], "failed"}
  BY <1>1, MarkedStep
<1>5. /\ cached' \in [Carts -> {"active", "locked", "gone"}]
      /\ online' \in BOOLEAN /\ shown' \in BOOLEAN /\ signedIn' \in BOOLEAN
  BY <1>1, FlushFacts
<1>6. /\ Onward(server') /\ UNCHANGED <<drawer, tender, promised>>
      /\ \A j \in Tenders :
            /\ queue'[j] = "synced" => queue[j] = "synced"
            /\ queue[j] \in {"pending", "failed"} => queue'[j] \in {"pending", "failed"}
  <2> HIDE DEF k
  <2> QED BY <1>1, <1>2, <1>3, <1>4
<1> HIDE DEF k
<1> QED BY <1>4, <1>5, <1>6, ReplayStep

-----------------------------------------------------------------------------
(* Network, session and page *)

\* A connection lost or back may start a flush and touches no row.
LEMMA NetworkStep ==
  ASSUME OfflineInv, NetworkChanges
  PROVE  OfflineInv'
<1>1. /\ UNCHANGED <<server, shown, signedIn, drawer, cached, tender, queue, flush, promised>>
      /\ online' = ~online
  BY DEF NetworkChanges, client
<1>2. Onward(server')
  BY <1>1, SameOnward DEF OfflineInv
<1>3. \A j \in Tenders : Held(j)' => Held(j)
  BY <1>1 DEF Held
<1>4. online' \in BOOLEAN
  BY <1>1
<1> QED BY <1>1, <1>2, <1>3, <1>4, ReplayStep DEF OfflineInv, TypeOK

\* A shell that mounts reads the carts and may start a replay.
LEMMA MountsTypes ==
  ASSUME OfflineInv, NEW g \in [Flushes -> FlushRecord], Mounts(g), UNCHANGED queue,
         \A e \in Flushes : g[e] = flush[e] \/ (g[e].todo = {} /\ g[e].at = None)
  PROVE  /\ flush' \in [Flushes -> FlushRecord]
         /\ \A k \in Tenders : Held(k)' => Held(k)
         /\ cached' \in [Carts -> {"active", "locked", "gone"}] /\ shown' \in BOOLEAN
<1>1. \/ flush' = g
      \/ \E f \in Flushes : flush' = [g EXCEPT ![f].todo = Pending]
  BY DEF Mounts
<1>2. cached' \in [Carts -> {"active", "locked", "gone"}] /\ shown' \in BOOLEAN
  BY DEF Mounts, OfflineInv, TypeOK
<1>3. CASE flush' = g
  BY <1>2, <1>3 DEF Held
<1>4. ASSUME NEW f \in Flushes, flush' = [g EXCEPT ![f].todo = Pending]
      PROVE  /\ flush' \in [Flushes -> FlushRecord]
             /\ \A k \in Tenders : Held(k)' => Held(k)
  BY <1>4, FlushStartsStep
<1> QED BY <1>1, <1>2, <1>3, <1>4

\* The page mounted after a sign-in starts with the rows kept on the device.
LEMMA SignInStep ==
  ASSUME OfflineInv, SignIn
  PROVE  OfflineInv'
<1>1. /\ UNCHANGED <<server, online, drawer, tender, queue, promised>>
      /\ signedIn' = TRUE /\ Mounts(flush)
  BY DEF SignIn
<1>2. flush \in [Flushes -> FlushRecord] /\ online \in BOOLEAN /\ queue \in [Tenders -> RowStatus]
  BY DEF OfflineInv, TypeOK
<1>3. /\ flush' \in [Flushes -> FlushRecord]
      /\ \A k \in Tenders : Held(k)' => Held(k)
      /\ cached' \in [Carts -> {"active", "locked", "gone"}] /\ shown' \in BOOLEAN
  BY <1>1, <1>2, MountsTypes
<1>4. Onward(server')
  BY <1>1, SameOnward DEF OfflineInv
<1> QED BY <1>1, <1>2, <1>3, <1>4, ReplayStep

\* A reload ends the tenders under way; the rows stay.
LEMMA ReloadStep ==
  ASSUME OfflineInv, Reload
  PROVE  OfflineInv'
<1> DEFINE g == [f \in Flushes |-> [todo |-> {}, at |-> None, step |-> "capture"]]
<1>1. /\ UNCHANGED <<server, online, signedIn, queue, promised>>
      /\ drawer' = None /\ Mounts(g)
      /\ tender' = [k \in Tenders |-> IF tender[k].step = "unused" THEN tender[k]
                                      ELSE [tender[k] EXCEPT !.step = "over"]]
  BY DEF Reload
<1>2. g \in [Flushes -> FlushRecord] /\ \A e \in Flushes : g[e].todo = {} /\ g[e].at = None
  BY DEF FlushRecord
<1>3. /\ flush' \in [Flushes -> FlushRecord]
      /\ \A k \in Tenders : Held(k)' => Held(k)
      /\ cached' \in [Carts -> {"active", "locked", "gone"}] /\ shown' \in BOOLEAN
  <2> HIDE DEF g
  <2> QED BY <1>1, <1>2, MountsTypes
<1>4. \A k \in Tenders :
         /\ tender'[k] \in TenderRecord
         /\ tender'[k].step \in {"unused", "over"}
         /\ tender'[k].step = "unused" <=> tender[k].step = "unused"
         /\ tender'[k].cart = tender[k].cart /\ tender'[k].intent = tender[k].intent
  <2> SUFFICES ASSUME NEW k \in Tenders
               PROVE  /\ tender'[k] \in TenderRecord
                      /\ tender'[k].step \in {"unused", "over"}
                      /\ tender'[k].step = "unused" <=> tender[k].step = "unused"
                      /\ tender'[k].cart = tender[k].cart /\ tender'[k].intent = tender[k].intent
    OBVIOUS
  <2>1. tender[k] \in TenderRecord
    BY TenderFacts
  <2> QED BY <1>1, <2>1 DEF TenderRecord
<1>5. tender' \in [Tenders -> TenderRecord]
  BY <1>1, <1>4
<1>6. TypeOK'
  BY <1>1, <1>3, <1>5 DEF OfflineInv, TypeOK
<1>7. TenderInv'
  BY <1>1, <1>3, <1>4 DEF OfflineInv, TenderInv
<1>8. SyncedMeansSold' /\ HandedOverKept'
  BY <1>1, <1>4 DEF OfflineInv, SyncedMeansSold, HandedOverKept
<1> QED BY <1>1, <1>6, <1>7, <1>8 DEF OfflineInv

\* Signing out removes the rows, and with them what was promised for them.
LEMMA SignOutStep ==
  ASSUME OfflineInv, SignOut
  PROVE  OfflineInv'
<1>1. /\ UNCHANGED <<server, online, cached, flush>>
      /\ signedIn' = FALSE /\ shown' = FALSE /\ drawer' = None
      /\ promised' = promised \ {tender[k].cart : k \in {k \in Tenders : queue[k] # "absent"}}
      /\ queue' = [k \in Tenders |-> "absent"]
      /\ tender' = [k \in Tenders |-> IF tender[k].step = "ready"
                                      THEN [tender[k] EXCEPT !.step = "over"] ELSE tender[k]]
  BY DEF SignOut
<1>2. \A k \in Tenders :
         /\ tender'[k] \in TenderRecord
         /\ tender'[k].step = "over" \/ tender'[k] = tender[k]
         /\ tender[k].step = "over" => tender'[k] = tender[k]
         /\ tender'[k].step = "unused" <=> tender[k].step = "unused"
         /\ tender'[k].cart = tender[k].cart /\ tender'[k].intent = tender[k].intent
  <2> SUFFICES ASSUME NEW k \in Tenders
               PROVE  /\ tender'[k] \in TenderRecord
                      /\ tender'[k].step = "over" \/ tender'[k] = tender[k]
                      /\ tender[k].step = "over" => tender'[k] = tender[k]
                      /\ tender'[k].step = "unused" <=> tender[k].step = "unused"
                      /\ tender'[k].cart = tender[k].cart /\ tender'[k].intent = tender[k].intent
    OBVIOUS
  <2>1. tender[k] \in TenderRecord
    BY TenderFacts
  <2> QED BY <1>1, <2>1 DEF TenderRecord
<1>3. \A k \in Tenders : Held(k)' => Held(k)
  BY <1>1 DEF Held
<1>4. TypeOK'
  BY <1>1, <1>2 DEF OfflineInv, TypeOK, RowStatus
<1>5. TenderInv'
  BY <1>1, <1>2, <1>3 DEF OfflineInv, TenderInv
<1>6. SyncedMeansSold'
  BY <1>1 DEF SyncedMeansSold
<1>7. HandedOverKept'
  BY <1>1 DEF OfflineInv, HandedOverKept
<1> QED BY <1>1, <1>4, <1>5, <1>6, <1>7 DEF OfflineInv

\* An attempt that fails with the network down stores the row of its tender.
LEMMA PayFailsStep ==
  ASSUME OfflineInv, NEW k \in Tenders, PayFails(k)
  PROVE  OfflineInv'
<1>1. /\ UNCHANGED <<server, online, shown, signedIn, cached, flush>>
      /\ tender[k].step \in {"capture", "finalize"}
  BY DEF PayFails
<1>2. Onward(server')
  BY <1>1, SameOnward DEF OfflineInv
<1>3. tender[k].cart \in Carts /\ tender[k].intent \in Ids /\ tender[k] \in TenderRecord
  BY <1>1, TenderFacts
<1>4. CASE online
  <2>1. tender' = Again(k) /\ UNCHANGED <<drawer, queue, promised>>
    BY <1>4 DEF PayFails
  <2>2. PICK r \in TenderRecord :
           /\ Again(k) = [tender EXCEPT ![k] = r]
           /\ r.step \in {"ready", "over"} /\ r.cart \in Carts
    BY <1>1, AgainRecord
  <2>3. cached' \in [Carts -> {"active", "locked", "gone"}]
    BY <1>1, TenderFacts
  <2> QED BY <1>1, <1>2, <2>1, <2>2, <2>3, OneTender
<1>5. CASE ~online
  <2> DEFINE over(j) == [tender[j] EXCEPT !.step = "over"]
  <2>1. /\ queue' = [queue EXCEPT ![k] = "pending"]
        /\ promised' = promised \cup {tender[k].cart} /\ drawer' = None
    BY <1>5 DEF PayFails, QueueTender
  <2>2. \A j \in Tenders : /\ over(j) \in TenderRecord /\ over(j).step = "over"
                           /\ over(j).cart = tender[j].cart /\ over(j).intent = tender[j].intent
    <3>1. \A j \in Tenders : tender[j] \in TenderRecord
      BY TenderFacts
    <3> QED BY <3>1 DEF TenderRecord
  <2>3. PICK J \in SUBSET Tenders :
           /\ k \in J /\ \A j \in J \ {k} : tender[j].step = "ready"
           /\ tender' = [j \in Tenders |-> IF j \in J THEN over(j) ELSE tender[j]]
    <3> HIDE DEF over
    <3>1. CASE drawer \in {None, k} \/ tender[drawer].step # "ready"
      <4>1. tender' = [tender EXCEPT ![k] = over(k)]
        BY <1>5, <3>1 DEF PayFails, Over, over
      <4>2. tender' = [j \in Tenders |-> IF j \in {k} THEN over(j) ELSE tender[j]]
        BY <4>1, TenderFacts
      <4> QED BY <4>2
    <3>2. CASE ~(drawer \in {None, k} \/ tender[drawer].step # "ready")
      <4>1. tender' = [tender EXCEPT ![k] = over(k), ![drawer] = over(drawer)]
        BY <1>5, <3>2 DEF PayFails, over
      <4>2. drawer \in Tenders
        BY <3>2, TenderFacts
      <4>3. tender' = [j \in Tenders |-> IF j \in {k, drawer} THEN over(j) ELSE tender[j]]
        BY <3>2, <4>1, <4>2, TenderFacts
      <4> QED BY <3>2, <4>2, <4>3
    <3> QED BY <3>1, <3>2
  <2>4. \A j \in Tenders :
           /\ tender'[j] \in TenderRecord
           /\ tender'[j].cart = tender[j].cart /\ tender'[j].intent = tender[j].intent
           /\ tender'[j].step = "over" \/ tender'[j] = tender[j]
           /\ tender[j].step = "over" => tender'[j].step = "over"
    <3> HIDE DEF over
    <3> QED BY <1>1, <2>2, <2>3, TenderFacts
  <2>5. tender'[k].step = "over"
    <3> HIDE DEF over
    <3> QED BY <2>2, <2>3
  <2>6. queue \in [Tenders -> RowStatus]
    BY DEF OfflineInv, TypeOK
  <2>7. \A j \in Tenders : Held(j)' => Held(j) \/ j = k
    BY <1>1, <2>1, <2>6 DEF Held
  <2>8. TypeOK'
    <3>1. tender' \in [Tenders -> TenderRecord]
      BY <2>3, <2>4
    <3> QED BY <1>1, <1>3, <2>1, <2>6, <3>1 DEF OfflineInv, TypeOK, RowStatus
  <2>9. TenderInv'
    <3>1. ASSUME NEW j \in Tenders, Held(j)'
          PROVE  tender'[j].step = "over" /\ tender'[j].cart \in Carts /\ tender'[j].intent \in Ids
      <4>1. CASE j = k
        BY <1>3, <2>4, <2>5, <4>1
      <4>2. CASE Held(j)
        BY <2>4, <4>2 DEF OfflineInv, TenderInv
      <4> QED BY <2>7, <3>1, <4>1, <4>2
    <3>2. ASSUME NEW j \in Tenders
          PROVE  /\ tender'[j].step # "unused" => tender'[j].cart \in Carts
                 /\ tender'[j].step \in {"capture", "finalize"} => tender'[j].intent \in Ids
      <4>1. CASE j \in J
        <5>1. tender[j].step \in {"capture", "finalize", "ready"}
          BY <1>1, <2>3, <4>1
        <5> QED BY <2>2, <2>3, <4>1, <5>1, TenderFacts
      <4>2. CASE j \notin J
        BY <2>3, <4>2, TenderFacts
      <4> QED BY <4>1, <4>2
    <3> QED BY <2>1, <3>1, <3>2 DEF TenderInv
  <2>10. SyncedMeansSold'
    BY <1>1, <2>1, <2>4, <2>6 DEF OfflineInv, SyncedMeansSold
  <2>11. HandedOverKept'
    BY <1>1, <2>1, <2>4, <2>6 DEF OfflineInv, HandedOverKept
  <2> QED BY <1>1, <2>8, <2>9, <2>10, <2>11 DEF OfflineInv
<1> QED BY <1>4, <1>5

-----------------------------------------------------------------------------
\* The invariant holds in every reachable state.
LEMMA OfflineInvariant == Spec => []OfflineInv
<1>1. Init => OfflineInv
  <2> SUFFICES ASSUME Init PROVE OfflineInv
    OBVIOUS
  <2>1. TypeOK /\ ServerOK(server)
    BY DEF Init, TypeOK, ServerOK, ServerType, Ids, IntentRecord, TenderRecord, FlushRecord,
           RowStatus, Absent
  <2>2. TenderInv
    BY DEF Init, TenderInv, Held
  <2> QED BY <2>1, <2>2 DEF Init, OfflineInv, SyncedMeansSold, HandedOverKept
<1>2. OfflineInv /\ [Next]_vars => OfflineInv'
  <2> SUFFICES ASSUME OfflineInv, [Next]_vars PROVE OfflineInv'
    OBVIOUS
  <2>1. ASSUME NEW k \in Tenders,
               \/ \E c \in Carts : OpenDrawer(k, c)
               \/ \E cash \in Cash : Pay(k, cash)
               \/ IntentCreated(k) \/ IntentFails(k) \/ PayReaches(k)
               \/ Captured(k) \/ Finalized(k) \/ PayFails(k)
        PROVE  OfflineInv'
    BY <2>1, OpenDrawerStep, PayStep, IntentCreatedStep, IntentFailsStep, PayReachesStep,
       CapturedStep, FinalizedStep, PayFailsStep
  <2>2. ASSUME CloseDrawer \/ Rendered \/ NetworkChanges \/ SignOut \/ SignIn \/ Reload
        PROVE  OfflineInv'
    BY <2>2, CloseDrawerStep, RenderedStep, NetworkStep, SignOutStep, SignInStep, ReloadStep
  <2>3. ASSUME NEW f \in Flushes, FlushStep(f) \/ FlushReaches(f) PROVE OfflineInv'
    BY <2>3, FlushTakesStep, FlushCapturedStep, FlushFinalizedStep, FlushFailsStep,
       FlushReachesStep DEF FlushStep
  <2>4. CASE UNCHANGED vars
    BY <2>4 DEF vars, client, OfflineInv, TypeOK, ServerOK, TenderInv, Held, SyncedMeansSold,
                HandedOverKept
  <2> QED BY <2>1, <2>2, <2>3, <2>4 DEF Next
<1> QED BY <1>1, <1>2, PTL DEF Spec

\* Type correctness of server, register, tenders, rows and replays.
THEOREM TypeCorrect == Spec => []TypeOK
<1>1. OfflineInv => TypeOK
  BY DEF OfflineInv
<1> QED BY <1>1, OfflineInvariant, PTL

\* A row shown as synced is a sale the server has.
THEOREM SyncedRowsAreSales == Spec => []SyncedMeansSold
<1>1. OfflineInv => SyncedMeansSold
  BY DEF OfflineInv
<1> QED BY <1>1, OfflineInvariant, PTL

\* What was handed over is invoiced or still in the queue.
THEOREM NothingHandedOverIsLost == Spec => []HandedOverKept
<1>1. OfflineInv => HandedOverKept
  BY DEF OfflineInv
<1> QED BY <1>1, OfflineInvariant, PTL

\* An invoice is of a paid cart and a captured intent of that cart.
THEOREM InvoicesArePaid == Spec => []SoldIsPaid
<1>1. OfflineInv => SoldIsPaid
  BY DEF OfflineInv, ServerOK, SoldIsPaid
<1> QED BY <1>1, OfflineInvariant, PTL

-----------------------------------------------------------------------------
(* The session: what a step makes of one tab *)

\* What NothingStranded says of the tab r.
Sound(r) ==
    /\ r.flight # "none" <=> Waiting(r) # {}
    /\ r.status = "booting" =>
          r.job \in {"restore", "grant", "refuse", "boot-me", "boot-rights"}
    /\ r.req[Job].step # "idle" <=>
          r.job \in {"boot-me", "boot-rights", "login-me", "login-rights"}

\* A tab between two steps.
TabOK(r) == r \in Tab /\ Sound(r)

\* The request s of the tab r is with the server.
Out(r, s) == s \in Slots /\ r.req[s].step \in {"sent", "resent"}

SessionInv ==
    /\ TabsWellTyped
    /\ \A t \in Tabs : Sound(tab[t])
    /\ RemovalReaches

\* AuthSession has the state of SessionTabs.
LEMMA SameState ==
  /\ Session!Tokens = Tokens /\ Session!Slots = Slots
  /\ \A r : Session!Waiting(r) = Waiting(r)
BY DEF Session!Tokens, Tokens, Session!Slots, Slots, Session!Waiting, Waiting

\* The store of a tab just loaded.
LEMMA LoadedOK ==
  ASSUME stored \in Tokens \cup {NoToken}
  PROVE  TabOK(Session!Loaded) /\ Session!Loaded.mem = stored
<1> DEFINE L == Session!Loaded
<1>1. L \in Tab
  BY SameState DEF Session!Loaded, Session!Idle, Tab, Request
<1>2. \A s \in Slots : L.req[s].step = "idle"
  BY SameState DEF Session!Loaded, Session!Idle
<1>3. Waiting(L) = {} /\ L.req[Job].step = "idle"
  BY <1>2 DEF Waiting, Slots
<1>4. Sound(L)
  BY <1>3 DEF Sound, Session!Loaded
<1> QED BY <1>1, <1>4 DEF TabOK, Session!Loaded

\* Clearing a tab stops it from waiting to boot.
LEMMA ClearedOK ==
  ASSUME NEW r \in Tab,
         r.flight # "none" <=> Waiting(r) # {},
         r.req[Job].step # "idle" <=>
            r.job \in {"boot-me", "boot-rights", "login-me", "login-rights"}
  PROVE  TabOK(Session!Cleared(r)) /\ Session!Cleared(r).mem = NoToken
<1> DEFINE c == Session!Cleared(r)
<1>1. c \in Tab /\ c.mem = NoToken
  BY DEF Session!Cleared, Tab
<1>2. c.status = "unauthenticated" /\ c.flight = r.flight /\ c.req = r.req /\ c.job = r.job
  BY DEF Session!Cleared, Tab
<1>3. Waiting(c) = Waiting(r)
  BY <1>2 DEF Waiting
<1> QED BY <1>1, <1>2, <1>3 DEF TabOK, Sound

\* A request that neither waits before nor after changes no wait.
LEMMA SameWaiting ==
  ASSUME NEW r, NEW q, NEW s \in Slots, \A u \in Slots \ {s} : q.req[u] = r.req[u],
         q.req[s].step # "refreshing", r.req[s].step # "refreshing"
  PROVE  Waiting(q) = Waiting(r)
BY DEF Waiting

\* What is known of the requests of a tab when one of them has changed.
RequestSet(r, q, s, v) ==
    /\ q.req \in [Slots -> Request] /\ Waiting(q) = Waiting(r)
    /\ q.req[s] = v /\ \A u \in Slots \ {s} : q.req[u] = r.req[u]

LEMMA RequestChanges ==
  ASSUME NEW r \in Tab, NEW q, NEW s \in Slots, NEW v \in Request,
         q.req = [r.req EXCEPT ![s] = v],
         v.step # "refreshing", r.req[s].step # "refreshing"
  PROVE  RequestSet(r, q, s, v)
<1>1. r.req \in [Slots -> Request]
  BY DEF Tab
<1>2. /\ q.req \in [Slots -> Request] /\ q.req[s] = v
      /\ \A u \in Slots \ {s} : q.req[u] = r.req[u]
  BY <1>1
<1> QED BY <1>2, SameWaiting DEF RequestSet

\* A request just sent.
LEMMA SentType ==
  ASSUME NEW r \in Tab
  PROVE  Session!Sent(r) \in Request /\ Session!Sent(r).step = "sent"
BY DEF Session!Sent, Request

LEMMA IdleType == Session!Idle \in Request /\ Session!Idle.step = "idle"
BY DEF Session!Idle, Request

LEMMA JobIsSlot == Job \in Slots
BY DEF Slots

\* A request that succeeds; the last one of a restore ends the boot.
LEMMA SucceedOK ==
  ASSUME NEW r, TabOK(r), NEW s, Out(r, s)
  PROVE  TabOK(Session!Succeed(r, s)) /\ Session!Succeed(r, s).mem = r.mem
<1> DEFINE q == Session!Succeed(r, s)
<1>1. r \in Tab /\ Sound(r) /\ s \in Slots /\ r.req[s].step # "refreshing" /\ r.req[s].step # "idle"
  BY DEF TabOK, Out
<1>2. CASE s # Job
  <2>1. q = [r EXCEPT !.req[s] = Session!Idle]
    BY <1>2 DEF Session!Succeed
  <2>2. q.req = [r.req EXCEPT ![s] = Session!Idle]
    BY <1>1, <2>1 DEF Tab
  <2>3. RequestSet(r, q, s, Session!Idle)
    <3> HIDE DEF q
    <3> QED BY <1>1, <2>2, IdleType, RequestChanges
  <2>4. q \in Tab /\ q.flight = r.flight /\ q.status = r.status /\ q.job = r.job /\ q.mem = r.mem
    BY <1>1, <2>1, <2>3 DEF Tab, RequestSet
  <2> QED BY <1>1, <1>2, <2>3, <2>4, JobIsSlot DEF TabOK, Sound, RequestSet
<1>3. CASE s = Job /\ r.job \in {"boot-rights", "login-rights"}
  <2>1. q = [r EXCEPT !.req[s] = Session!Idle, !.job = "none", !.status = "authenticated"]
    BY <1>3 DEF Session!Succeed
  <2>2. q.req = [r.req EXCEPT ![s] = Session!Idle]
    BY <1>1, <2>1 DEF Tab
  <2>3. RequestSet(r, q, s, Session!Idle)
    <3> HIDE DEF q
    <3> QED BY <1>1, <2>2, IdleType, RequestChanges
  <2>4. /\ q \in Tab /\ q.flight = r.flight /\ q.status = "authenticated"
        /\ q.job = "none" /\ q.mem = r.mem
    BY <1>1, <2>1, <2>3 DEF Tab, RequestSet
  <2> QED BY <1>1, <1>3, <2>3, <2>4, IdleType DEF TabOK, Sound, RequestSet
<1>4. CASE s = Job /\ r.job \notin {"boot-rights", "login-rights"}
  <2> DEFINE j == IF r.job = "boot-me" THEN "boot-rights" ELSE "login-rights"
  <2>1. q = [r EXCEPT !.req[s] = Session!Sent(r), !.job = j]
    BY <1>4 DEF Session!Succeed
  <2>2. q.req = [r.req EXCEPT ![s] = Session!Sent(r)]
    BY <1>1, <2>1 DEF Tab
  <2>3. RequestSet(r, q, s, Session!Sent(r))
    <3> HIDE DEF q
    <3> QED BY <1>1, <2>2, SentType, RequestChanges
  <2>4. /\ q \in Tab /\ q.flight = r.flight /\ q.status = r.status
        /\ q.job = j /\ q.mem = r.mem
    BY <1>1, <2>1, <2>3 DEF Tab, RequestSet
  <2>5. r.job \in {"boot-me", "login-me"}
    BY <1>1, <1>4 DEF Sound
  <2> QED BY <1>1, <1>4, <2>3, <2>4, <2>5, SentType DEF TabOK, Sound, RequestSet
<1> QED BY <1>2, <1>3, <1>4

\* What a failure leaves of a tab: sound, unless it was booting and is reset.
LEMMA FailOK ==
  ASSUME NEW r, TabOK(r), NEW s, Out(r, s)
  PROVE  /\ ~Session!FailureResets(r, s) =>
              TabOK(Session!Fail(r, s)) /\ Session!Fail(r, s).mem = r.mem
         /\ TabOK(Session!Cleared(Session!Fail(r, s)))
         /\ Session!Cleared(Session!Fail(r, s)).mem = NoToken
<1> DEFINE q == Session!Fail(r, s)
<1>1. r \in Tab /\ Sound(r) /\ s \in Slots /\ r.req[s].step # "refreshing" /\ r.req[s].step # "idle"
  BY DEF TabOK, Out
<1>2. q.req = [r.req EXCEPT ![s] = Session!Idle]
  BY <1>1 DEF Session!Fail, Tab
<1>3. RequestSet(r, q, s, Session!Idle)
  <2> HIDE DEF q
  <2> QED BY <1>1, <1>2, IdleType, RequestChanges
<1>4. /\ q \in Tab /\ q.flight = r.flight /\ q.status = r.status /\ q.mem = r.mem
      /\ q.job = IF s = Job THEN "none" ELSE r.job
  BY <1>1, <1>3 DEF Session!Fail, Tab, RequestSet
<1>5. /\ q.flight # "none" <=> Waiting(q) # {}
      /\ q.req[Job].step # "idle" <=>
            q.job \in {"boot-me", "boot-rights", "login-me", "login-rights"}
  BY <1>1, <1>3, <1>4, IdleType, JobIsSlot DEF Sound, RequestSet
<1>6. TabOK(Session!Cleared(q)) /\ Session!Cleared(q).mem = NoToken
  BY <1>4, <1>5, ClearedOK
<1>7. ASSUME ~Session!FailureResets(r, s) PROVE q.status = "booting" =>
         q.job \in {"restore", "grant", "refuse", "boot-me", "boot-rights"}
  BY <1>1, <1>4, <1>7 DEF Sound, Session!FailureResets
<1> QED BY <1>4, <1>5, <1>6, <1>7 DEF TabOK, Sound

\* A granted refresh lets all its callers ask again.
LEMMA RetriedOK ==
  ASSUME NEW r, TabOK(r), r.flight # "none"
  PROVE  TabOK(Session!Retried(r)) /\ Session!Retried(r).mem = r.mem
<1> DEFINE q == Session!Retried(r)
           again == [step |-> "resent", good |-> TRUE]
           asked == [s \in Slots |-> IF s \in Waiting(r) THEN again ELSE r.req[s]]
<1>1. r \in Tab /\ Sound(r) /\ again \in Request /\ r.req \in [Slots -> Request]
  BY DEF TabOK, Request, Tab
<1>2. asked \in [Slots -> Request]
  BY <1>1
<1>3. q = [[r EXCEPT !.access = "fresh", !.flight = "none", !.flightToken = NoToken]
              EXCEPT !.req = asked]
  BY SameState DEF Session!Retried
<1>4. /\ q \in Tab /\ q.flight = "none" /\ q.status = r.status /\ q.job = r.job
      /\ q.mem = r.mem /\ q.req = asked
  <2> HIDE DEF q, asked
  <2>1. \A f : f \in [Slots -> Request] =>
           LET n == [[r EXCEPT !.access = "fresh", !.flight = "none", !.flightToken = NoToken]
                        EXCEPT !.req = f]
           IN  /\ n \in Tab /\ n.flight = "none" /\ n.status = r.status /\ n.job = r.job
               /\ n.mem = r.mem /\ n.req = f
    BY <1>1 DEF Tab
  <2> QED BY <1>2, <1>3, <2>1
<1>5. \A s \in Slots : q.req[s].step # "refreshing" /\ (q.req[s].step = "idle" <=> r.req[s].step = "idle")
  BY <1>4 DEF Waiting
<1> QED BY <1>1, <1>4, <1>5, JobIsSlot DEF TabOK, Sound, Waiting

\* A refresh given up ends with all its callers, and a restore or sign-in that
\* is one of them. The flight of r may have been refused before it began.
LEMMA GivenUpOK ==
  ASSUME NEW r \in Tab,
         r.req[Job].step # "idle" <=>
            r.job \in {"boot-me", "boot-rights", "login-me", "login-rights"}
  PROVE  LET q == Session!Cleared(Session!GivenUp(r)) IN TabOK(q) /\ q.mem = NoToken
<1> DEFINE q == Session!GivenUp(r)
           left == [s \in Slots |-> IF s \in Waiting(r) THEN Session!Idle ELSE r.req[s]]
           job == IF Job \in Waiting(r) THEN "none" ELSE r.job
<1>1. left \in [Slots -> Request]
  BY IdleType DEF Tab
<1>2. q = [r EXCEPT !.flight = "none", !.flightToken = NoToken, !.req = left, !.job = job]
  BY SameState DEF Session!GivenUp
<1>3. q \in Tab /\ q.flight = "none" /\ q.job = job /\ q.req = left
  <2>1. job = "none" \/ job = r.job
    OBVIOUS
  <2> HIDE DEF q, left, job
  <2>2. q \in Tab
    BY <1>1, <1>2, <2>1 DEF Tab
  <2>3. q.flight = "none" /\ q.job = job /\ q.req = left
    BY <1>2 DEF Tab
  <2> QED BY <2>2, <2>3
<1>4. \A s \in Slots : q.req[s].step # "refreshing"
  BY <1>3, IdleType DEF Waiting
<1>5. Waiting(q) = {}
  BY <1>4 DEF Waiting
<1>6. q.req[Job].step # "idle" <=>
         q.job \in {"boot-me", "boot-rights", "login-me", "login-rights"}
  BY <1>3, JobIsSlot, IdleType DEF Waiting
<1> QED BY <1>3, <1>5, <1>6, ClearedOK

\* A refresh that is asked for, with the token m.
AskedWith(q, m) == [q EXCEPT !.flight = "asked", !.flightToken = m]

LEMMA FlightAsked ==
  ASSUME NEW q \in Tab, NEW m \in Tokens \cup {NoToken}
  PROVE  LET f == AskedWith(q, m)
         IN  /\ f \in Tab /\ f.flight = "asked" /\ f.status = q.status /\ f.job = q.job
             /\ f.mem = q.mem /\ f.req = q.req
<1>1. AskedWith(q, m) \in Tab
  BY DEF AskedWith, Tab
<1> QED BY <1>1 DEF AskedWith, Tab

\* The tab r when its request s has come to wait: sound if a refresh is under
\* way or is asked for now, and otherwise still fit to give up.
Joined(r, q) ==
    /\ q \in Tab /\ q.mem = r.mem /\ q.flight = r.flight
    /\ q.req[Job].step # "idle" <=>
          q.job \in {"boot-me", "boot-rights", "login-me", "login-rights"}
    /\ r.flight # "none" => TabOK(q)

LEMMA JoinedOK ==
  ASSUME NEW r, TabOK(r), NEW s \in Slots, r.req[s].step = "sent",
         NEW q, q = [r EXCEPT !.req[s].step = "refreshing"],
         NEW f, f = AskedWith(q, r.mem)
  PROVE  Joined(r, q) /\ TabOK(f) /\ f.mem = r.mem
<1> DEFINE v == [r.req[s] EXCEPT !.step = "refreshing"]
<1>1. r \in Tab /\ Sound(r) /\ r.req \in [Slots -> Request]
  BY DEF TabOK, Tab
<1>2. v \in Request /\ v.step = "refreshing"
  BY <1>1 DEF Request
<1>3. q.req = [r.req EXCEPT ![s] = v]
  BY <1>1 DEF Tab
<1>4. q.req \in [Slots -> Request] /\ q.req[s] = v /\ \A u \in Slots : u # s => q.req[u] = r.req[u]
  BY <1>1, <1>2, <1>3
<1>5. /\ q \in Tab /\ q.flight = r.flight /\ q.status = r.status /\ q.job = r.job
      /\ q.mem = r.mem
  BY <1>1, <1>4 DEF Tab
<1>6. /\ f \in Tab /\ f.flight = "asked" /\ f.status = r.status /\ f.job = r.job
      /\ f.mem = r.mem /\ f.req = q.req
  <2>1. r.mem \in Tokens \cup {NoToken}
    BY <1>1 DEF Tab
  <2> QED BY <1>5, <2>1, FlightAsked
<1>7. s \in Waiting(q) /\ s \in Waiting(f)
  BY <1>2, <1>4, <1>6 DEF Waiting
<1>8. q.req[Job].step # "idle" <=>
         q.job \in {"boot-me", "boot-rights", "login-me", "login-rights"}
  BY <1>1, <1>2, <1>4, <1>5, JobIsSlot DEF Sound
<1>9. r.flight # "none" => TabOK(q)
  BY <1>1, <1>5, <1>7, <1>8 DEF TabOK, Sound
<1>10. TabOK(f)
  BY <1>1, <1>5, <1>6, <1>7, <1>8 DEF TabOK, Sound
<1> QED BY <1>5, <1>6, <1>8, <1>9, <1>10 DEF Joined

\* The first request of a restore or a sign-in goes out.
LEMMA JobSentOK ==
  ASSUME NEW r \in Tab, NEW q \in Tab, Sound(r), r.req[Job].step = "idle",
         q.job \in {"boot-me", "login-me"},
         q.req = r.req, q.flight = r.flight,
         q.status = "booting" => q.job = "boot-me"
  PROVE  LET p == [q EXCEPT !.req[Job] = Session!Sent(q)]
         IN  TabOK(p) /\ p.mem = q.mem
<1> DEFINE p == [q EXCEPT !.req[Job] = Session!Sent(q)]
<1>1. p.req = [r.req EXCEPT ![Job] = Session!Sent(q)]
  BY DEF Tab
<1>2. RequestSet(r, p, Job, Session!Sent(q))
  <2> HIDE DEF p
  <2> QED BY <1>1, SentType, JobIsSlot, RequestChanges
<1>3. /\ p \in Tab /\ p.flight = r.flight /\ p.status = q.status /\ p.job = q.job
      /\ p.mem = q.mem
  BY <1>2 DEF Tab, RequestSet
<1> HIDE DEF p
<1>4. TabOK(p) /\ p.mem = q.mem
  BY <1>2, <1>3, SentType DEF TabOK, Sound, RequestSet
<1> QED BY <1>4 DEF p

-----------------------------------------------------------------------------
(* The session: every step *)

\* The two kinds of step most handlers are: the tab goes on with its token, or
\* its session is reset.
GoesOn(t) == \E r : TabOK(r) /\ r.mem = tab[t].mem /\ Session!Become(t, r)

IsReset(t) ==
    \E r : TabOK(Session!Cleared(r)) /\ Session!Cleared(r).mem = NoToken /\ Session!ResetTo(t, r)

LEMMA TabsAreOK ==
  ASSUME SessionInv, NEW t \in Tabs
  PROVE  TabOK(tab[t])
BY DEF SessionInv, TabsWellTyped, TabOK

\* A tab that goes on keeps the invariant of all tabs.
LEMMA GoesOnOK ==
  ASSUME SessionInv, NEW t \in Tabs, GoesOn(t), live' \subseteq Tokens, issued' \in 0..MaxLogins
  PROVE  SessionInv'
<1>1. PICK r : TabOK(r) /\ r.mem = tab[t].mem /\ Session!Become(t, r)
  BY DEF GoesOn
<1>2. tab' = [tab EXCEPT ![t] = r] /\ stored' = stored /\ events' = events
  BY <1>1 DEF Session!Become
<1>3. tab \in [Tabs -> Tab] /\ tab'[t] = r /\ \A u \in Tabs \ {t} : tab'[u] = tab[u]
  BY <1>2 DEF SessionInv, TabsWellTyped
<1>4. TabsWellTyped'
  BY <1>1, <1>2, <1>3 DEF SessionInv, TabsWellTyped, TabOK
<1>5. \A u \in Tabs : Sound(tab'[u])
  BY <1>1, <1>3 DEF SessionInv, TabOK
<1>6. \A u \in Tabs : tab'[u].mem = tab[u].mem
  BY <1>1, <1>3
<1>7. RemovalReaches'
  BY <1>2, <1>6 DEF SessionInv, RemovalReaches
<1> QED BY <1>4, <1>5, <1>7 DEF SessionInv, Sound, Waiting

\* A reset removes the token, and tells every other tab if there was one.
LEMMA IsResetOK ==
  ASSUME SessionInv, NEW t \in Tabs, IsReset(t), live' \subseteq Tokens, issued' \in 0..MaxLogins
  PROVE  SessionInv'
<1>1. PICK r : /\ TabOK(Session!Cleared(r)) /\ Session!Cleared(r).mem = NoToken
               /\ Session!ResetTo(t, r)
  BY DEF IsReset
<1>2. /\ tab' = [tab EXCEPT ![t] = Session!Cleared(r)] /\ stored' = NoToken
      /\ events' = IF stored = NoToken THEN events ELSE events \cup (Tabs \ {t})
  BY <1>1 DEF Session!ResetTo, Session!DropStored
<1>3. /\ tab \in [Tabs -> Tab] /\ events \subseteq Tabs
      /\ tab'[t] = Session!Cleared(r) /\ \A u \in Tabs \ {t} : tab'[u] = tab[u]
  BY <1>2 DEF SessionInv, TabsWellTyped
<1>4. TabsWellTyped'
  BY <1>1, <1>2, <1>3 DEF SessionInv, TabsWellTyped, TabOK
<1>5. \A u \in Tabs : Sound(tab'[u])
  BY <1>1, <1>3 DEF SessionInv, TabOK
<1>6. \A u \in Tabs \ events' : tab'[u].mem = NoToken
  BY <1>1, <1>2, <1>3 DEF SessionInv, RemovalReaches
<1> QED BY <1>2, <1>4, <1>5, <1>6 DEF SessionInv, Sound, Waiting, RemovalReaches

\* The request s of the tab t is answered, fails, or is answered 401.
LEMMA RequestStep ==
  ASSUME SessionInv, NEW t \in Tabs, NEW s \in Slots,
         Session!Answered(t, s) \/ Session!Broken(t, s) \/ Session!Unauthorized(t, s)
  PROVE  (GoesOn(t) \/ IsReset(t)) /\ UNCHANGED <<live, issued>>
<1> DEFINE r == tab[t]
<1>1. TabOK(r)
  BY TabsAreOK
<1>2. CASE Session!Answered(t, s)
  <2>1. Out(r, s) /\ Session!Become(t, Session!Succeed(r, s)) /\ UNCHANGED <<live, issued>>
    BY <1>2 DEF Session!Answered, Out
  <2> QED BY <1>1, <2>1, SucceedOK DEF GoesOn
<1>3. CASE Session!Broken(t, s)
  <2>1. Out(r, s) /\ Session!Failed(t, r, s) /\ UNCHANGED <<live, issued>>
    BY <1>3 DEF Session!Broken, Out
  <2>2. CASE Session!FailureResets(r, s)
    BY <1>1, <2>1, <2>2, FailOK DEF IsReset, Session!Failed
  <2>3. CASE ~Session!FailureResets(r, s)
    BY <1>1, <2>1, <2>3, FailOK DEF GoesOn, Session!Failed
  <2> QED BY <2>1, <2>2, <2>3
<1>4. CASE Session!Unauthorized(t, s)
  <2> PICK q : q = [r EXCEPT !.req[s].step = "refreshing"]
    OBVIOUS
  <2>1. Out(r, s) /\ UNCHANGED <<live, issued>>
    BY <1>4 DEF Session!Unauthorized, Out
  <2>2. \/ Session!ResetTo(t, Session!Fail(r, s))
        \/ r.req[s].step = "sent" /\ q.flight # "none" /\ Session!Become(t, q)
        \/ /\ r.req[s].step = "sent"
           /\ Session!Become(t, [q EXCEPT !.flight = "asked", !.flightToken = q.mem])
        \/ r.req[s].step = "sent" /\ Session!ResetTo(t, Session!GivenUp(q))
    BY <1>4 DEF Session!Unauthorized
  <2>3. CASE Session!ResetTo(t, Session!Fail(r, s))
    BY <1>1, <2>1, <2>3, FailOK DEF IsReset
  <2>4. CASE r.req[s].step = "sent"
    <3> PICK f : f = AskedWith(q, r.mem)
      OBVIOUS
    <3>1. Joined(r, q) /\ TabOK(f) /\ f.mem = r.mem
      <4>1. TabOK(r) /\ r.req[s].step = "sent"
        BY <1>1, <2>4
      <4> HIDE DEF r
      <4> QED BY <4>1, JoinedOK
    <3>2. CASE q.flight # "none" /\ Session!Become(t, q)
      BY <2>1, <3>1, <3>2 DEF GoesOn, Joined
    <3>3. CASE Session!Become(t, [q EXCEPT !.flight = "asked", !.flightToken = q.mem])
      <4>1. Session!Become(t, f)
        BY <3>1, <3>3 DEF Joined, AskedWith
      <4> QED BY <2>1, <3>1, <4>1 DEF GoesOn
    <3>4. CASE Session!ResetTo(t, Session!GivenUp(q))
      BY <2>1, <3>1, <3>4, GivenUpOK DEF IsReset, Joined
    <3> QED BY <2>1, <2>2, <2>3, <3>2, <3>3, <3>4
  <2> QED BY <2>1, <2>2, <2>3, <2>4
<1> QED BY <1>2, <1>3, <1>4

\* A refresh is taken or answered.
LEMMA RefreshStep ==
  ASSUME SessionInv, NEW t \in Tabs, Session!RefreshTaken(t) \/ Session!RefreshAnswered(t)
  PROVE  (GoesOn(t) \/ IsReset(t)) /\ UNCHANGED <<live, issued>>
<1> DEFINE r == tab[t]
<1>1. TabOK(r) /\ r \in Tab /\ Sound(r)
  BY TabsAreOK DEF TabOK
<1>2. CASE Session!RefreshTaken(t)
  <2>1. PICK f \in {"granted", "refused"} : Session!Become(t, [r EXCEPT !.flight = f])
    BY <1>2 DEF Session!RefreshTaken
  <2> DEFINE q == [r EXCEPT !.flight = f]
  <2>2. r.flight = "asked"
    BY <1>2 DEF Session!RefreshTaken
  <2>3. /\ q \in Tab /\ q.flight = f /\ q.status = r.status /\ q.job = r.job
        /\ q.req = r.req /\ q.mem = r.mem
    BY <1>1 DEF Tab
  <2>4. TabOK(q)
    BY <1>1, <2>2, <2>3 DEF TabOK, Sound, Waiting
  <2>5. UNCHANGED <<live, issued>>
    BY <1>2 DEF Session!RefreshTaken
  <2> HIDE DEF q
  <2>6. Session!Become(t, q)
    BY <2>1 DEF q
  <2> QED BY <2>3, <2>4, <2>5, <2>6 DEF GoesOn
<1>3. CASE Session!RefreshAnswered(t)
  <2>1. /\ r.flight # "none" /\ UNCHANGED <<live, issued>>
        /\ Session!Become(t, Session!Retried(r)) \/ Session!ResetTo(t, Session!GivenUp(r))
    BY <1>3 DEF Session!RefreshAnswered
  <2>2. CASE Session!Become(t, Session!Retried(r))
    BY <1>1, <2>1, <2>2, RetriedOK DEF GoesOn
  <2>3. CASE Session!ResetTo(t, Session!GivenUp(r))
    BY <1>1, <2>1, <2>3, GivenUpOK DEF IsReset, Sound
  <2> QED BY <2>1, <2>2, <2>3
<1> QED BY <1>2, <1>3

\* The refresh of a restore is taken or answered.
LEMMA RestoreStep ==
  ASSUME SessionInv, NEW t \in Tabs, Session!RestoreTaken(t) \/ Session!RestoreAnswered(t)
  PROVE  (GoesOn(t) \/ IsReset(t)) /\ UNCHANGED <<live, issued>>
<1> DEFINE r == tab[t]
<1>1. TabOK(r) /\ r \in Tab /\ Sound(r)
  BY TabsAreOK DEF TabOK
<1>2. CASE Session!RestoreTaken(t)
  <2>1. PICK j \in {"grant", "refuse"} : Session!Become(t, [r EXCEPT !.job = j])
    BY <1>2 DEF Session!RestoreTaken
  <2> DEFINE q == [r EXCEPT !.job = j]
  <2>2. r.job = "restore" /\ UNCHANGED <<live, issued>>
    BY <1>2 DEF Session!RestoreTaken
  <2>3. /\ q \in Tab /\ q.flight = r.flight /\ q.status = r.status /\ q.job = j
        /\ q.req = r.req /\ q.mem = r.mem
    BY <1>1 DEF Tab
  <2>4. TabOK(q)
    BY <1>1, <2>2, <2>3 DEF TabOK, Sound, Waiting
  <2> HIDE DEF q
  <2>5. Session!Become(t, q)
    BY <2>1 DEF q
  <2> QED BY <2>2, <2>3, <2>4, <2>5 DEF GoesOn
<1>3. CASE Session!RestoreAnswered(t)
  <2>1. r.job \in {"grant", "refuse"} /\ UNCHANGED <<live, issued>>
    BY <1>3 DEF Session!RestoreAnswered
  <2>2. r.req[Job].step = "idle"
    BY <1>1, <2>1 DEF Sound
  <2>3. CASE r.job = "grant"
    <3> DEFINE g == [r EXCEPT !.access = "fresh", !.job = "boot-me"]
               p == [g EXCEPT !.req[Job] = Session!Sent(g)]
    <3>1. /\ g \in Tab /\ g.job = "boot-me" /\ g.req = r.req /\ g.flight = r.flight
          /\ g.mem = r.mem
      BY <1>1 DEF Tab
    <3>2. Session!Become(t, p)
      BY <1>3, <2>3 DEF Session!RestoreAnswered
    <3> HIDE DEF g
    <3>3. TabOK(p) /\ p.mem = g.mem
      BY <1>1, <2>2, <3>1, JobSentOK
    <3> HIDE DEF p
    <3> QED BY <2>1, <3>1, <3>2, <3>3 DEF GoesOn
  <2>4. CASE r.job # "grant"
    <3> DEFINE q == [r EXCEPT !.job = "none"]
    <3>1. q \in Tab /\ q.job = "none" /\ q.req = r.req /\ q.flight = r.flight
      BY <1>1 DEF Tab
    <3>2. Session!ResetTo(t, q)
      BY <1>3, <2>4 DEF Session!RestoreAnswered
    <3> HIDE DEF q
    <3>3. Waiting(q) = Waiting(r)
      BY <3>1 DEF Waiting
    <3>4. TabOK(Session!Cleared(q)) /\ Session!Cleared(q).mem = NoToken
      BY <1>1, <2>2, <3>1, <3>3, ClearedOK DEF Sound
    <3> QED BY <2>1, <3>2, <3>4 DEF IsReset
  <2> QED BY <2>3, <2>4
<1> QED BY <1>2, <1>3

\* A request of the page is sent, and the access token runs out.
LEMMA PageStep ==
  ASSUME SessionInv, NEW t \in Tabs,
         (\E p \in Pages : Session!Send(t, p)) \/ Session!AccessExpires(t)
  PROVE  GoesOn(t) /\ UNCHANGED <<live, issued>>
<1> DEFINE r == tab[t]
<1>1. TabOK(r) /\ r \in Tab /\ Sound(r) /\ r.req \in [Slots -> Request]
  BY TabsAreOK DEF TabOK, Tab
<1>2. ASSUME NEW p \in Pages, Session!Send(t, p)
      PROVE  GoesOn(t) /\ UNCHANGED <<live, issued>>
  <2> DEFINE q == [r EXCEPT !.req[p] = Session!Sent(r)]
  <2>1. /\ r.req[p].step = "idle" /\ Session!Become(t, q) /\ UNCHANGED <<live, issued>>
    BY <1>2 DEF Session!Send
  <2>2. p \in Slots /\ p # Job
    BY SessionAssumption DEF Slots
  <2>3. q.req = [r.req EXCEPT ![p] = Session!Sent(r)]
    BY <1>1 DEF Tab
  <2>4. RequestSet(r, q, p, Session!Sent(r))
    <3> HIDE DEF q
    <3> QED BY <1>1, <2>1, <2>2, <2>3, SentType, RequestChanges
  <2>5. /\ q \in Tab /\ q.flight = r.flight /\ q.status = r.status /\ q.job = r.job
        /\ q.mem = r.mem
    BY <1>1, <2>4 DEF Tab, RequestSet
  <2> HIDE DEF q
  <2>6. TabOK(q)
    BY <1>1, <2>2, <2>4, <2>5, JobIsSlot DEF TabOK, Sound, RequestSet
  <2> QED BY <2>1, <2>5, <2>6 DEF GoesOn
<1>3. CASE Session!AccessExpires(t)
  <2> DEFINE stale == [s \in Slots |-> [r.req[s] EXCEPT !.good = FALSE]]
             q == [r EXCEPT !.access = "expired", !.req = stale]
  <2>1. Session!Become(t, q) /\ UNCHANGED <<live, issued>>
    BY <1>3, SameState DEF Session!AccessExpires
  <2>2. \A s \in Slots : stale[s] \in Request /\ stale[s].step = r.req[s].step
    BY <1>1 DEF Request
  <2>3. stale \in [Slots -> Request]
    BY <2>2
  <2>4. /\ q \in Tab /\ q.flight = r.flight /\ q.status = r.status /\ q.job = r.job
        /\ q.mem = r.mem /\ q.req = stale
    BY <1>1, <2>3 DEF Tab
  <2> HIDE DEF stale, q
  <2>5. Waiting(q) = Waiting(r)
    BY <2>2, <2>4 DEF Waiting
  <2>6. TabOK(q)
    BY <1>1, <2>2, <2>4, <2>5, JobIsSlot DEF TabOK, Sound
  <2> QED BY <2>1, <2>4, <2>6 DEF GoesOn
<1> QED BY <1>2, <1>3

\* Whether a tab is leaving is no part of what is sound.
LEMMA LeavingOK ==
  ASSUME NEW r, TabOK(r), NEW b \in BOOLEAN
  PROVE  LET q == [r EXCEPT !.leaving = b]
         IN  /\ TabOK(q) /\ q.mem = r.mem
             /\ TabOK(Session!Cleared(q)) /\ Session!Cleared(q).mem = NoToken
<1> DEFINE q == [r EXCEPT !.leaving = b]
<1>1. r \in Tab /\ Sound(r)
  BY DEF TabOK
<1>2. /\ q \in Tab /\ q.flight = r.flight /\ q.status = r.status /\ q.job = r.job
      /\ q.req = r.req /\ q.mem = r.mem
  BY <1>1 DEF Tab
<1> HIDE DEF q
<1>3. Sound(q)
  BY <1>1, <1>2 DEF Sound, Waiting
<1>4. TabOK(Session!Cleared(q)) /\ Session!Cleared(q).mem = NoToken
  BY <1>2, <1>3, ClearedOK DEF Sound
<1>5. TabOK(q) /\ q.mem = r.mem
  BY <1>2, <1>3 DEF TabOK
<1> QED BY <1>4, <1>5 DEF q

\* The user asks to sign out; the answer of the call, or its loss, does it.
LEMMA LeaveStep ==
  ASSUME SessionInv, NEW t \in Tabs, Session!AskLogout(t) \/ Session!SignOut(t)
  PROVE  (GoesOn(t) \/ IsReset(t)) /\ live' \subseteq live /\ issued' = issued
<1>1. CASE Session!AskLogout(t)
  <2>1. /\ Session!Become(t, [tab[t] EXCEPT !.leaving = TRUE])
        /\ live' \subseteq live /\ issued' = issued
    BY <1>1 DEF Session!AskLogout
  <2> QED BY <2>1, TabsAreOK, LeavingOK DEF GoesOn
<1>2. CASE Session!SignOut(t)
  <2>1. Session!ResetTo(t, [tab[t] EXCEPT !.leaving = FALSE]) /\ UNCHANGED <<live, issued>>
    BY <1>2 DEF Session!SignOut
  <2> QED BY <2>1, TabsAreOK, LeavingOK DEF IsReset
<1> QED BY <1>1, <1>2

\* A tab loaded again reads what is stored.
LEMMA ReloadOK ==
  ASSUME SessionInv, NEW t \in Tabs, Session!Reload(t)
  PROVE  SessionInv'
<1>1. /\ tab' = [tab EXCEPT ![t] = Session!Loaded] /\ events' = events \ {t}
      /\ UNCHANGED <<live, issued, stored>>
  BY DEF Session!Reload
<1>2. TabOK(Session!Loaded) /\ Session!Loaded.mem = stored
  BY LoadedOK DEF SessionInv, TabsWellTyped
<1>3. tab'[t] = Session!Loaded /\ \A u \in Tabs \ {t} : tab'[u] = tab[u]
  BY <1>1 DEF SessionInv, TabsWellTyped
<1>4. TabsWellTyped'
  BY <1>1, <1>2 DEF SessionInv, TabsWellTyped, TabOK
<1>5. \A u \in Tabs : Sound(tab'[u])
  BY <1>2, <1>3 DEF SessionInv, TabOK
<1>6. RemovalReaches'
  BY <1>1, <1>2, <1>3 DEF SessionInv, RemovalReaches
<1> QED BY <1>4, <1>5, <1>6 DEF SessionInv, Sound, Waiting

\* A sign-in stores a token.
LEMMA LogInOK ==
  ASSUME SessionInv, NEW t \in Tabs, Session!LogIn(t)
  PROVE  SessionInv'
<1> DEFINE r == tab[t]
           g == [r EXCEPT !.mem = issued', !.access = "fresh", !.job = "login-me"]
           p == [g EXCEPT !.req[Job] = Session!Sent(g)]
<1>1. TabOK(r) /\ r \in Tab /\ Sound(r)
  BY TabsAreOK DEF TabOK
<1>2. /\ r.status = "unauthenticated" /\ r.job = "none" /\ issued < MaxLogins
      /\ issued' = issued + 1 /\ live' = live \cup {issued'}
      /\ stored' = issued' /\ tab' = [tab EXCEPT ![t] = p] /\ events' = events
  BY DEF Session!LogIn
<1>3. issued' \in Tokens /\ issued' \in 0..MaxLogins
  BY <1>2, SessionAssumption DEF SessionInv, TabsWellTyped, Tokens
<1>4. /\ g \in Tab /\ g.job = "login-me" /\ g.req = r.req /\ g.flight = r.flight
      /\ g.status = "unauthenticated"
  BY <1>1, <1>2, <1>3 DEF Tab
<1> HIDE DEF g
<1>5. TabOK(p)
  BY <1>1, <1>2, <1>4, JobSentOK DEF Sound
<1> HIDE DEF p
<1>6. tab'[t] = p /\ \A u \in Tabs \ {t} : tab'[u] = tab[u]
  BY <1>2 DEF SessionInv, TabsWellTyped
<1>7. TabsWellTyped'
  BY <1>2, <1>3, <1>5 DEF SessionInv, TabsWellTyped, TabOK
<1>8. \A u \in Tabs : Sound(tab'[u])
  BY <1>5, <1>6 DEF SessionInv, TabOK
<1>9. stored' # NoToken
  BY <1>2, <1>3, SessionAssumption DEF Tokens
<1> QED BY <1>7, <1>8, <1>9 DEF SessionInv, Sound, Waiting, RemovalReaches

\* The event of a removal clears the tab, and removes and tells again what was
\* stored since.
LEMMA RemovedOK ==
  ASSUME SessionInv, NEW t \in Tabs, Session!Removed(t)
  PROVE  SessionInv'
<1>1. /\ tab' = [tab EXCEPT ![t] = Session!Cleared(tab[t])] /\ stored' = NoToken
      /\ events' = (IF stored = NoToken THEN events ELSE Tabs) \ {t}
      /\ UNCHANGED <<live, issued>>
  BY DEF Session!Removed
<1>2. TabOK(Session!Cleared(tab[t])) /\ Session!Cleared(tab[t]).mem = NoToken
  BY TabsAreOK, ClearedOK DEF TabOK, Sound
<1>3. tab'[t] = Session!Cleared(tab[t]) /\ \A u \in Tabs \ {t} : tab'[u] = tab[u]
  BY <1>1 DEF SessionInv, TabsWellTyped
<1>4. TabsWellTyped'
  BY <1>1, <1>2 DEF SessionInv, TabsWellTyped, TabOK
<1>5. \A u \in Tabs : Sound(tab'[u])
  BY <1>2, <1>3 DEF SessionInv, TabOK
<1>6. RemovalReaches'
  BY <1>1, <1>2, <1>3 DEF SessionInv, RemovalReaches
<1> QED BY <1>4, <1>5, <1>6 DEF SessionInv, Sound, Waiting

\* Steps that leave the tabs alone.
LEMMA TabsLeftAlone ==
  ASSUME SessionInv, UNCHANGED <<issued, stored, events, tab>>, live' \subseteq live
  PROVE  SessionInv'
BY DEF SessionInv, TabsWellTyped, Sound, Waiting, RemovalReaches

LEMMA SessionStep ==
  ASSUME SessionInv, [Session!Next]_(Session!vars)
  PROVE  SessionInv'
<1>1. live \subseteq Tokens /\ issued \in 0..MaxLogins
  BY DEF SessionInv, TabsWellTyped
<1>2. CASE UNCHANGED Session!vars
  BY <1>2, TabsLeftAlone DEF Session!vars
<1>3. ASSUME NEW n \in Tokens, Session!TokenExpires(n) PROVE SessionInv'
  BY <1>3, TabsLeftAlone DEF Session!TokenExpires
<1>4. ASSUME NEW t \in Tabs, Session!Calls(t) PROVE SessionInv'
  <2>1. (GoesOn(t) \/ IsReset(t)) /\ UNCHANGED <<live, issued>>
    BY <1>4, SameState, RequestStep, RefreshStep, RestoreStep DEF Session!Calls
  <2> QED BY <1>1, <2>1, GoesOnOK, IsResetOK
<1>5. ASSUME NEW t \in Tabs, Session!AccessExpires(t) \/ \E p \in Pages : Session!Send(t, p)
      PROVE  SessionInv'
  BY <1>1, <1>5, PageStep, GoesOnOK
<1>6. ASSUME NEW t \in Tabs, Session!AskLogout(t) \/ Session!SignOut(t) PROVE SessionInv'
  <2>1. (GoesOn(t) \/ IsReset(t)) /\ live' \subseteq live /\ issued' = issued
    BY <1>6, LeaveStep
  <2> QED BY <1>1, <2>1, GoesOnOK, IsResetOK
<1>7. ASSUME NEW t \in Tabs, Session!Removed(t) \/ Session!Reload(t) \/ Session!LogIn(t)
      PROVE  SessionInv'
  BY <1>7, RemovedOK, ReloadOK, LogInOK
<1> QED BY <1>2, <1>3, <1>4, <1>5, <1>6, <1>7, SameState DEF Session!Next

LEMMA SessionStart ==
  ASSUME Session!Init
  PROVE  SessionInv
<1>1. /\ live = {} /\ issued = 0 /\ stored = NoToken /\ events = {}
      /\ tab = [t \in Tabs |-> Session!Loaded]
  BY DEF Session!Init
<1>2. TabOK(Session!Loaded) /\ Session!Loaded.mem = NoToken
  BY <1>1, LoadedOK
<1> QED BY <1>1, <1>2, SessionAssumption DEF SessionInv, TabsWellTyped, TabOK, RemovalReaches

\* The inductive invariant of the session: tabs are well typed, nothing waits
\* for what is not under way, and no tab keeps a removed token unknowingly.
THEOREM SessionInvariant == Session!Spec => []SessionInv
BY SessionStart, SessionStep, PTL DEF Session!Spec

\* The tabs of a browser are always well typed.
THEOREM TabsAreWellTyped == Session!Spec => []TabsWellTyped
BY SessionInvariant, PTL DEF SessionInv

\* A request waits for a refresh exactly while one is under way
\* (handle401Refresh.ts), and a tab that boots is being restored
\* (AuthBoundary.tsx), whatever is answered, refused, lost or late.
THEOREM NothingIsStranded == Session!Spec => []NothingStranded
<1>1. SessionInv => NothingStranded
  BY DEF SessionInv, Sound, NothingStranded
<1> QED BY <1>1, SessionInvariant, PTL

\* A tab forgets a removed token when it is told of the removal at the latest
\* (onStorage, AuthBoundary.tsx).
THEOREM RemovalReachesAll == Session!Spec => []RemovalReaches
BY SessionInvariant, PTL DEF SessionInv
=============================================================================

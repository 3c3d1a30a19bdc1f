---------------------------- MODULE OfflineTender ----------------------------
(***************************************************************************)
(* Paying at a register whose network comes and goes: the tender dialog    *)
(* (TenderDrawer.tsx), the queue of unfinished tenders in localStorage     *)
(* (offline/queue.ts), its replay (offline/flushQueue.ts) started by the   *)
(* POS shell (PosLayout.tsx), and the sign-out that wipes local storage    *)
(* (signOutSession.ts), against the three payment calls of the server.     *)
(*                                                                         *)
(* A tender is one opening of the dialog and is named by the idempotency   *)
(* key that opening draws. Several may run at once: closing the dialog     *)
(* neither stops the calls of its tender nor forgets their key. A call is  *)
(* processed at most once before its answer or its error reaches the       *)
(* client; processed again it changes nothing, so an answer that is lost   *)
(* after the server acted is PayReaches or FlushReaches, then an error.    *)
(***************************************************************************)
EXTENDS Naturals, FiniteSets

CONSTANTS Carts, Tenders,
          Cash,        \* "full": all that is due, "part": the rest on account
          Flushes,     \* bound: replays in progress at once
          MaxIntents,  \* bound: payment intents ever created
          None

ASSUME OfflineAssumption ==
    /\ MaxIntents \in Nat /\ Cash \subseteq {"full", "part"}
    /\ None \notin Tenders /\ None \notin Carts

VARIABLES server,    \* carts, intents, captures by key, invoices
          online,    \* navigator.onLine
          shown,     \* the POS shell is mounted and useOnline has rendered online
          signedIn,
          drawer,    \* the tender whose dialog is open, or None
          cached,    \* status of each cart in the client's cache
          tender,    \* each call of pay()
          queue,     \* the rows of mezan.pos.offline.queue, by their tender
          flush,     \* each call of flushPosOfflineQueue()
          promised   \* carts handed over against a provisional receipt whose
                     \* row no sign-out has removed

client == <<drawer, cached, tender, queue, flush, promised>>
vars == <<server, online, shown, signedIn, client>>

Ids == 1..MaxIntents

Absent == [cart |-> None, status |-> "absent", receipt |-> None]
IntentRecord == [cart : Carts \cup {None}, status : {"absent", "open", "captured"},
                 receipt : {"full", "part", None}]
TenderRecord == [cart : Carts \cup {None}, cash : {"full", "part"}, intent : Ids \cup {0},
                 step : {"unused", "ready", "intent", "capture", "finalize", "over"}]
FlushRecord == [todo : SUBSET Tenders, at : Tenders \cup {None},
                step : {"capture", "finalize"}]
RowStatus == {"absent", "pending", "synced", "failed"}

TypeOK ==
    /\ server \in [cart : [Carts -> {"active", "locked", "paid", "cancelled"}],
                   intent : [Ids -> IntentRecord], next : 1..(MaxIntents + 1),
                   attempt : [Tenders -> Ids \cup {0}], invoice : [Carts -> Ids \cup {0}]]
    /\ online \in BOOLEAN /\ shown \in BOOLEAN /\ signedIn \in BOOLEAN
    /\ drawer \in Tenders \cup {None}
    /\ cached \in [Carts -> {"active", "locked", "gone"}]
    /\ tender \in [Tenders -> TenderRecord]
    /\ queue \in [Tenders -> RowStatus]
    /\ flush \in [Flushes -> FlushRecord]
    /\ promised \subseteq Carts

Init ==
    /\ server = [cart |-> [c \in Carts |-> "active"], intent |-> [i \in Ids |-> Absent],
                 next |-> 1, attempt |-> [k \in Tenders |-> 0],
                 invoice |-> [c \in Carts |-> 0]]
    /\ online = TRUE /\ shown = TRUE /\ signedIn = TRUE
    /\ drawer = None
    /\ cached = [c \in Carts |-> "active"]
    /\ tender = [k \in Tenders |-> [cart |-> None, cash |-> "full", intent |-> 0,
                                    step |-> "unused"]]
    /\ queue = [k \in Tenders |-> "absent"]
    /\ flush = [f \in Flushes |-> [todo |-> {}, at |-> None, step |-> "capture"]]
    /\ promised = {}

-----------------------------------------------------------------------------
(* The server: each call is one transaction *)

IntentsOf(c) == {i \in Ids : server.intent[i].cart = c}

Completed(c) == {i \in IntentsOf(c) : server.intent[i].status = "captured"}

\* The intent create_payment_intent answers with: the completed payment of a
\* cart without invoice, else a new one.
IntentFor(c) ==
    IF server.invoice[c] = 0 /\ Completed(c) # {}
    THEN CHOOSE i \in Completed(c) : TRUE ELSE server.next

IntentAccepted(c) ==
    server.cart[c] = "locked" /\ IntentFor(c) <= MaxIntents

\* A new intent deletes the open ones of the cart.
WithIntent(c) ==
    IF IntentFor(c) # server.next THEN server
    ELSE [server EXCEPT
            !.intent = [i \in Ids |->
                CASE i = server.next -> [cart |-> c, status |-> "open", receipt |-> None]
                  [] i \in IntentsOf(c) /\ server.intent[i].status = "open" -> Absent
                  [] OTHER -> server.intent[i]],
            !.next = @ + 1]

CaptureAccepted(i) == server.intent[i].status # "absent"

\* capture_payment: a key that was used or an intent already captured is
\* answered without effect.
WithCapture(i, key, cash) ==
    IF server.attempt[key] # 0 \/ server.intent[i].status = "captured" THEN server
    ELSE [server EXCEPT !.intent[i] = [@ EXCEPT !.status = "captured", !.receipt = cash],
                        !.attempt[key] = i]

FinalizeAccepted(c, i) ==
    \/ server.invoice[c] # 0
    \/ /\ server.cart[c] = "locked"
       /\ server.intent[i].cart = c /\ server.intent[i].status = "captured"

WithInvoice(c, i) ==
    IF server.invoice[c] # 0 THEN server
    ELSE [server EXCEPT !.invoice[c] = i, !.cart[c] = "paid"]

\* Variant: a cancel is not refused in any status.
WithCancelUnchecked(c) ==
    [server EXCEPT !.cart[c] = IF @ = "active" THEN "cancelled" ELSE "active"]

\* change_state(cancel): leaves the tender, or voids an active cart.
WithCancel(c) ==
    [server EXCEPT !.cart[c] = CASE @ = "locked" -> "active"
                                 [] @ = "active" -> "cancelled"
                                 [] OTHER -> @]

-----------------------------------------------------------------------------
(* The tender dialog *)

Over(k) == [tender EXCEPT ![k].step = "over"]

\* After a failed attempt the dialog of k, if still open, can pay again.
Again(k) == IF drawer = k THEN [tender EXCEPT ![k].step = "ready"] ELSE Over(k)

\* openCheckout: an editable cart is locked first, a locked one is shown as is.
OpenDrawer(k, c) ==
    /\ signedIn /\ shown /\ drawer = None
    /\ tender[k].step = "unused"
    /\ \/ /\ cached[c] = "active" /\ server.cart[c] = "active" /\ online
          /\ server' = [server EXCEPT !.cart[c] = "locked"]
       \/ cached[c] = "locked" /\ UNCHANGED server
    /\ cached' = [cached EXCEPT ![c] = "locked"]
    /\ drawer' = k
    /\ tender' = [tender EXCEPT ![k].step = "ready", ![k].cart = c]
    /\ UNCHANGED <<online, shown, signedIn, queue, flush, promised>>

\* The first call of pay(): the intent.
Pay(k, cash) ==
    /\ drawer = k /\ tender[k].step = "ready"
    /\ tender' = [tender EXCEPT ![k].step = "intent", ![k].cash = cash]
    /\ UNCHANGED <<server, online, shown, signedIn, drawer, cached, queue, flush,
                   promised>>

IntentCreated(k) ==
    LET c == tender[k].cart IN
    /\ tender[k].step = "intent" /\ online /\ signedIn /\ IntentAccepted(c)
    /\ server' = WithIntent(c)
    /\ tender' = [tender EXCEPT ![k].step = "capture", ![k].intent = IntentFor(c)]
    /\ UNCHANGED <<online, shown, signedIn, drawer, cached, queue, flush,
                   promised>>

\* The error leaves the dialog open, whether or not the server acted.
IntentFails(k) ==
    LET c == tender[k].cart IN
    /\ tender[k].step = "intent"
    /\ server' \in {server} \cup {s \in {WithIntent(c)} : signedIn /\ IntentAccepted(c)}
    /\ tender' = Again(k)
    /\ UNCHANGED <<online, shown, signedIn, drawer, cached, queue, flush,
                   promised>>

\* The server processes a capture or finalize whose answer is under way.
PayReaches(k) ==
    LET t == tender[k] IN
    /\ signedIn
    /\ \/ t.step = "capture" /\ CaptureAccepted(t.intent)
          /\ server' = WithCapture(t.intent, k, t.cash)
       \/ t.step = "finalize" /\ FinalizeAccepted(t.cart, t.intent)
          /\ server' = WithInvoice(t.cart, t.intent)
    /\ UNCHANGED <<online, shown, signedIn, client>>

Captured(k) ==
    LET t == tender[k] IN
    /\ t.step = "capture" /\ online /\ signedIn /\ CaptureAccepted(t.intent)
    /\ server' = WithCapture(t.intent, k, t.cash)
    /\ tender' = [tender EXCEPT ![k].step = "finalize"]
    /\ UNCHANGED <<online, shown, signedIn, drawer, cached, queue, flush,
                   promised>>

\* The register moves on to a fresh cart and closes whatever dialog is open.
Finalized(k) ==
    LET t == tender[k] IN
    /\ t.step = "finalize" /\ online /\ signedIn /\ FinalizeAccepted(t.cart, t.intent)
    /\ server' = WithInvoice(t.cart, t.intent)
    /\ tender' = IF drawer \in {None, k} \/ tender[drawer].step # "ready" THEN Over(k)
                 ELSE [tender EXCEPT ![k].step = "over", ![drawer].step = "over"]
    /\ cached' = [cached EXCEPT ![t.cart] = "gone"]
    /\ drawer' = None
    /\ UNCHANGED <<online, shown, signedIn, queue, flush, promised>>

\* Variant: the row is not written.
QueueTenderUnsaved(k) == queue

\* Variant: the row is written with a status list() does not know.
QueueTenderQueued(k) == [queue EXCEPT ![k] = "queued"]

\* enqueue: a pending row for the tender.
QueueTender(k) == [queue EXCEPT ![k] = "pending"]

\* catch of pay(): offline, the tender is queued and the sale handed over; the
\* dialog closes without unlocking and the register keeps the cart.
PayFails(k) ==
    /\ tender[k].step \in {"capture", "finalize"}
    /\ IF online
       THEN /\ tender' = Again(k)
            /\ UNCHANGED <<drawer, queue, promised>>
       ELSE /\ queue' = QueueTender(k)
            /\ promised' = promised \cup {tender[k].cart}
            /\ tender' = IF drawer \in {None, k} \/ tender[drawer].step # "ready" THEN Over(k)
                         ELSE [tender EXCEPT ![k].step = "over", ![drawer].step = "over"]
            /\ drawer' = None
    /\ UNCHANGED <<server, online, shown, signedIn, cached, flush>>

\* handleOpenChange(false): a cart the cache shows locked is cancelled out of
\* its tender; the calls of the tender go on.
CloseDrawer ==
    /\ drawer # None
    /\ LET c == tender[drawer].cart IN
       IF cached[c] # "locked" THEN UNCHANGED <<server, cached>>
       ELSE \/ /\ online /\ server.cart[c] \in {"locked", "active"}
               /\ server' = WithCancel(c)
               /\ cached' = [cached EXCEPT ![c] =
                                IF server.cart[c] = "locked" THEN "active" ELSE "gone"]
            \/ UNCHANGED cached /\ server' \in {server, WithCancel(c)}
    /\ tender' = IF tender[drawer].step = "ready" THEN Over(drawer) ELSE tender
    /\ drawer' = None
    /\ UNCHANGED <<online, shown, signedIn, queue, flush, promised>>

-----------------------------------------------------------------------------
(* Replay of the queue *)

Idle(f) == flush[f].todo = {} /\ flush[f].at = None

Pending == {k \in Tenders : queue[k] = "pending"}

\* flushPosOfflineQueue: the rows that are pending now, whatever becomes of
\* them later, in any order.
FlushStarts(f) == [flush EXCEPT ![f].todo = Pending]

\* useOnline reaches the shell; back online, the effect starts a replay.
Rendered ==
    /\ signedIn /\ shown # online
    /\ shown' = online
    /\ IF online THEN \E f \in Flushes : Idle(f) /\ flush' = FlushStarts(f)
       ELSE UNCHANGED flush
    /\ UNCHANGED <<server, online, signedIn, drawer, cached, tender, queue,
                   promised>>

FlushTakes(f, k) ==
    /\ flush[f].at = None /\ k \in flush[f].todo
    /\ flush' = [flush EXCEPT ![f] = [todo |-> @.todo \ {k}, at |-> k, step |-> "capture"]]
    /\ UNCHANGED <<server, online, shown, signedIn, drawer, cached, tender, queue,
                   promised>>

\* The replayed capture repeats the key of the tender, not the cash tendered.
ReplayCapture(k) == WithCapture(tender[k].intent, k, "full")

FlushReaches(f) ==
    LET r == flush[f]  t == tender[r.at] IN
    /\ r.at # None /\ signedIn
    /\ \/ r.step = "capture" /\ CaptureAccepted(t.intent) /\ server' = ReplayCapture(r.at)
       \/ r.step = "finalize" /\ FinalizeAccepted(t.cart, t.intent)
          /\ server' = WithInvoice(t.cart, t.intent)
    /\ UNCHANGED <<online, shown, signedIn, client>>

FlushCaptured(f) ==
    LET r == flush[f] IN
    /\ r.at # None /\ r.step = "capture" /\ online /\ signedIn
    /\ CaptureAccepted(tender[r.at].intent)
    /\ server' = ReplayCapture(r.at)
    /\ flush' = [flush EXCEPT ![f].step = "finalize"]
    /\ UNCHANGED <<online, shown, signedIn, drawer, cached, tender, queue,
                   promised>>

\* markSynced and markFailed rewrite the row if it is still there.
Marked(k, status) == IF queue[k] = "absent" THEN queue ELSE [queue EXCEPT ![k] = status]

FlushFinalized(f) ==
    LET r == flush[f]  t == tender[r.at] IN
    /\ r.at # None /\ r.step = "finalize" /\ online /\ signedIn
    /\ FinalizeAccepted(t.cart, t.intent)
    /\ server' = WithInvoice(t.cart, t.intent)
    /\ queue' = Marked(r.at, "synced")
    /\ flush' = [flush EXCEPT ![f].at = None]
    /\ UNCHANGED <<online, shown, signedIn, drawer, cached, tender, promised>>

\* Variant: an error is noted, and the row counted as done.
FlushFailsDone(f) ==
    /\ flush[f].at # None
    /\ queue' = Marked(flush[f].at, "synced")
    /\ flush' = [flush EXCEPT ![f].at = None]
    /\ UNCHANGED <<server, online, shown, signedIn, drawer, cached, tender,
                   promised>>

\* Variant: an error ends the replay and leaves the row as it is.
FlushFailsQuietly(f) ==
    /\ flush[f].at # None
    /\ flush' = [flush EXCEPT ![f].at = None, ![f].todo = {}]
    /\ UNCHANGED <<server, online, shown, signedIn, drawer, cached, tender, queue,
                   promised>>

\* Any error, of the network or of the server, marks the row failed.
FlushFails(f) ==
    /\ flush[f].at # None
    /\ queue' = Marked(flush[f].at, "failed")
    /\ flush' = [flush EXCEPT ![f].at = None]
    /\ UNCHANGED <<server, online, shown, signedIn, drawer, cached, tender,
                   promised>>

-----------------------------------------------------------------------------
(* Network, session and page *)

NetworkChanges ==
    /\ online' = ~online
    /\ UNCHANGED <<server, shown, signedIn, client>>

\* resetClientSessionState: every mezan. key is removed, the queue with them.
\* Calls under way go on without a token.
SignOut ==
    /\ signedIn
    /\ signedIn' = FALSE /\ shown' = FALSE
    /\ promised' = promised \ {tender[k].cart : k \in {k \in Tenders : queue[k] # "absent"}}
    /\ queue' = [k \in Tenders |-> "absent"]
    /\ drawer' = None
    /\ tender' = [k \in Tenders |-> IF tender[k].step = "ready"
                                    THEN [tender[k] EXCEPT !.step = "over"] ELSE tender[k]]
    /\ UNCHANGED <<server, online, cached, flush>>

\* The shell mounts with the network as it is, and replays if online; the
\* carts are read again.
Mounts(flushing) ==
    /\ shown' = online
    /\ IF online
       THEN /\ \E f \in Flushes : flushing[f].todo = {} /\ flushing[f].at = None
                    /\ flush' = [flushing EXCEPT ![f].todo = Pending]
            /\ cached' = [c \in Carts |-> IF server.cart[c] \in {"active", "locked"}
                                          THEN server.cart[c] ELSE "gone"]
       ELSE flush' = flushing /\ cached' = [c \in Carts |-> "gone"]

SignIn ==
    /\ ~signedIn /\ online
    /\ signedIn' = TRUE
    /\ Mounts(flush)
    /\ UNCHANGED <<server, online, drawer, tender, queue, promised>>

\* A reload drops every call under way; localStorage stays.
Reload ==
    /\ signedIn
    /\ Mounts([f \in Flushes |-> [todo |-> {}, at |-> None, step |-> "capture"]])
    /\ drawer' = None
    /\ tender' = [k \in Tenders |-> IF tender[k].step = "unused" THEN tender[k]
                                    ELSE [tender[k] EXCEPT !.step = "over"]]
    /\ UNCHANGED <<server, online, signedIn, queue, promised>>

-----------------------------------------------------------------------------
FlushStep(f) ==
    \/ \E k \in Tenders : FlushTakes(f, k)
    \/ FlushCaptured(f) \/ FlushFinalized(f) \/ FlushFails(f)

Next ==
    \/ \E k \in Tenders :
          \/ \E c \in Carts : OpenDrawer(k, c)
          \/ \E cash \in Cash : Pay(k, cash)
          \/ IntentCreated(k) \/ IntentFails(k) \/ PayReaches(k)
          \/ Captured(k) \/ Finalized(k) \/ PayFails(k)
    \/ CloseDrawer \/ Rendered \/ NetworkChanges \/ SignOut \/ SignIn \/ Reload
    \/ \E f \in Flushes : FlushStep(f) \/ FlushReaches(f)

\* React renders and promises settle; nobody has to pay, and the network and
\* the cashier do what they like.
Fairness == WF_vars(Rendered) /\ \A f \in Flushes : WF_vars(FlushStep(f))

Spec == Init /\ [][Next]_vars /\ Fairness

-----------------------------------------------------------------------------
(* Properties *)

\* A row shown as synced is a sale the server has: flushPosOfflineQueue marks
\* it only after finalizeSale answered, however replays overlap.
SyncedMeansSold ==
    \A k \in Tenders : queue[k] = "synced" => server.invoice[tender[k].cart] # 0

\* Goods handed over against a provisional receipt stay accounted for: the
\* cart is invoiced, or its row is in the queue, or a sign-out removed it.
HandedOverKept ==
    \A c \in promised :
        \/ server.invoice[c] # 0
        \/ \E k \in Tenders : tender[k].cart = c /\ queue[k] \in {"pending", "failed"}

\* An invoice stands for money: its payment is captured and stays captured
\* while tenders, replays and cancels of the cart go on.
SoldIsPaid ==
    \A c \in Carts : server.invoice[c] # 0 =>
        /\ server.cart[c] = "paid"
        /\ server.intent[server.invoice[c]].cart = c
        /\ server.intent[server.invoice[c]].status = "captured"

\* A row that is pending while the shell shows no network, or with nobody
\* signed in, does not stay pending once network, session and page last: the
\* effect of PosLayout on useOnline replays it.
Settles ==
    <>[](online /\ signedIn) /\ <>[][~Reload]_vars =>
        \A k \in Tenders :
            [](queue[k] = "pending" /\ ~shown => <>(queue[k] # "pending"))

\* pos.json, tender.shortfall_ar: the remainder of a part payment goes to the
\* customer's receivables, so what a replay books is what was tendered.
BookedAsTendered ==
    \A k \in Tenders :
        LET i == server.attempt[k] IN
        queue[k] = "synced" /\ i # 0 => server.intent[i].receipt = tender[k].cash
=============================================================================

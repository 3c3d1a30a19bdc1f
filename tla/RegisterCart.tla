----------------------------- MODULE RegisterCart -----------------------------
(***************************************************************************)
(* One cart at the register (PosRegister.tsx): the copy in the query cache *)
(* that the screen shows, the cart of the server, and the requests between *)
(* them, which the server may process and answer in any order, refuse, or  *)
(* answer to nobody.                                                       *)
(*                                                                         *)
(* A line request carries an absolute quantity: an add posts what the      *)
(* cache shows plus one (useAddLine), an edit what was typed               *)
(* (useUpdateLineQty). Adds form a chain (addLineChainRef); edits and      *)
(* state changes are not part of it. Prices, discounts and the customer    *)
(* are left out: one product stands for the contents of the cart.          *)
(***************************************************************************)
EXTENDS Naturals

CONSTANTS Slots,    \* bound: line requests in flight
          Tasks,    \* bound: handlers of the page in progress
          MaxClicks, \* bound: adds and edits
          Quantities, MaxQuantity \* quantities a cashier types, and their bound

ASSUME RegisterAssumption ==
    /\ MaxClicks \in Nat /\ MaxQuantity \in Nat
    /\ Quantities \subseteq 0..MaxQuantity

VARIABLES server,  \* the cart in pos_carts
          cache,   \* the cart in the query cache
          line,    \* line requests
          waiting, \* adds in the chain that are not posted yet
          task,    \* handlers waiting for the chain or for an answer
          tender,  \* the tender dialog is open
          shown,   \* the cart is the one on screen
          clicks, accepted, edits, \* history: adds clicked, adds answered, edits
          due,     \* history: adds the open checkout was clicked after
          failed,  \* history: a request was refused, its answer was lost, or
                   \* two handlers were at work at once
          late     \* history: a lock was given up with adds in the chain

history == <<clicks, accepted, edits, due, failed, late>>
vars == <<server, cache, line, waiting, task, tender, shown, history>>

Statuses == {"active", "locked", "parked", "cancelled", "paid"}
Amounts == 0..(MaxQuantity + MaxClicks)
Cart == [status : Statuses, qty : Amounts]
NoCart == [status |-> "cancelled", qty |-> 0]

\* step: posted, processed by the server, or come to an error
LineRequest == [kind : {"add", "edit"}, step : {"idle", "sent", "done", "error"},
                qty : Amounts, before : Cart, answer : Cart]
Free == [kind |-> "add", step |-> "idle", qty |-> 0, before |-> NoCart, answer |-> NoCart]

\* op: what the handler waits for next; ahead: adds it waits for first; due:
\* history, the adds it was clicked after
Task == [kind : {"checkout", "park", "clear", "abort"},
         op : {"none", "lock", "get", "park", "cancel"},
         step : {"idle", "chain", "sent", "done", "error"},
         ahead : 0..MaxClicks, due : 0..MaxClicks, answer : Cart]
NoTask == [kind |-> "abort", op |-> "none", step |-> "idle", ahead |-> 0, due |-> 0,
           answer |-> NoCart]

TypeOK ==
    /\ server \in Cart /\ cache \in Cart
    /\ line \in [Slots -> LineRequest] /\ task \in [Tasks -> Task]
    /\ waiting \in 0..MaxClicks /\ clicks \in 0..MaxClicks /\ accepted \in 0..MaxClicks
    /\ edits \in 0..MaxClicks /\ due \in 0..MaxClicks
    /\ tender \in BOOLEAN /\ shown \in BOOLEAN /\ failed \in BOOLEAN /\ late \in BOOLEAN

Init ==
    /\ server = [status |-> "active", qty |-> 0] /\ cache = server
    /\ line = [s \in Slots |-> Free] /\ waiting = 0
    /\ task = [t \in Tasks |-> NoTask]
    /\ tender = FALSE /\ shown = TRUE
    /\ clicks = 0 /\ accepted = 0 /\ edits = 0 /\ due = 0 /\ failed = FALSE
    /\ late = FALSE

AddsInFlight == {s \in Slots : line[s].kind = "add" /\ line[s].step # "idle"}

\* The links of the chain that have not settled.
Chain == waiting + (IF AddsInFlight = {} THEN 0 ELSE 1)

-----------------------------------------------------------------------------
(* The server *)

\* Variant: an action that is not foreseen goes through.
AfterUnforeseen(status, op) ==
    CASE status = "active" /\ op = "lock" -> "locked"
      [] status = "locked" /\ op = "cancel" -> "active"
      [] OTHER -> op

\* cart_service: the transitions of _assert_transition.
After(status, op) ==
    CASE status = "active" /\ op = "lock" -> "locked"
      [] status = "active" /\ op = "park" -> "parked"
      [] status = "parked" /\ op = "resume" -> "active"
      [] status = "locked" /\ op = "cancel" -> "active"
      [] status \in {"active", "parked"} /\ op = "cancel" -> "cancelled"
      [] OTHER -> "refused"

\* upsert_line: only an active cart takes lines.
ProcessLine(s) ==
    /\ line[s].step = "sent"
    /\ IF server.status = "active"
       THEN /\ server' = [server EXCEPT !.qty = line[s].qty]
            /\ line' = [line EXCEPT ![s].step = "done", ![s].answer = server']
            /\ UNCHANGED failed
       ELSE /\ line' = [line EXCEPT ![s].step = "error"]
            /\ failed' = TRUE /\ UNCHANGED server
    /\ UNCHANGED <<cache, waiting, task, tender, shown, clicks, accepted, edits, due, late>>

\* change_state, or the read of getCart.
ProcessTask(t) ==
    LET r == task[t]  next == After(server.status, r.op) IN
    /\ r.step = "sent"
    /\ late' = (late \/ (next = "active" /\ Chain # 0))
    /\ IF r.op = "get" \/ next # "refused"
       THEN /\ server' = IF r.op = "get" THEN server ELSE [server EXCEPT !.status = next]
            /\ task' = [task EXCEPT ![t].step = "done", ![t].answer = server']
            /\ UNCHANGED failed
       ELSE /\ task' = [task EXCEPT ![t].step = "error"]
            /\ failed' = TRUE /\ UNCHANGED server
    /\ UNCHANGED <<cache, line, waiting, tender, shown, clicks, accepted, edits, due>>

\* The request or its answer is lost on the way.
Lost ==
    /\ \/ \E s \in Slots : line[s].step \in {"sent", "done"}
              /\ line' = [line EXCEPT ![s].step = "error"] /\ UNCHANGED task
       \/ \E t \in Tasks : task[t].step \in {"sent", "done"}
              /\ task' = [task EXCEPT ![t].step = "error"] /\ UNCHANGED line
    /\ failed' = TRUE
    /\ UNCHANGED <<server, cache, waiting, tender, shown, clicks, accepted, edits, due, late>>

-----------------------------------------------------------------------------
(* Lines *)

Editable == shown /\ cache.status = "active"

\* onAddLine: one more link of the chain.
ClickAdd ==
    /\ Editable /\ ~tender /\ clicks + edits < MaxClicks
    /\ waiting' = waiting + 1 /\ clicks' = clicks + 1
    /\ UNCHANGED <<server, cache, line, task, tender, shown, accepted, edits, due, failed, late>>

Post(s, kind, qty) ==
    [line EXCEPT ![s] = [kind |-> kind, step |-> "sent", qty |-> qty,
                         before |-> cache, answer |-> NoCart]]

\* Variant: an add is posted without waiting for the one before it.
PostAddUnchained(s) ==
    /\ waiting > 0 /\ line[s].step = "idle"
    /\ waiting' = waiting - 1
    /\ line' = Post(s, "add", cache.qty + 1)
    /\ UNCHANGED <<server, cache, task, tender, shown, history>>

\* The next link runs when the one before it has settled.
PostAdd(s) ==
    /\ waiting > 0 /\ AddsInFlight = {} /\ line[s].step = "idle"
    /\ waiting' = waiting - 1
    /\ line' = Post(s, "add", cache.qty + 1)
    /\ UNCHANGED <<server, cache, task, tender, shown, history>>

\* onQtyChange: the cache shows the quantity before the server knows it.
ClickEdit(s, qty) ==
    /\ Editable /\ ~tender /\ clicks + edits < MaxClicks /\ cache.qty > 0 /\ line[s].step = "idle"
    /\ line' = Post(s, "edit", qty)
    /\ cache' = [cache EXCEPT !.qty = qty]
    /\ edits' = edits + 1
    /\ UNCHANGED <<server, waiting, task, tender, shown, clicks, accepted, due, failed, late>>

\* Variant: an answer replaces the cart in the cache whatever its status.
MergedAlways(answer) == answer

\* onSuccess: a cart that is no longer active in the cache is left alone.
Merged(answer) == IF cache.status = "active" THEN answer ELSE cache

\* Variant: only an add that succeeded lets go of who waits for the chain.
SettledOnSuccess(s) ==
    IF line[s].kind = "add" /\ line[s].step = "done"
    THEN [t \in Tasks |-> [task[t] EXCEPT !.ahead = IF @ > 0 THEN @ - 1 ELSE 0]]
    ELSE task

\* A link of the chain settles, with an answer or an error.
Settled(s) ==
    IF line[s].kind = "add"
    THEN [t \in Tasks |-> [task[t] EXCEPT !.ahead = IF @ > 0 THEN @ - 1 ELSE 0]]
    ELSE task

AnswerLine(s) ==
    /\ line[s].step = "done"
    /\ cache' = Merged(line[s].answer)
    /\ line' = [line EXCEPT ![s] = Free]
    /\ task' = Settled(s)
    /\ accepted' = IF line[s].kind = "add" THEN accepted + 1 ELSE accepted
    /\ UNCHANGED <<server, waiting, tender, shown, clicks, edits, due, failed, late>>

\* onError: the cart of the time of the request is put back.
FailLine(s) ==
    /\ line[s].step = "error"
    /\ cache' = line[s].before
    /\ line' = [line EXCEPT ![s] = Free]
    /\ task' = Settled(s)
    /\ UNCHANGED <<server, waiting, tender, shown, history>>

-----------------------------------------------------------------------------
(* Handlers of the page *)

Started(t, kind, op, step, ahead) ==
    [task EXCEPT ![t] = [kind |-> kind, op |-> op, step |-> step, ahead |-> ahead,
                         due |-> IF kind = "checkout" THEN accepted + Chain ELSE 0, answer |-> NoCart]]

Overlaps == failed' = (failed \/ \E t \in Tasks : task[t].step # "idle")

\* Variant: the lock does not wait for the chain.
ClickCheckoutAtOnce(t) ==
    /\ shown /\ ~tender /\ cache.qty > 0 /\ task[t].step = "idle" /\ cache.status = "active"
    /\ task' = Started(t, "checkout", "lock", "chain", 0)
    /\ Overlaps
    /\ UNCHANGED <<server, cache, line, waiting, tender, shown, clicks, accepted, edits, due, late>>

\* openCheckout: a locked cart is tendered as it is, an active one is locked
\* after the adds clicked so far.
ClickCheckout(t) ==
    /\ shown /\ ~tender /\ cache.qty > 0
    /\ \/ cache.status = "locked" /\ tender' = TRUE /\ UNCHANGED <<task, failed>>
       \/ /\ cache.status = "active" /\ task[t].step = "idle"
          /\ task' = Started(t, "checkout", "lock", "chain", Chain) /\ Overlaps
          /\ UNCHANGED tender
    /\ UNCHANGED <<server, cache, line, waiting, shown, clicks, accepted, edits, due, late>>

\* handleClearCart waits for the chain as well, handlePark does not.
ClickClear(t) ==
    /\ Editable /\ ~tender /\ cache.qty > 0 /\ task[t].step = "idle"
    /\ task' = Started(t, "clear", "cancel", "chain", Chain)
    /\ Overlaps
    /\ UNCHANGED <<server, cache, line, waiting, tender, shown, clicks, accepted, edits, due, late>>

ClickPark(t) ==
    /\ Editable /\ ~tender /\ cache.qty > 0 /\ task[t].step = "idle"
    /\ task' = Started(t, "park", "park", "sent", 0)
    /\ Overlaps
    /\ UNCHANGED <<server, cache, line, waiting, tender, shown, clicks, accepted, edits, due, late>>

ChainSettled(t) ==
    /\ task[t].step = "chain" /\ task[t].ahead = 0
    /\ task' = [task EXCEPT ![t].step = "sent"]
    /\ UNCHANGED <<server, cache, line, waiting, tender, shown, history>>

\* Closing the dialog cancels out of the tender if the cache shows the lock
\* (abortCheckoutIfLocked).
CloseTender ==
    /\ tender /\ tender' = FALSE
    /\ IF cache.status = "locked"
       THEN \E t \in Tasks : task[t].step = "idle"
                /\ task' = Started(t, "abort", "cancel", "sent", 0) /\ Overlaps
       ELSE UNCHANGED <<task, failed>>
    /\ UNCHANGED <<server, cache, line, waiting, shown, clicks, accepted, edits, due, late>>

\* A sale: the register moves on to a fresh cart.
Pay ==
    /\ tender /\ server.status = "locked"
    /\ server' = [server EXCEPT !.status = "paid"]
    /\ tender' = FALSE /\ shown' = FALSE
    /\ UNCHANGED <<cache, line, waiting, task, history>>

\* The answer of a handler's request replaces the cart in the cache. After the
\* lock the cart is read once more, and then the dialog opens; after parking
\* and clearing the register moves on to a fresh cart.
AnswerTask(t) ==
    LET r == task[t] IN
    /\ r.step = "done"
    /\ cache' = r.answer
    /\ task' = [task EXCEPT ![t] = IF r.op = "lock"
                                   THEN [r EXCEPT !.op = "get", !.step = "sent", !.answer = NoCart]
                                   ELSE NoTask]
    /\ tender' = (tender \/ (r.op = "get" /\ shown))
    /\ due' = IF r.op = "get" THEN r.due ELSE due
    /\ shown' = (shown /\ r.kind \notin {"park", "clear"})
    /\ UNCHANGED <<server, line, waiting, clicks, accepted, edits, failed, late>>

FailTask(t) ==
    /\ task[t].step = "error"
    /\ task' = [task EXCEPT ![t] = NoTask]
    /\ UNCHANGED <<server, cache, line, waiting, tender, shown, history>>

\* resumeCart: the answer is put into the cache, else the cart stays read-only.
Resume ==
    /\ ~shown /\ After(server.status, "resume") # "refused"
    /\ server' = [server EXCEPT !.status = After(@, "resume")]
    /\ cache' = server' /\ shown' = TRUE
    /\ UNCHANGED <<line, waiting, task, tender, history>>

-----------------------------------------------------------------------------
LineStep(s) == PostAdd(s) \/ ProcessLine(s) \/ AnswerLine(s) \/ FailLine(s)

TaskStep(t) == ChainSettled(t) \/ ProcessTask(t) \/ AnswerTask(t) \/ FailTask(t)

Next ==
    \/ ClickAdd \/ CloseTender \/ Pay \/ Resume \/ Lost
    \/ \E s \in Slots : LineStep(s) \/ \E q \in Quantities : ClickEdit(s, q)
    \/ \E t \in Tasks : TaskStep(t) \/ ClickCheckout(t) \/ ClickClear(t) \/ ClickPark(t)

\* Every request is answered or fails; nobody has to click.
Fairness == (\A s \in Slots : WF_vars(LineStep(s))) /\ (\A t \in Tasks : WF_vars(TaskStep(t)))

Spec == Init /\ [][Next]_vars /\ Fairness

-----------------------------------------------------------------------------
(* Properties *)

\* An add that was answered is in the cart: the chain lets each POST see the
\* answer before it, so no two carry one absolute quantity. An add whose
\* answer was lost is not counted twice when it is clicked again. Adds that
\* are still in the chain when a lock is given up have no such promise: their
\* answers meet a cache that shows the lock and are dropped.
AddsKept ==
    edits = 0 => /\ ~failed /\ ~late => accepted <= server.qty
                 /\ server.qty <= clicks

\* The tender charges for every add clicked before the checkout: openCheckout
\* waits for the chain, locks, and reads the cart again.
CheckoutCounts ==
    tender /\ server.status = "locked" /\ edits = 0 /\ ~failed /\ ~late
        => server.qty >= due

\* The cache knows of a lock when all is answered, in whatever order: a stale
\* answer of a line never hides it, so that closing the dialog can undo it.
LockSeen ==
    server.status = "locked" /\ shown /\ ~failed
        /\ (\A s \in Slots : line[s].step = "idle")
        /\ (\A t \in Tasks : task[t].step = "idle")
        => cache.status = "locked" /\ cache.qty = server.qty

\* No handler of the page waits forever for the chain or for an answer.
TasksEnd == \A t \in Tasks : task[t].step # "idle" ~> task[t].step = "idle"
=============================================================================

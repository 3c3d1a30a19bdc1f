------------------------- MODULE RegisterCartProofs -------------------------
(***************************************************************************)
(* Proofs about RegisterCart, for any number of line requests and handlers *)
(* and any bounds: type correctness, and that no add is lost, the tender   *)
(* charges for the adds clicked before it and a lock is seen, each for the *)
(* behaviours its property is about. Two invariants carry them: how the    *)
(* cache may differ from the server while a handler is at work (Calm) and  *)
(* what the next answered add finds (Kept).                                *)
(***************************************************************************)
EXTENDS RegisterCart, TLAPS

USE RegisterAssumption

-----------------------------------------------------------------------------
(* The invariants *)

\* A handler is where its steps say: what it asks for is its own request, it
\* waits for the chain before the lock and before clearing only, and at rest
\* it remembers nothing.
ShapeOf(r) ==
    /\ \/ r.kind = "checkout" /\ r.op \in {"lock", "get"}
       \/ r.kind = "park" /\ r.op = "park"
       \/ r.kind \in {"clear", "abort"} /\ r.op = "cancel"
       \/ r = NoTask
    /\ r.step = "idle" <=> r = NoTask
    /\ r.step = "chain" => r.op = "lock" \/ r.kind = "clear"
    /\ r.step # "chain" => r.ahead = 0

\* What was typed, and the adds posted so far: no quantity is above it.
Limit == (IF edits = 0 THEN 0 ELSE MaxQuantity) + (clicks - waiting)

Bounded ==
    /\ waiting <= clicks /\ clicks + edits <= MaxClicks
    /\ accepted + Chain <= clicks
    /\ server.qty <= Limit /\ cache.qty <= Limit
    /\ \A s \in Slots : line[s].qty <= Limit /\ line[s].before.qty <= Limit
                        /\ line[s].answer.qty <= Limit
    /\ \A t \in Tasks : task[t].answer.qty <= Limit

\* One add is on its way at a time, edits were clicked before they were sent,
\* and only an active cart answers.
Lines ==
    /\ \A s, r \in AddsInFlight : s = r
    /\ \A s \in Slots : /\ line[s].kind = "edit" => edits # 0
                        /\ line[s].step = "done" => line[s].answer.status = "active"

TypeInv == TypeOK /\ Bounded /\ Lines /\ \A t \in Tasks : ShapeOf(task[t])

\* Nothing happens any more to a cart that was sold or cleared.
Dead == server.status \in {"cancelled", "paid"}

Idle(t) == task[t].step = "idle"

\* How the cache may differ from the server while a handler is at work,
CalmOf(r) ==
    /\ r.step \in {"chain", "sent"} /\ (r.op \in {"lock", "park"} \/ r.kind = "clear")
         => server.status = "active" /\ cache.status = "active"
    /\ r.op = "park" => shown
    /\ r.op = "lock" /\ r.step = "done" => server.status = "locked" /\ r.answer = server
    /\ r.op = "get" => /\ server.status = "locked" /\ cache = server
                       /\ r.step = "done" => r.answer = server
    /\ r.op = "park" /\ r.step = "done" => server.status = "parked" /\ r.answer = server
    /\ r.kind = "clear" => r.step # "done"
    /\ r.op = "cancel" /\ r.kind = "abort" /\ r.step = "sent"
         => server.status = "locked" /\ cache = server
    /\ r.op = "cancel" /\ r.kind = "abort" /\ r.step = "done"
         => server.status = "active" /\ cache.status = "locked" /\ r.answer.status = "active"

\* and when none is.
Rest ==
    \/ server.status = "active" /\ cache.status = "active"
    \/ server.status = "locked" /\ cache = server
    \/ server.status = "parked" /\ cache = server /\ ~shown

\* One handler is at work at a time and nothing came to an error.
Alone ==
    /\ \A s \in Slots : line[s].step # "error"
    /\ \A t \in Tasks : task[t].step # "error"
    /\ \A t, u \in Tasks : ~Idle(t) /\ ~Idle(u) => t = u

\* The cache follows the server, at work and at rest.
Following ==
    Dead \/ /\ \A t \in Tasks : ~Idle(t) => CalmOf(task[t])
            /\ Rest \/ \E t \in Tasks : ~Idle(t)

\* So it is as long as nothing fails and no two handlers are at work at once.
Calm == ~failed => Alone /\ Following

\* A checkout knows the adds that were answered and waits for the others.
Counts ==
    /\ due <= accepted
    /\ \A t \in Tasks : task[t].due <= accepted + task[t].ahead

Counted == ~failed => Counts

Open == server.status \in {"active", "parked"}

\* The adds that were answered are in the cart, and the next one is posted
\* from a cache that knows them.
Safe ==
    /\ accepted <= server.qty
    /\ Open => accepted <= cache.qty
    /\ server.status = "active" /\ cache.status # "active" => Chain = 0
    /\ \A s \in Slots :
          /\ line[s].step = "sent" /\ Open => accepted < line[s].qty
          /\ line[s].step = "done" => accepted < server.qty /\ accepted < line[s].answer.qty
          /\ line[s].step = "done" /\ Open /\ cache.status # "active"
                => accepted < cache.qty
    /\ \A t \in Tasks : task[t].kind = "abort" /\ task[t].step = "done"
          => Dead \/ task[t].answer = server

Kept == edits = 0 /\ ~failed /\ ~late => Safe

-----------------------------------------------------------------------------
(* Type correctness *)

\* What the bounds say of the quantities.
LEMMA AmountFacts ==
  /\ \A n : n \in Amounts <=> n \in Nat /\ n <= MaxQuantity + MaxClicks
  /\ NoCart \in Cart /\ Free \in LineRequest /\ NoTask \in Task
  BY DEF Amounts, NoCart, Cart, Statuses, Free, LineRequest, NoTask, Task

\* The limit of the quantities is one of them.
LEMMA LimitType ==
  ASSUME TypeOK, waiting <= clicks
  PROVE  Limit \in Nat /\ Limit <= MaxQuantity + MaxClicks
  BY DEF TypeOK, Limit

\* What the server answers is a status again, or a refusal.
LEMMA AfterType ==
  ASSUME NEW status, NEW op, After(status, op) # "refused"
  PROVE  After(status, op) \in Statuses
  BY DEF After, Statuses

\* The chain is a number of links, and none is left when nothing waits and no
\* add is on its way.
LEMMA ChainType ==
  ASSUME TypeOK
  PROVE  Chain \in Nat /\ waiting <= Chain
  BY DEF TypeOK, Chain

\* A line request posted with a quantity in bounds is one.
LEMMA PostType ==
  ASSUME TypeOK, NEW s \in Slots, NEW kind \in {"add", "edit"}, NEW qty \in Amounts
  PROVE  Post(s, kind, qty) \in [Slots -> LineRequest]
<1>1. [kind |-> kind, step |-> "sent", qty |-> qty, before |-> cache, answer |-> NoCart]
        \in LineRequest
  BY AmountFacts DEF TypeOK, LineRequest
<1> QED BY <1>1 DEF Post, TypeOK

\* A handler that waits for one add less.
Less(r) == [r EXCEPT !.ahead = IF r.ahead > 0 THEN r.ahead - 1 ELSE 0]

\* A settled add leaves the handlers typed, and each waits for one add less,
\* or all are left alone when it was an edit.
LEMMA SettledType ==
  ASSUME TypeOK, NEW s \in Slots
  PROVE  /\ Settled(s) \in [Tasks -> Task]
         /\ \A t \in Tasks : Settled(s)[t] \in {task[t], Less(task[t])}
         /\ line[s].kind = "add" => \A t \in Tasks : Settled(s)[t] = Less(task[t])
<1>1. \A t \in Tasks : [task[t] EXCEPT !.ahead = IF @ > 0 THEN @ - 1 ELSE 0] \in Task
  BY DEF TypeOK, Task
<1> QED BY <1>1 DEF Settled, TypeOK, Less

\* A handler that starts with a number of adds to wait for is typed.
LEMMA StartedType ==
  ASSUME TypeOK, Bounded, NEW t \in Tasks,
         NEW kind \in {"checkout", "park", "clear", "abort"},
         NEW op \in {"lock", "park", "cancel"}, NEW step \in {"chain", "sent"},
         NEW ahead \in 0..MaxClicks
  PROVE  Started(t, kind, op, step, ahead) \in [Tasks -> Task]
<1>1. accepted + Chain \in 0..MaxClicks
  BY ChainType DEF TypeOK, Bounded
<1> DEFINE r == [kind |-> kind, op |-> op, step |-> step, ahead |-> ahead,
                 due |-> IF kind = "checkout" THEN accepted + Chain ELSE 0, answer |-> NoCart]
<1>2. r \in Task
  BY <1>1, AmountFacts DEF Task
<1> HIDE DEF r
<1> QED BY <1>2 DEF Started, TypeOK, r

\* Every step keeps the carts, the requests and the handlers typed.
LEMMA TypeStep == TypeInv /\ [Next]_vars => TypeOK'
<1> SUFFICES ASSUME TypeInv, [Next]_vars PROVE TypeOK'
  OBVIOUS
<1>0. TypeOK /\ Bounded
  BY DEF TypeInv
<1>1. CASE UNCHANGED vars
  BY <1>0, <1>1 DEF vars, history, TypeOK
<1>2. CASE ClickAdd
  BY <1>0, <1>2 DEF ClickAdd, TypeOK, Bounded
<1>3. CASE CloseTender
  <2>1. task' \in [Tasks -> Task]
    BY <1>0, <1>3, StartedType DEF CloseTender, TypeOK
  <2> QED BY <1>0, <1>3, <2>1 DEF CloseTender, TypeOK, Overlaps
<1>4. CASE Pay
  BY <1>0, <1>4 DEF Pay, TypeOK, Cart, Statuses, history
<1>5. CASE Resume
  BY <1>0, <1>5, AfterType DEF Resume, TypeOK, Cart, history
<1>6. CASE Lost
  <2>1. \A s \in Slots : [line[s] EXCEPT !.step = "error"] \in LineRequest
    BY <1>0 DEF TypeOK, LineRequest
  <2>2. \A t \in Tasks : [task[t] EXCEPT !.step = "error"] \in Task
    BY <1>0 DEF TypeOK, Task
  <2> QED BY <1>0, <1>6, <2>1, <2>2 DEF Lost, TypeOK
<1>7. ASSUME NEW s \in Slots, PostAdd(s) PROVE TypeOK'
  <2>1. cache.qty \in Nat /\ cache.qty <= Limit
    BY <1>0 DEF TypeOK, Bounded, Cart, Amounts
  <2>2. Limit + 1 <= MaxQuantity + MaxClicks
    BY <1>0, <1>7 DEF Limit, TypeOK, Bounded, PostAdd
  <2>3. cache.qty + 1 \in Amounts
    BY <1>0, <2>1, <2>2, LimitType DEF Amounts, Bounded
  <2> QED BY <1>0, <1>7, <2>3, PostType DEF PostAdd, TypeOK, history
<1>8. ASSUME NEW s \in Slots, NEW q \in Quantities, ClickEdit(s, q) PROVE TypeOK'
  <2>1. q \in Amounts
    BY DEF Amounts
  <2>2. [cache EXCEPT !.qty = q] \in Cart
    BY <1>0, <2>1 DEF TypeOK, Cart
  <2> QED BY <1>0, <1>8, <2>1, <2>2, PostType DEF ClickEdit, TypeOK
<1>9. ASSUME NEW s \in Slots, ProcessLine(s) PROVE TypeOK'
  <2>1. server' \in Cart
    BY <1>0, <1>9 DEF ProcessLine, TypeOK, Cart, LineRequest
  <2>2. [line[s] EXCEPT !.step = "done", !.answer = server'] \in LineRequest
    BY <1>0, <2>1 DEF TypeOK, LineRequest
  <2>3. [line[s] EXCEPT !.step = "error"] \in LineRequest
    BY <1>0 DEF TypeOK, LineRequest
  <2>4. line' \in [Slots -> LineRequest]
    BY <1>0, <1>9, <2>2, <2>3 DEF ProcessLine, TypeOK
  <2> QED BY <1>0, <1>9, <2>1, <2>4 DEF ProcessLine, TypeOK
<1>10. ASSUME NEW s \in Slots, AnswerLine(s) PROVE TypeOK'
  <2>1. cache' \in Cart
    BY <1>0, <1>10 DEF AnswerLine, Merged, TypeOK, LineRequest
  <2>2. accepted' \in 0..MaxClicks
    <3>1. line[s].kind = "add" => accepted + 1 <= accepted + Chain
      BY <1>0, <1>10 DEF AnswerLine, Chain, AddsInFlight, TypeOK
    <3> QED BY <1>0, <1>10, <3>1, ChainType DEF AnswerLine, TypeOK, Bounded
  <2> QED BY <1>0, <1>10, <2>1, <2>2, SettledType, AmountFacts DEF AnswerLine, TypeOK
<1>11. ASSUME NEW s \in Slots, FailLine(s) PROVE TypeOK'
  <2>1. cache' \in Cart
    BY <1>0, <1>11 DEF FailLine, TypeOK, LineRequest
  <2> QED BY <1>0, <1>11, <2>1, SettledType, AmountFacts DEF FailLine, TypeOK, history
<1>12. ASSUME NEW t \in Tasks, ChainSettled(t) PROVE TypeOK'
  <2>1. [task[t] EXCEPT !.step = "sent"] \in Task
    BY <1>0 DEF TypeOK, Task
  <2> QED BY <1>0, <1>12, <2>1 DEF ChainSettled, TypeOK, history
<1>13. ASSUME NEW t \in Tasks, ProcessTask(t) PROVE TypeOK'
  <2>1. server' \in Cart
    BY <1>0, <1>13, AfterType DEF ProcessTask, TypeOK, Cart
  <2>2. [task[t] EXCEPT !.step = "done", !.answer = server'] \in Task
    BY <1>0, <2>1 DEF TypeOK, Task
  <2>3. [task[t] EXCEPT !.step = "error"] \in Task
    BY <1>0 DEF TypeOK, Task
  <2>4. task' \in [Tasks -> Task]
    BY <1>0, <1>13, <2>2, <2>3 DEF ProcessTask, TypeOK
  <2> QED BY <1>0, <1>13, <2>1, <2>4 DEF ProcessTask, TypeOK
<1>14. ASSUME NEW t \in Tasks, AnswerTask(t) PROVE TypeOK'
  <2>1. cache' \in Cart /\ due' \in 0..MaxClicks
    BY <1>0, <1>14 DEF AnswerTask, TypeOK, Task
  <2>2. [task[t] EXCEPT !.op = "get", !.step = "sent", !.answer = NoCart] \in Task
    BY <1>0, AmountFacts DEF TypeOK, Task
  <2>3. task' \in [Tasks -> Task]
    <3>1. task \in [Tasks -> Task] /\ NoTask \in Task
      BY <1>0, AmountFacts DEF TypeOK
    <3>2. \/ task' = [task EXCEPT ![t] = [task[t] EXCEPT !.op = "get", !.step = "sent", !.answer = NoCart]]
          \/ task' = [task EXCEPT ![t] = NoTask]
      BY <1>14 DEF AnswerTask
    <3> QED BY <2>2, <3>1, <3>2
  <2> QED BY <1>0, <1>14, <2>1, <2>3 DEF AnswerTask, TypeOK
<1>15. ASSUME NEW t \in Tasks, FailTask(t) PROVE TypeOK'
  BY <1>0, <1>15, AmountFacts DEF FailTask, TypeOK, history
<1>16. ASSUME NEW t \in Tasks, ClickCheckout(t) \/ ClickClear(t) \/ ClickPark(t) PROVE TypeOK'
  <2>1. Chain \in 0..MaxClicks
    BY <1>0, ChainType DEF TypeOK, Bounded
  <2>2. task' \in [Tasks -> Task]
    BY <1>0, <1>16, <2>1, StartedType DEF ClickCheckout, ClickClear, ClickPark, TypeOK
  <2> QED BY <1>0, <1>16, <2>2 DEF ClickCheckout, ClickClear, ClickPark, TypeOK, Overlaps
<1> QED
  BY <1>1, <1>2, <1>3, <1>4, <1>5, <1>6, <1>7, <1>8, <1>9, <1>10, <1>11, <1>12, <1>13,
     <1>14, <1>15, <1>16 DEF Next, LineStep, TaskStep

\* Every step gives every handler a proper state.
LEMMA ShapeStep ==
  TypeInv /\ [Next]_vars => \A t \in Tasks : ShapeOf(task[t])'
<1> SUFFICES ASSUME TypeInv, [Next]_vars, NEW u \in Tasks PROVE ShapeOf(task'[u])
  OBVIOUS
<1>0. /\ TypeOK /\ ShapeOf(task[u]) /\ task[u] \in Task
  BY DEF TypeInv, TypeOK
<1>1. CASE task' = task
  BY <1>0, <1>1
<1>2. ASSUME NEW s \in Slots, task' = Settled(s) PROVE ShapeOf(task'[u])
  <2>1. ShapeOf(Less(task[u]))
    BY <1>0 DEF ShapeOf, Task, NoTask, Less
  <2>2. task'[u] \in {task[u], Less(task[u])}
    BY <1>0, <1>2, SettledType
  <2> QED BY <1>0, <2>1, <2>2
<1>3. ASSUME NEW t \in Tasks, NEW kind, NEW op, NEW step, NEW ahead,
             task' = Started(t, kind, op, step, ahead),
             \/ <<kind, op, step>> = <<"checkout", "lock", "chain">>
             \/ <<kind, op, step>> = <<"clear", "cancel", "chain">>
             \/ <<kind, op, step, ahead>> = <<"park", "park", "sent", 0>>
             \/ <<kind, op, step, ahead>> = <<"abort", "cancel", "sent", 0>>
      PROVE  ShapeOf(task'[u])
  BY <1>0, <1>3 DEF Started, ShapeOf, NoTask, TypeOK
<1>4. ASSUME NEW t \in Tasks, NEW step \in {"sent", "error"}, task[t].step # "idle",
             step = "sent" => task[t].ahead = 0,
             task' = [task EXCEPT ![t].step = step], step = "error" => task[t].step # "chain"
      PROVE  ShapeOf(task'[u])
  BY <1>0, <1>4 DEF ShapeOf, NoTask, TypeOK, Task
<1>5. CASE Lost
  BY <1>1, <1>4, <1>5 DEF Lost
<1>6. ASSUME NEW s \in Slots, LineStep(s) PROVE ShapeOf(task'[u])
  BY <1>1, <1>2, <1>6 DEF LineStep, PostAdd, ProcessLine, AnswerLine, FailLine, Settled
<1>7. ASSUME NEW t \in Tasks, ChainSettled(t) PROVE ShapeOf(task'[u])
  BY <1>4, <1>7 DEF ChainSettled
<1>8. ASSUME NEW t \in Tasks, ProcessTask(t) PROVE ShapeOf(task'[u])
  <2>1. CASE task' = [task EXCEPT ![t].step = "error"]
    BY <1>4, <1>8, <2>1 DEF ProcessTask
  <2>2. CASE task' = [task EXCEPT ![t].step = "done", ![t].answer = server']
    BY <1>0, <1>8, <2>2 DEF ProcessTask, ShapeOf, NoTask, TypeOK, Task
  <2> QED BY <1>8, <2>1, <2>2 DEF ProcessTask
<1>9. ASSUME NEW t \in Tasks, AnswerTask(t) PROVE ShapeOf(task'[u])
  <2>1. ShapeOf(NoTask)
    BY DEF ShapeOf, NoTask
  <2>2. ASSUME task[u].op = "lock", task[u].step = "done"
        PROVE  ShapeOf([task[u] EXCEPT !.op = "get", !.step = "sent", !.answer = NoCart])
    BY <1>0, <2>2 DEF ShapeOf, NoTask, Task
  <2>3. CASE u # t
    BY <1>0, <1>9, <2>3 DEF AnswerTask, TypeOK
  <2>4. CASE u = t /\ task[u].op = "lock"
    <3>1. task'[u] = [task[u] EXCEPT !.op = "get", !.step = "sent", !.answer = NoCart]
      BY <1>0, <1>9, <2>4 DEF AnswerTask, TypeOK
    <3> QED BY <1>9, <2>2, <2>4, <3>1 DEF AnswerTask
  <2>5. CASE u = t /\ task[u].op # "lock"
    <3>1. task'[u] = NoTask
      BY <1>0, <1>9, <2>5 DEF AnswerTask, TypeOK
    <3> QED BY <2>1, <3>1
  <2> QED BY <2>3, <2>4, <2>5
<1>10. ASSUME NEW t \in Tasks, FailTask(t) PROVE ShapeOf(task'[u])
  <2>1. ShapeOf(NoTask)
    BY DEF ShapeOf, NoTask
  <2> QED BY <1>0, <1>10, <2>1 DEF FailTask, TypeOK
<1>11. ASSUME NEW t \in Tasks, ClickCheckout(t) \/ ClickClear(t) \/ ClickPark(t)
       PROVE  ShapeOf(task'[u])
  BY <1>1, <1>3, <1>11 DEF ClickCheckout, ClickClear, ClickPark
<1>12. CASE CloseTender
  BY <1>1, <1>3, <1>12 DEF CloseTender
<1> QED
  BY <1>1, <1>5, <1>6, <1>7, <1>8, <1>9, <1>10, <1>11, <1>12
  DEF Next, TaskStep, ClickAdd, ClickEdit, Pay, Resume, vars

\* Every step has at most one add on its way, and only an active cart answers.
LEMMA LinesStep == TypeInv /\ [Next]_vars => Lines'
<1> SUFFICES ASSUME TypeInv, [Next]_vars PROVE Lines'
  OBVIOUS
<1>0. TypeOK /\ Lines /\ edits \in Nat
  BY DEF TypeInv, TypeOK
<1>1. CASE line' = line /\ (edits' = edits \/ edits' = edits + 1)
  BY <1>0, <1>1 DEF Lines, AddsInFlight
<1>2. ASSUME NEW s \in Slots, PostAdd(s) PROVE Lines'
  <2>1. line' = [line EXCEPT ![s] = [kind |-> "add", step |-> "sent", qty |-> cache.qty + 1,
                                     before |-> cache, answer |-> NoCart]]
    BY <1>2 DEF PostAdd, Post
  <2>2. AddsInFlight = {} /\ edits' = edits
    BY <1>2 DEF PostAdd, history
  <2> QED BY <1>0, <2>1, <2>2 DEF Lines, AddsInFlight, TypeOK
<1>3. ASSUME NEW s \in Slots, NEW q \in Quantities, ClickEdit(s, q) PROVE Lines'
  <2>1. line' = [line EXCEPT ![s] = [kind |-> "edit", step |-> "sent", qty |-> q,
                                     before |-> cache, answer |-> NoCart]]
    BY <1>3 DEF ClickEdit, Post
  <2>2. edits' # 0
    BY <1>0, <1>3 DEF ClickEdit
  <2> QED BY <1>0, <2>1, <2>2 DEF Lines, AddsInFlight, TypeOK
<1>4. ASSUME NEW s \in Slots, ProcessLine(s) PROVE Lines'
  <2>1. /\ edits' = edits /\ line[s].step = "sent"
        /\ \/ line' = [line EXCEPT ![s].step = "error"]
           \/ /\ line' = [line EXCEPT ![s].step = "done", ![s].answer = server']
              /\ server'.status = "active"
    BY <1>0, <1>4 DEF ProcessLine, TypeOK, Cart
  <2> QED BY <1>0, <2>1 DEF Lines, AddsInFlight, TypeOK, LineRequest
<1>5. CASE Lost
  BY <1>0, <1>5 DEF Lost, Lines, AddsInFlight, TypeOK, LineRequest
<1>6. ASSUME NEW s \in Slots, AnswerLine(s) \/ FailLine(s) PROVE Lines'
  BY <1>0, <1>6 DEF AnswerLine, FailLine, Lines, AddsInFlight, TypeOK, Free, history
<1> QED
  BY <1>1, <1>2, <1>3, <1>4, <1>5, <1>6
  DEF Next, LineStep, TaskStep, ClickAdd, CloseTender, Pay, Resume, ChainSettled, ProcessTask,
      AnswerTask, FailTask, ClickCheckout, ClickClear, ClickPark, vars, history

\* What bounds the quantities does not sink, and rises with every add that is
\* posted and with the first edit.
LEMMA LimitGrows ==
  ASSUME TypeInv, TypeOK', [Next]_vars
  PROVE  /\ waiting' <= clicks' /\ clicks' + edits' <= MaxClicks
         /\ Limit <= Limit'
<1>0. TypeOK /\ Bounded
  BY DEF TypeInv
<1>1. \/ /\ edits' = edits /\ clicks' = clicks
         /\ waiting' = waiting \/ (waiting > 0 /\ waiting' = waiting - 1)
      \/ /\ edits' = edits /\ waiting' = waiting + 1 /\ clicks' = clicks + 1
         /\ clicks + edits < MaxClicks
      \/ /\ edits' = edits + 1 /\ clicks' = clicks /\ waiting' = waiting
         /\ clicks + edits < MaxClicks
  BY DEF Next, LineStep, TaskStep, ClickAdd, CloseTender, Pay, Resume, Lost, PostAdd, ClickEdit,
         ProcessLine, AnswerLine, FailLine, ChainSettled, ProcessTask, AnswerTask, FailTask,
         ClickCheckout, ClickClear, ClickPark, vars, history
<1>2. /\ clicks \in Nat /\ waiting \in Nat /\ edits \in Nat /\ MaxQuantity \in Nat
      /\ waiting <= clicks /\ clicks + edits <= MaxClicks /\ MaxClicks \in Nat
  BY <1>0 DEF TypeOK, Bounded
<1> QED BY <1>1, <1>2 DEF Limit

\* The chain and the adds that were answered: a click lengthens the chain, an
\* answer shortens it.
LEMMA ChainStep ==
  ASSUME TypeInv, TypeOK', Lines', [Next]_vars
  PROVE  accepted' + Chain' <= clicks'
<1>0. TypeOK /\ Bounded /\ Lines
  BY DEF TypeInv
<1>1. /\ accepted \in Nat /\ clicks \in Nat /\ waiting \in Nat /\ accepted' \in Nat /\ waiting' \in Nat
      /\ accepted + Chain <= clicks /\ Chain \in Nat
  BY <1>0, ChainType DEF TypeOK, Bounded
<1>2. CASE UNCHANGED <<line, waiting, accepted, clicks>>
  BY <1>1, <1>2 DEF Chain, AddsInFlight
<1>3. CASE ClickAdd
  BY <1>1, <1>3 DEF ClickAdd, Chain, AddsInFlight
<1>4. ASSUME NEW s \in Slots, PostAdd(s) PROVE accepted' + Chain' <= clicks'
  BY <1>1, <1>4 DEF PostAdd, Chain, history
<1>5. ASSUME AddsInFlight' = AddsInFlight, UNCHANGED <<waiting, accepted, clicks>>
      PROVE  accepted' + Chain' <= clicks'
  BY <1>1, <1>5 DEF Chain
<1>6. ASSUME NEW s \in Slots, NEW q \in Quantities, ClickEdit(s, q)
      PROVE  accepted' + Chain' <= clicks'
  <2>1. AddsInFlight' = AddsInFlight
    BY <1>0, <1>6 DEF ClickEdit, Post, AddsInFlight, TypeOK
  <2> QED BY <1>5, <1>6, <2>1 DEF ClickEdit
<1>7. ASSUME NEW s \in Slots, ProcessLine(s) PROVE accepted' + Chain' <= clicks'
  <2>1. AddsInFlight' = AddsInFlight
    BY <1>0, <1>7 DEF ProcessLine, AddsInFlight, TypeOK, LineRequest
  <2> QED BY <1>5, <1>7, <2>1 DEF ProcessLine
<1>8. CASE Lost
  <2>1. AddsInFlight' = AddsInFlight
    BY <1>0, <1>8 DEF Lost, AddsInFlight, TypeOK, LineRequest
  <2> QED BY <1>5, <1>8, <2>1 DEF Lost
<1>9. ASSUME NEW s \in Slots, AnswerLine(s) \/ FailLine(s) PROVE accepted' + Chain' <= clicks'
  <2>1. AddsInFlight' = AddsInFlight \ {s}
    BY <1>0, <1>9 DEF AnswerLine, FailLine, AddsInFlight, TypeOK, Free
  <2>2. /\ waiting' = waiting /\ clicks' = clicks
        /\ accepted' = accepted \/ (accepted' = accepted + 1 /\ s \in AddsInFlight)
    BY <1>9 DEF AnswerLine, FailLine, AddsInFlight, history
  <2>3. s \in AddsInFlight => AddsInFlight' = {}
    BY <1>0, <2>1 DEF Lines
  <2>4. CASE s \in AddsInFlight
    <3>1. Chain = waiting + 1
      BY <1>1, <2>4 DEF Chain
    <3>2. Chain' = waiting
      BY <1>1, <2>2, <2>3, <2>4 DEF Chain
    <3>3. accepted' <= accepted + 1 /\ clicks' = clicks
      BY <1>1, <2>2
    <3>4. accepted + waiting + 1 <= clicks
      BY <1>1, <3>1
    <3>5. accepted \in Nat /\ accepted' \in Nat /\ waiting \in Nat /\ clicks \in Nat
      BY <1>1
    <3>6. \A a, b, w, c \in Nat : a + w + 1 <= c /\ b <= a + 1 => b + w <= c
      OBVIOUS
    <3>7. accepted' + waiting <= clicks
      BY <3>3, <3>4, <3>5, <3>6
    <3> QED BY <3>2, <3>3, <3>7
  <2>5. CASE s \notin AddsInFlight
    <3>1. AddsInFlight' = AddsInFlight
      BY <2>1, <2>5
    <3> QED BY <1>5, <2>2, <2>5, <3>1
  <2> QED BY <2>4, <2>5
<1> QED
  BY <1>2, <1>3, <1>4, <1>6, <1>7, <1>8, <1>9
  DEF Next, LineStep, TaskStep, CloseTender, Pay, Resume, ChainSettled, ProcessTask,
      AnswerTask, FailTask, ClickCheckout, ClickClear, ClickPark, vars, history

\* No step takes a quantity above the limit: a posted add is one above a
\* quantity of the cache and raises the limit by one, and an edit is at most
\* what is typed.
LEMMA QuantityStep ==
  ASSUME TypeInv, TypeOK', [Next]_vars, Limit <= Limit'
  PROVE  /\ server'.qty <= Limit' /\ cache'.qty <= Limit'
         /\ \A s \in Slots : line'[s].qty <= Limit' /\ line'[s].before.qty <= Limit'
                             /\ line'[s].answer.qty <= Limit'
         /\ \A t \in Tasks : task'[t].answer.qty <= Limit'
<1> DEFINE Below(c) == c.qty \in Nat /\ c.qty <= Limit'
           LineBelow(r) == r.qty <= Limit' /\ Below(r.before) /\ Below(r.answer) /\ r.qty \in Nat
           Good == /\ Below(server') /\ Below(cache')
                   /\ \A s \in Slots : LineBelow(line'[s])
                   /\ \A t \in Tasks : Below(task'[t].answer)
<1> SUFFICES Good
  OBVIOUS
<1>0. TypeOK /\ Bounded /\ Limit \in Nat /\ Limit' \in Nat
  <2>1. TypeOK /\ Bounded
    BY DEF TypeInv
  <2>2. waiting' <= clicks'
    BY LimitGrows
  <2> QED BY <2>1, <2>2, LimitType DEF Bounded, TypeOK, Limit
<1>1. /\ Below(server) /\ Below(cache) /\ Below(NoCart)
      /\ \A s \in Slots : LineBelow(line[s])
      /\ \A t \in Tasks : Below(task[t].answer)
  BY <1>0 DEF TypeOK, Bounded, Cart, Amounts, LineRequest, Task, NoCart
<1>2. CASE UNCHANGED <<server, cache, line, task>>
  BY <1>1, <1>2
<1>3. ASSUME NEW t \in Tasks, NEW kind, NEW op, NEW step, NEW ahead,
             task' = Started(t, kind, op, step, ahead), UNCHANGED <<server, cache, line>>
      PROVE  Good
  BY <1>0, <1>1, <1>3 DEF Started, TypeOK
<1>4. CASE Pay \/ Resume
  <2>1. \A v : [server EXCEPT !.status = v].qty = server.qty
    BY <1>0 DEF TypeOK, Cart
  <2>2. /\ Below(server') /\ cache' \in {cache, server'}
        /\ UNCHANGED <<line, task>>
    BY <1>0, <1>1, <1>4, <2>1 DEF Pay, Resume
  <2> QED BY <1>1, <2>2
<1>5. CASE Lost
  <2>1. \A s \in Slots : LineBelow([line[s] EXCEPT !.step = "error"])
    BY <1>0, <1>1 DEF TypeOK, LineRequest
  <2>2. \A t \in Tasks : [task[t] EXCEPT !.step = "error"].answer = task[t].answer
    BY <1>0 DEF TypeOK, Task
  <2> HIDE DEF Below, LineBelow
  <2> QED BY <1>0, <1>1, <1>5, <2>1, <2>2 DEF Lost, TypeOK
<1>6. ASSUME NEW s \in Slots, PostAdd(s) PROVE Good
  <2>1. Limit' = Limit + 1
    BY <1>0, <1>6 DEF PostAdd, Limit, TypeOK, Bounded, history
  <2>2. LineBelow([kind |-> "add", step |-> "sent", qty |-> cache.qty + 1,
                   before |-> cache, answer |-> NoCart])
    <3>1. cache.qty + 1 <= Limit' /\ cache.qty + 1 \in Nat
      BY <1>0, <2>1 DEF Bounded, TypeOK, Cart, Amounts
    <3> QED BY <1>1, <3>1
  <2> HIDE DEF Below, LineBelow
  <2> QED BY <1>0, <1>1, <1>6, <2>2 DEF PostAdd, Post, TypeOK, history
<1>7. ASSUME NEW s \in Slots, NEW q \in Quantities, ClickEdit(s, q) PROVE Good
  <2>1. q \in Nat /\ q <= Limit'
    BY <1>0, <1>7 DEF ClickEdit, Limit, TypeOK, Bounded
  <2>2. LineBelow([kind |-> "edit", step |-> "sent", qty |-> q,
                   before |-> cache, answer |-> NoCart])
    BY <1>1, <2>1
  <2>3. Below([cache EXCEPT !.qty = q])
    BY <1>0, <2>1 DEF TypeOK, Cart
  <2> HIDE DEF Below, LineBelow
  <2> QED BY <1>0, <1>1, <1>7, <2>2, <2>3 DEF ClickEdit, Post, TypeOK
<1>8. ASSUME NEW s \in Slots, ProcessLine(s) PROVE Good
  <2>1. Below([server EXCEPT !.qty = line[s].qty])
    BY <1>0, <1>1 DEF TypeOK, Cart
  <2>2. Below(server')
    BY <1>1, <1>8, <2>1 DEF ProcessLine
  <2>3. /\ LineBelow([line[s] EXCEPT !.step = "done", !.answer = server'])
        /\ LineBelow([line[s] EXCEPT !.step = "error"])
    BY <1>0, <1>1, <2>2 DEF TypeOK, LineRequest
  <2> HIDE DEF Below, LineBelow
  <2> QED BY <1>0, <1>1, <1>8, <2>2, <2>3 DEF ProcessLine, TypeOK
<1>9. ASSUME NEW s \in Slots, AnswerLine(s) \/ FailLine(s) PROVE Good
  <2>1. Below(cache')
    BY <1>1, <1>9 DEF AnswerLine, FailLine, Merged
  <2>2. LineBelow(Free)
    BY <1>1 DEF Free, NoCart
  <2>3. \A t \in Tasks : task'[t] \in {task[t], Less(task[t])}
    BY <1>0, <1>9, SettledType DEF AnswerLine, FailLine
  <2>4. \A t \in Tasks : Less(task[t]).answer = task[t].answer
    BY <1>0 DEF Less, TypeOK, Task
  <2>5. \A t \in Tasks : Below(task'[t].answer)
    BY <1>1, <2>3, <2>4
  <2>6. \A r \in Slots : LineBelow(line'[r])
    <3> HIDE DEF LineBelow
    <3> QED BY <1>0, <1>1, <1>9, <2>2 DEF AnswerLine, FailLine, TypeOK
  <2> QED BY <1>1, <1>9, <2>1, <2>5, <2>6 DEF AnswerLine, FailLine
<1>10. ASSUME NEW t \in Tasks, ProcessTask(t) PROVE Good
  <2>1. Below(server')
    BY <1>0, <1>1, <1>10 DEF ProcessTask, TypeOK, Cart
  <2>2. /\ [task[t] EXCEPT !.step = "done", !.answer = server'].answer = server'
        /\ [task[t] EXCEPT !.step = "error"].answer = task[t].answer
    BY <1>0 DEF TypeOK, Task
  <2> HIDE DEF Below, LineBelow
  <2>3. \A u \in Tasks : Below(task'[u].answer)
    BY <1>0, <1>1, <1>10, <2>1, <2>2 DEF ProcessTask, TypeOK
  <2> QED BY <1>1, <1>10, <2>1, <2>3 DEF ProcessTask
<1>11. ASSUME NEW t \in Tasks, AnswerTask(t) PROVE Good
  <2>1. Below(cache')
    BY <1>1, <1>11 DEF AnswerTask
  <2>2. /\ [task[t] EXCEPT !.op = "get", !.step = "sent", !.answer = NoCart].answer = NoCart
        /\ NoTask.answer = NoCart
    BY <1>0 DEF TypeOK, Task, NoTask
  <2> HIDE DEF Below, LineBelow
  <2>3. \A u \in Tasks : Below(task'[u].answer)
    BY <1>0, <1>1, <1>11, <2>2 DEF AnswerTask, TypeOK
  <2> QED BY <1>1, <1>11, <2>1, <2>3 DEF AnswerTask
<1>12. ASSUME NEW t \in Tasks, ChainSettled(t) \/ FailTask(t) PROVE Good
  <2>1. /\ NoTask.answer = NoCart
        /\ [task[t] EXCEPT !.step = "sent"].answer = task[t].answer
    BY <1>0 DEF TypeOK, Task, NoTask
  <2> HIDE DEF Below, LineBelow
  <2>2. \A u \in Tasks : Below(task'[u].answer)
    BY <1>0, <1>1, <1>12, <2>1 DEF ChainSettled, FailTask, TypeOK
  <2> QED BY <1>1, <1>12, <2>2 DEF ChainSettled, FailTask
<1>13. ASSUME NEW t \in Tasks, ClickCheckout(t) \/ ClickClear(t) \/ ClickPark(t) PROVE Good
  BY <1>2, <1>3, <1>13 DEF ClickCheckout, ClickClear, ClickPark
<1>14. CASE CloseTender
  BY <1>2, <1>3, <1>14 DEF CloseTender
<1> HIDE DEF Good
<1> QED
  BY <1>2, <1>4, <1>5, <1>6, <1>7, <1>8, <1>9, <1>10, <1>11, <1>12, <1>13, <1>14
  DEF Next, LineStep, TaskStep, ClickAdd, vars

\* All of it together holds along every behaviour.
LEMMA TypeInvStep == TypeInv /\ [Next]_vars => TypeInv'
<1> SUFFICES ASSUME TypeInv, [Next]_vars PROVE TypeInv'
  OBVIOUS
<1>1. TypeOK' /\ Lines' /\ \A t \in Tasks : ShapeOf(task[t])'
  BY TypeStep, LinesStep, ShapeStep
<1>2. accepted' + Chain' <= clicks'
  BY <1>1, ChainStep
<1>3. waiting' <= clicks' /\ clicks' + edits' <= MaxClicks /\ Limit <= Limit'
  BY <1>1, LimitGrows
<1>4. Bounded'
  BY <1>1, <1>2, <1>3, QuantityStep DEF Bounded
<1> QED BY <1>1, <1>4 DEF TypeInv

\* The register starts with an empty active cart and nothing on its way.
LEMMA TypeInvInit == Init => TypeInv
<1> SUFFICES ASSUME Init PROVE TypeInv
  OBVIOUS
<1>1. TypeOK
  <2>1. 0 \in Amounts /\ MaxClicks \in Nat
    BY AmountFacts
  <2>2. [status |-> "active", qty |-> 0] \in Cart
    BY <2>1 DEF Cart, Statuses
  <2>3. server \in Cart /\ cache \in Cart
    BY <2>2 DEF Init
  <2>4. line \in [Slots -> LineRequest] /\ task \in [Tasks -> Task]
    BY AmountFacts DEF Init
  <2>5. 0 \in 0..MaxClicks
    BY <2>1
  <2> QED BY <2>3, <2>4, <2>5 DEF Init, TypeOK
<1>2. AddsInFlight = {} /\ Chain = 0
  BY DEF Init, AddsInFlight, Chain, Free
<1>3. Lines
  BY <1>2 DEF Lines, Init, Free
<1>4. \A t \in Tasks : ShapeOf(task[t])
  BY DEF Init, ShapeOf, NoTask
<1>5. Bounded
  BY <1>2 DEF Init, Bounded, Limit, Free, NoTask, NoCart
<1> QED BY <1>1, <1>3, <1>4, <1>5 DEF TypeInv

\* Requests, handlers and carts are what they are said to be, the chain keeps
\* to one add at a time and no quantity is above what was typed and clicked.
LEMMA TypeInvariant == Spec => []TypeInv
<1>1. Init => TypeInv
  BY TypeInvInit
<1>2. TypeInv /\ [Next]_vars => TypeInv'
  BY TypeInvStep
<1> QED BY <1>1, <1>2, PTL DEF Spec

\* Type correctness of the register: every cart, line request and handler
\* keeps to its statuses, steps and bounds, whatever is lost or refused.
THEOREM TypeCorrect == Spec => []TypeOK
<1>1. TypeInv => TypeOK
  BY DEF TypeInv
<1> QED BY <1>1, TypeInvariant, PTL

-----------------------------------------------------------------------------
(* The cache follows the server *)

\* What failed stays failed.
LEMMA FailedStays == ASSUME [Next]_vars, failed PROVE failed'
  BY DEF Next, LineStep, TaskStep, ClickAdd, CloseTender, Pay, Resume, Lost, PostAdd, ClickEdit,
         ProcessLine, AnswerLine, FailLine, ChainSettled, ProcessTask, AnswerTask, FailTask,
         ClickCheckout, ClickClear, ClickPark, Overlaps, vars, history

\* One handler took a step and no other is at work: what holds of it holds of
\* all.
LEMMA OneHandler ==
  ASSUME TypeOK', NEW t \in Tasks,
         \A s \in Slots : line'[s].step # "error",
         \A u \in Tasks : u # t => task'[u].step = "idle",
         task'[t].step # "error",
         Dead' \/ (IF task'[t].step = "idle" THEN Rest' ELSE CalmOf(task[t])')
  PROVE  Alone' /\ Following'
  BY DEF Alone, Following, Idle

\* The steps of lines leave the handlers at work and the statuses alone.
LEMMA LineCalm ==
  ASSUME TypeInv, Alone, Following, TypeOK', server' \in Cart, cache' \in Cart,
         \A s \in Slots : line'[s].step # "error",
         \A t \in Tasks : task'[t] \in {task[t], Less(task[t])},
         server'.status = server.status, cache'.status = cache.status,
         server.status # "active" => server' = server,
         cache.status # "active" => cache' = cache,
         shown' = shown
  PROVE  Alone' /\ Following'
<1>1. /\ \A t \in Tasks : task[t] \in Task
      /\ server \in Cart /\ cache \in Cart
  BY DEF TypeInv, TypeOK
<1>2. ASSUME NEW t \in Tasks
      PROVE  /\ task'[t].step = task[t].step /\ task'[t].op = task[t].op
             /\ task'[t].kind = task[t].kind /\ task'[t].answer = task[t].answer
  BY <1>1 DEF Less, Task
<1>3. Alone'
  BY <1>2 DEF Alone, Idle
<1>4. ASSUME NEW t \in Tasks, ~Dead, ~Idle(t) PROVE CalmOf(task[t])'
  <2>1. CalmOf(task[t])
    BY <1>4 DEF Following
  <2> QED BY <1>1, <1>2, <2>1 DEF CalmOf
<1>5. Rest => Rest'
  BY DEF Rest
<1>6. Dead => Dead'
  BY DEF Dead
<1>7. \A t \in Tasks : Idle(t)' <=> Idle(t)
  BY <1>2 DEF Idle
<1>8. ASSUME Dead PROVE Following'
  BY <1>6, <1>8 DEF Following
<1>9. ASSUME ~Dead PROVE Following'
  <2>1. \A t \in Tasks : ~Idle(t)' => CalmOf(task[t])'
    BY <1>4, <1>7, <1>9
  <2>2. Rest' \/ \E t \in Tasks : ~Idle(t)'
    BY <1>5, <1>7, <1>9 DEF Following
  <2> QED BY <2>1, <2>2 DEF Following
<1> QED BY <1>3, <1>8, <1>9

\* A step of the register leaves the cache following the server: a handler
\* starts when none is at work, the server grants it what the cart allows, and
\* its answer takes the cache to where the server is.
LEMMA CalmStep == TypeInv /\ TypeInv' /\ Calm /\ [Next]_vars => Calm'
<1> SUFFICES ASSUME TypeInv, TypeInv', Calm, [Next]_vars, ~failed' PROVE Alone' /\ Following'
  BY DEF Calm
<1>0. /\ ~failed /\ Alone /\ Following /\ TypeOK /\ TypeOK' /\ Lines
      /\ \A t \in Tasks : task[t] \in Task /\ ShapeOf(task[t])
      /\ server \in Cart /\ cache \in Cart
  BY FailedStays DEF Calm, TypeInv, TypeOK
<1>1. CASE UNCHANGED <<server, cache, line, task, shown>>
  BY <1>0, <1>1, LineCalm DEF Alone, TypeOK
<1>2. ASSUME NEW s \in Slots, PostAdd(s) \/ \E q \in Quantities : ClickEdit(s, q)
      PROVE  Alone' /\ Following'
  <2>1. \A r \in Slots : line'[r].step # "error"
    BY <1>0, <1>2 DEF PostAdd, ClickEdit, Post, Alone, TypeOK
  <2>2. UNCHANGED <<server, task, shown>>
    BY <1>2 DEF PostAdd, ClickEdit
  <2>3. cache'.status = cache.status /\ (cache.status # "active" => cache' = cache)
    BY <1>0, <1>2 DEF PostAdd, ClickEdit, Editable, Cart
  <2> QED BY <1>0, <2>1, <2>2, <2>3, LineCalm DEF TypeOK
<1>3. ASSUME NEW s \in Slots, ProcessLine(s) PROVE Alone' /\ Following'
  <2>1. \A r \in Slots : line'[r].step # "error"
    BY <1>0, <1>3 DEF ProcessLine, Alone, TypeOK, LineRequest
  <2>2. /\ UNCHANGED <<cache, task, shown>>
        /\ server.status = "active" /\ server'.status = "active"
    BY <1>0, <1>3 DEF ProcessLine, Cart
  <2> QED BY <1>0, <2>1, <2>2, LineCalm DEF TypeOK
<1>4. ASSUME NEW s \in Slots, AnswerLine(s) PROVE Alone' /\ Following'
  <2>1. \A r \in Slots : line'[r].step # "error"
    BY <1>0, <1>4 DEF AnswerLine, Alone, TypeOK, Free
  <2>2. UNCHANGED <<server, shown>> /\ \A t \in Tasks : task'[t] \in {task[t], Less(task[t])}
    BY <1>0, <1>4, SettledType DEF AnswerLine
  <2>3. cache'.status = cache.status /\ (cache.status # "active" => cache' = cache)
    BY <1>0, <1>4 DEF AnswerLine, Merged, Lines
  <2> QED BY <1>0, <2>1, <2>2, <2>3, LineCalm DEF TypeOK
<1>5. ASSUME NEW t \in Tasks, FailTask(t) PROVE Alone' /\ Following'
  BY <1>0, <1>5 DEF FailTask, Alone
<1>6. ASSUME NEW s \in Slots, FailLine(s) PROVE Alone' /\ Following'
  BY <1>0, <1>6 DEF FailLine, Alone
<1>7. CASE Pay
  <2>1. Dead' /\ UNCHANGED <<line, task>>
    BY <1>0, <1>7 DEF Pay, Dead, Cart
  <2> QED BY <1>0, <2>1 DEF Alone, Following, Idle
<1> DEFINE Begun(t, kind, op, step) ==
             /\ task' = [task EXCEPT ![t] = task'[t]] /\ task[t].step = "idle"
             /\ task'[t].kind = kind /\ task'[t].op = op /\ task'[t].step = step
             /\ Overlaps /\ UNCHANGED <<server, cache, line, shown>>
<1>8. ASSUME NEW t \in Tasks, NEW kind, NEW op, NEW step, Begun(t, kind, op, step),
             \/ /\ cache.status = "active" /\ shown
                /\ \/ <<kind, op, step>> = <<"checkout", "lock", "chain">>
                   \/ <<kind, op, step>> = <<"clear", "cancel", "chain">>
                   \/ <<kind, op, step>> = <<"park", "park", "sent">>
             \/ /\ cache.status = "locked" /\ <<kind, op, step>> = <<"abort", "cancel", "sent">>
      PROVE  Alone' /\ Following'
  <2>1. \A u \in Tasks : task[u].step = "idle"
    BY <1>8 DEF Overlaps
  <2>2. \A u \in Tasks : u # t => task'[u].step = "idle"
    BY <1>0, <1>8, <2>1 DEF TypeOK
  <2>3. Dead \/ Rest
    BY <1>0, <2>1 DEF Following, Idle
  <2>4. Dead' \/ CalmOf(task[t])'
    BY <1>8, <2>3 DEF Dead, Rest, CalmOf
  <2>5. \A s \in Slots : line'[s].step # "error"
    BY <1>0, <1>8 DEF Alone
  <2>6. task'[t].step \notin {"idle", "error"}
    BY <1>8
  <2> QED BY <1>0, <2>2, <2>4, <2>5, <2>6, OneHandler
<1>9. ASSUME NEW t \in Tasks, ClickCheckout(t), UNCHANGED task PROVE Alone' /\ Following'
  BY <1>1, <1>9 DEF ClickCheckout
<1>10. ASSUME NEW t \in Tasks, ClickCheckout(t), ~UNCHANGED task PROVE Alone' /\ Following'
  <2>1. Begun(t, "checkout", "lock", "chain") /\ cache.status = "active" /\ shown
    BY <1>0, <1>10 DEF ClickCheckout, Started, TypeOK
  <2> HIDE DEF Begun
  <2> QED BY <1>8, <2>1
<1>11. ASSUME NEW t \in Tasks, ClickClear(t) PROVE Alone' /\ Following'
  <2>1. Begun(t, "clear", "cancel", "chain") /\ cache.status = "active" /\ shown
    BY <1>0, <1>11 DEF ClickClear, Started, TypeOK, Editable
  <2> HIDE DEF Begun
  <2> QED BY <1>8, <2>1
<1>12. ASSUME NEW t \in Tasks, ClickPark(t) PROVE Alone' /\ Following'
  <2>1. Begun(t, "park", "park", "sent") /\ cache.status = "active" /\ shown
    BY <1>0, <1>12 DEF ClickPark, Started, TypeOK, Editable
  <2> HIDE DEF Begun
  <2> QED BY <1>8, <2>1
<1>13. CASE CloseTender
  <2>1. CASE cache.status = "locked"
    <3>1. PICK t \in Tasks : /\ task[t].step = "idle" /\ Overlaps
                             /\ task' = Started(t, "abort", "cancel", "sent", 0)
      BY <1>13, <2>1 DEF CloseTender
    <3>2. Begun(t, "abort", "cancel", "sent")
      BY <1>0, <1>13, <3>1 DEF CloseTender, Started, TypeOK
    <3> HIDE DEF Begun
    <3> QED BY <1>8, <2>1, <3>2
  <2>2. CASE cache.status # "locked"
    BY <1>1, <1>13, <2>2 DEF CloseTender
  <2> QED BY <2>1, <2>2
<1>14. ASSUME NEW t \in Tasks, TaskStep(t)
       PROVE  /\ task[t].step # "idle" /\ \A u \in Tasks : u # t => task'[u].step = "idle"
              /\ Dead \/ CalmOf(task[t])
              /\ UNCHANGED line
  <2>1. task[t].step # "idle" /\ UNCHANGED line /\ \A u \in Tasks : u # t => task'[u] = task[u]
    BY <1>0, <1>14 DEF TaskStep, ChainSettled, ProcessTask, AnswerTask, FailTask, TypeOK
  <2> QED BY <1>0, <2>1 DEF Alone, Following, Idle
<1>15. ASSUME NEW t \in Tasks, TaskStep(t), task'[t].step # "error",
              Dead' \/ (IF task'[t].step = "idle" THEN Rest' ELSE CalmOf(task[t])')
       PROVE  Alone' /\ Following'
  BY <1>0, <1>14, <1>15, OneHandler DEF Alone
<1>16. ASSUME NEW t \in Tasks, ChainSettled(t) PROVE Alone' /\ Following'
  <2>1. task'[t] = [task[t] EXCEPT !.step = "sent"] /\ UNCHANGED <<server, cache, shown>>
    BY <1>0, <1>16 DEF ChainSettled, TypeOK
  <2>2. /\ task'[t].step = "sent" /\ task'[t].op = task[t].op /\ task'[t].kind = task[t].kind
        /\ task'[t].answer = task[t].answer
    BY <1>0, <2>1 DEF Task
  <2>3. Dead \/ CalmOf(task[t])
    BY <1>14, <1>16 DEF TaskStep
  <2>4. Dead' \/ CalmOf(task[t])'
    BY <1>0, <1>16, <2>1, <2>2, <2>3 DEF ChainSettled, CalmOf, Dead, ShapeOf, NoTask
  <2> QED BY <1>15, <1>16, <2>2, <2>4 DEF TaskStep
<1>17. ASSUME NEW t \in Tasks, ProcessTask(t) PROVE Alone' /\ Following'
  <2>1. /\ task'[t] = [task[t] EXCEPT !.step = "done", !.answer = server']
        /\ task[t].step = "sent" /\ UNCHANGED <<cache, shown>>
        /\ \/ task[t].op = "get" /\ server' = server
           \/ /\ task[t].op # "get" /\ After(server.status, task[t].op) # "refused"
              /\ server' = [server EXCEPT !.status = After(server.status, task[t].op)]
    BY <1>0, <1>17 DEF ProcessTask, TypeOK
  <2>2. /\ task'[t].step = "done" /\ task'[t].op = task[t].op /\ task'[t].kind = task[t].kind
        /\ task'[t].answer = server'
    BY <1>0, <2>1 DEF Task
  <2>3. Dead \/ CalmOf(task[t])
    BY <1>14, <1>17 DEF TaskStep
  <2>4. Dead => Dead'
    BY <2>1 DEF Dead, After
  <2>5. ASSUME task[t].op = "get" PROVE Dead' \/ CalmOf(task[t])'
    BY <1>0, <2>1, <2>2, <2>3, <2>4, <2>5 DEF CalmOf, ShapeOf, NoTask
  <2>6. ASSUME task[t].op = "lock", ~Dead PROVE Dead' \/ CalmOf(task[t])'
    <3>1. server' = [server EXCEPT !.status = "locked"]
      BY <2>1, <2>3, <2>6 DEF CalmOf, After
    <3>2. server'.status = "locked"
      BY <1>0, <3>1 DEF Cart
    <3> QED BY <1>0, <2>2, <2>6, <3>2 DEF CalmOf, ShapeOf, NoTask
  <2>7. ASSUME task[t].op = "park", ~Dead PROVE Dead' \/ CalmOf(task[t])'
    <3>1. server' = [server EXCEPT !.status = "parked"] /\ shown'
      BY <2>1, <2>3, <2>7 DEF CalmOf, After
    <3>2. server'.status = "parked"
      BY <1>0, <3>1 DEF Cart
    <3> QED BY <1>0, <2>2, <2>7, <3>1, <3>2 DEF CalmOf, ShapeOf, NoTask
  <2>8. ASSUME task[t].op = "cancel", task[t].kind = "clear", ~Dead
        PROVE  Dead' \/ CalmOf(task[t])'
    <3>1. server' = [server EXCEPT !.status = "cancelled"]
      BY <2>1, <2>3, <2>8 DEF CalmOf, After
    <3> QED BY <1>0, <3>1 DEF Dead, Cart
  <2>9. ASSUME task[t].op = "cancel", task[t].kind = "abort", ~Dead
        PROVE  Dead' \/ CalmOf(task[t])'
    <3>1. server.status = "locked" /\ cache = server
      BY <2>1, <2>3, <2>9 DEF CalmOf
    <3>2. server' = [server EXCEPT !.status = "active"]
      BY <2>1, <2>9, <3>1 DEF After
    <3>3. server'.status = "active" /\ cache'.status = "locked"
      BY <1>0, <2>1, <3>1, <3>2 DEF Cart
    <3> QED BY <2>2, <2>9, <3>3 DEF CalmOf
  <2>10. task[t].op \in {"get", "lock", "park"} \/ (task[t].op = "cancel" /\ task[t].kind \in {"clear", "abort"})
    BY <1>0, <2>1 DEF ShapeOf, NoTask
  <2>11. Dead' \/ CalmOf(task[t])'
    BY <2>4, <2>5, <2>6, <2>7, <2>8, <2>9, <2>10
  <2> QED BY <1>15, <1>17, <2>2, <2>11 DEF TaskStep
<1>18. ASSUME NEW t \in Tasks, AnswerTask(t) PROVE Alone' /\ Following'
  <2>1. /\ task[t].step = "done" /\ cache' = task[t].answer /\ UNCHANGED server
        /\ shown' = (shown /\ task[t].kind \notin {"park", "clear"})
    BY <1>18 DEF AnswerTask
  <2>2. Dead \/ CalmOf(task[t])
    BY <1>14, <1>18 DEF TaskStep
  <2>3. CASE task[t].op = "lock"
    <3>1. task'[t] = [task[t] EXCEPT !.op = "get", !.step = "sent", !.answer = NoCart]
      BY <1>0, <1>18, <2>3 DEF AnswerTask, TypeOK
    <3>2. task'[t].op = "get" /\ task'[t].step = "sent" /\ task'[t].kind = "checkout"
      BY <1>0, <2>3, <3>1 DEF Task, ShapeOf, NoTask
    <3>3. Dead' \/ CalmOf(task[t])'
      BY <2>1, <2>2, <2>3, <3>2 DEF CalmOf, Dead
    <3> QED BY <1>15, <1>18, <3>2, <3>3 DEF TaskStep
  <2>4. CASE task[t].op # "lock"
    <3>1. task'[t].step = "idle"
      BY <1>0, <1>18, <2>4 DEF AnswerTask, TypeOK, NoTask
    <3>2. Dead' \/ Rest'
      BY <1>0, <2>1, <2>2, <2>4 DEF CalmOf, Dead, Rest, ShapeOf, NoTask
    <3> QED BY <1>15, <1>18, <3>1, <3>2 DEF TaskStep
  <2> QED BY <2>3, <2>4
<1>19. CASE Resume
  <2>1. server.status = "parked" /\ ~shown /\ UNCHANGED <<line, task>> /\ ~Dead
    BY <1>19 DEF Resume, After, Dead
  <2>2. server' = [server EXCEPT !.status = "active"] /\ cache' = server'
    BY <1>19, <2>1 DEF Resume, After
  <2>3. server'.status = "active" /\ cache'.status = "active"
    BY <1>0, <2>2 DEF Cart
  <2>4. ASSUME NEW t \in Tasks PROVE Idle(t)
    <3>1. SUFFICES ASSUME ~Idle(t) PROVE FALSE
      OBVIOUS
    <3>2. CalmOf(task[t]) /\ task[t].step \in {"chain", "sent", "done"}
      BY <1>0, <2>1, <3>1 DEF Following, Alone, Idle, Task
    <3> QED BY <1>0, <2>1, <3>2 DEF CalmOf, ShapeOf, NoTask
  <2> QED BY <1>0, <2>1, <2>3, <2>4 DEF Alone, Following, Rest, Idle
<1>20. ~Lost
  BY DEF Lost
<1> HIDE DEF Begun
<1> QED
  BY <1>1, <1>2, <1>3, <1>4, <1>5, <1>6, <1>7, <1>9, <1>10, <1>11, <1>12, <1>13, <1>16, <1>17,
     <1>18, <1>19, <1>20
  DEF Next, LineStep, TaskStep, ClickAdd, vars

\* At the start nothing is at work and the cache is the server's cart.
LEMMA CalmInit == Init => Calm
  BY DEF Init, Calm, Alone, Following, Rest, Idle, Free, NoTask

\* As long as nothing fails, the cache follows the server.
LEMMA CalmInvariant == Spec => []Calm
<1>1. Init => Calm
  BY CalmInit
<1>2. TypeInv /\ TypeInv' /\ Calm /\ [Next]_vars => Calm'
  BY CalmStep
<1> QED BY <1>1, <1>2, TypeInvariant, PTL DEF Spec

\* The cache knows of a lock when all is answered: no stale answer of a line
\* hides it, so that closing the dialog can undo it.
THEOREM LockIsSeen == Spec => []LockSeen
<1>1. TypeInv /\ Calm => LockSeen
  BY DEF LockSeen, Calm, Following, Dead, Rest, Idle
<1> QED BY <1>1, TypeInvariant, CalmInvariant, PTL

-----------------------------------------------------------------------------
(* No add is lost *)

\* A checkout never counts an add that is neither answered nor waited for:
\* every answer shortens what it waits for by one.
LEMMA CountedStep == TypeInv /\ TypeInv' /\ Calm /\ Counted /\ [Next]_vars => Counted'
<1> SUFFICES ASSUME TypeInv, TypeInv', Calm, Counted, [Next]_vars, ~failed' PROVE Counts'
  BY DEF Counted
<1>0. /\ ~failed /\ Counts /\ Alone /\ TypeOK /\ due \in Nat /\ accepted \in Nat /\ Chain \in Nat
      /\ \A t \in Tasks : task[t] \in Task /\ ShapeOf(task[t])
  BY FailedStays, ChainType DEF Calm, Counted, TypeInv, TypeOK
<1>1. CASE UNCHANGED <<due, accepted, task>>
  BY <1>0, <1>1 DEF Counts
<1>2. ASSUME NEW s \in Slots, AnswerLine(s) PROVE Counts'
  <2>1. CASE line[s].kind = "add"
    <3>1. \A t \in Tasks : task'[t] = Less(task[t])
      BY <1>0, <1>2, <2>1, SettledType DEF AnswerLine
    <3>2. \A t \in Tasks : /\ Less(task[t]).due = task[t].due
                           /\ Less(task[t]).ahead = IF task[t].ahead > 0 THEN task[t].ahead - 1 ELSE 0
      BY <1>0 DEF Less, Task
    <3>3. \A t \in Tasks : task[t].due \in Nat /\ task[t].ahead \in Nat
      BY <1>0 DEF Task
    <3>4. accepted' = accepted + 1 /\ due' = due
      BY <1>2, <2>1 DEF AnswerLine
    <3> QED BY <1>0, <3>1, <3>2, <3>3, <3>4 DEF Counts
  <2>2. CASE line[s].kind # "add"
    BY <1>1, <1>2, <2>2 DEF AnswerLine, Settled
  <2> QED BY <2>1, <2>2
<1>3. ASSUME NEW s \in Slots, FailLine(s) PROVE Counts'
  BY <1>0, <1>3 DEF FailLine, Alone
<1>4. ASSUME NEW t \in Tasks, NEW kind, NEW op, NEW step, NEW ahead \in Nat,
             task' = Started(t, kind, op, step, ahead), UNCHANGED <<due, accepted>>,
             kind = "checkout" => ahead = Chain
      PROVE  Counts'
  <2>1. \A u \in Tasks : u # t => task'[u] = task[u]
    BY <1>0, <1>4 DEF Started, TypeOK
  <2>2. /\ task'[t].due = IF kind = "checkout" THEN accepted + Chain ELSE 0
        /\ task'[t].ahead = ahead
    BY <1>0, <1>4 DEF Started, TypeOK
  <2> QED BY <1>0, <1>4, <2>1, <2>2 DEF Counts
<1>5. ASSUME NEW t \in Tasks, ChainSettled(t) \/ ProcessTask(t) PROVE Counts'
  <2>1. \A u \in Tasks : task'[u].due = task[u].due /\ task'[u].ahead = task[u].ahead
    BY <1>0, <1>5 DEF ChainSettled, ProcessTask, TypeOK, Task
  <2>2. UNCHANGED <<due, accepted>>
    BY <1>5 DEF ChainSettled, ProcessTask, history
  <2> QED BY <1>0, <2>1, <2>2 DEF Counts
<1>6. ASSUME NEW t \in Tasks, AnswerTask(t) \/ FailTask(t) PROVE Counts'
  <2>1. \A u \in Tasks : u # t => task'[u] = task[u]
    BY <1>0, <1>6 DEF AnswerTask, FailTask, TypeOK
  <2>2. \/ task'[t].due = task[t].due /\ task'[t].ahead = task[t].ahead
        \/ task'[t].due = 0 /\ task'[t].ahead = 0
    <3>1. /\ [task[t] EXCEPT !.op = "get", !.step = "sent", !.answer = NoCart].due = task[t].due
          /\ [task[t] EXCEPT !.op = "get", !.step = "sent", !.answer = NoCart].ahead = task[t].ahead
          /\ NoTask.due = 0 /\ NoTask.ahead = 0
      BY <1>0 DEF Task, NoTask
    <3>2. \/ task'[t] = [task[t] EXCEPT !.op = "get", !.step = "sent", !.answer = NoCart]
          \/ task'[t] = NoTask
      BY <1>0, <1>6 DEF AnswerTask, FailTask, TypeOK
    <3> QED BY <3>1, <3>2
  <2>3. accepted' = accepted /\ due' \in {due, task[t].due}
    BY <1>6 DEF AnswerTask, FailTask, history
  <2>4. task[t].ahead = 0 /\ task[t].due <= accepted
    BY <1>0, <1>6 DEF AnswerTask, FailTask, ShapeOf, Counts, Task
  <2> QED BY <1>0, <2>1, <2>2, <2>3, <2>4 DEF Counts
<1>7. ASSUME NEW t \in Tasks, ClickCheckout(t) \/ ClickClear(t) \/ ClickPark(t) PROVE Counts'
  BY <1>0, <1>1, <1>4, <1>7 DEF ClickCheckout, ClickClear, ClickPark
<1>8. CASE CloseTender
  BY <1>1, <1>4, <1>8 DEF CloseTender
<1>9. ~Lost
  BY DEF Lost
<1> QED
  BY <1>1, <1>2, <1>3, <1>5, <1>6, <1>7, <1>8, <1>9
  DEF Next, LineStep, TaskStep, ClickAdd, Pay, Resume, PostAdd, ClickEdit, ProcessLine, vars, history

\* What was edited and what was given up stays so.
LEMMA PastStays ==
  ASSUME TypeOK, [Next]_vars
  PROVE  (edits' = 0 => edits = 0) /\ (late => late')
<1>1. edits' = edits \/ edits' = edits + 1
  BY DEF Next, LineStep, TaskStep, ClickAdd, CloseTender, Pay, Resume, Lost, PostAdd, ClickEdit,
         ProcessLine, AnswerLine, FailLine, ChainSettled, ProcessTask, AnswerTask, FailTask,
         ClickCheckout, ClickClear, ClickPark, vars, history
<1>2. late => late'
  BY DEF Next, LineStep, TaskStep, ClickAdd, CloseTender, Pay, Resume, Lost, PostAdd, ClickEdit,
         ProcessLine, AnswerLine, FailLine, ChainSettled, ProcessTask, AnswerTask, FailTask,
         ClickCheckout, ClickClear, ClickPark, vars, history
<1> QED BY <1>1, <1>2 DEF TypeOK

\* The steps of handlers that leave the carts alone keep what the adds need.
LEMMA IdleSafe ==
  ASSUME Safe, UNCHANGED <<server, cache, line, waiting, accepted>>,
         \A t \in Tasks : task'[t].kind = "abort" /\ task'[t].step = "done"
            => /\ task[t].kind = "abort" /\ task[t].step = "done"
               /\ task'[t].answer = task[t].answer
  PROVE  Safe'
<1>1. Chain' = Chain /\ (Open' <=> Open) /\ (Dead' <=> Dead)
  BY DEF Chain, AddsInFlight, Open, Dead
<1> QED BY <1>1 DEF Safe

\* An answered add is in the cart, and the next one is posted from a cache that
\* knows it, as long as nothing fails and no lock is given up with adds in the
\* chain: at most one add is on its way, and a cart that takes it is shown as
\* active.
LEMMA KeptStep == TypeInv /\ TypeInv' /\ Calm /\ Kept /\ [Next]_vars => Kept'
<1> SUFFICES ASSUME TypeInv, TypeInv', Calm, Kept, [Next]_vars, edits' = 0, ~failed', ~late'
             PROVE  Safe'
  BY DEF Kept
<1>0. /\ edits = 0 /\ ~failed /\ ~late /\ Safe /\ Alone /\ Following /\ TypeOK /\ TypeOK'
      /\ \A t \in Tasks : task[t] \in Task /\ ShapeOf(task[t])
  BY FailedStays, PastStays DEF Calm, Kept, TypeInv, TypeOK
<1>1. /\ accepted \in Nat /\ waiting \in Nat /\ Chain \in Nat
      /\ server \in Cart /\ cache \in Cart /\ server.qty \in Nat /\ cache.qty \in Nat
  BY <1>0, ChainType DEF TypeOK, Cart, Amounts
<1>2. ASSUME NEW s \in Slots
      PROVE  /\ line[s] \in LineRequest /\ line[s].qty \in Nat /\ line[s].answer.qty \in Nat
             /\ line[s].kind = "add"
             /\ line[s].step # "idle" => s \in AddsInFlight /\ Chain # 0
  <2>1. line[s] \in LineRequest /\ line[s].kind = "add"
    BY <1>0 DEF TypeInv, TypeOK, Lines, LineRequest
  <2>2. line[s].qty \in Nat /\ line[s].answer.qty \in Nat
    BY <2>1 DEF LineRequest, Cart, Amounts
  <2>3. line[s].step # "idle" => s \in AddsInFlight
    BY <2>1 DEF AddsInFlight
  <2>4. AddsInFlight # {} => Chain # 0
    BY <1>1 DEF Chain
  <2> QED BY <2>1, <2>2, <2>3, <2>4
<1>3. \A s, r \in Slots : line[s].step # "idle" /\ line[r].step # "idle" => s = r
  BY <1>2 DEF TypeInv, Lines
<1>4. CASE UNCHANGED <<server, cache, line, waiting, accepted, task>>
  BY <1>0, <1>4, IdleSafe
<1>5. CASE ClickAdd
  <2>1. cache.status = "active" /\ UNCHANGED <<server, cache, line, task, accepted>>
    BY <1>5 DEF ClickAdd, Editable
  <2> QED BY <1>0, <2>1 DEF Safe, Open, Dead
<1>6. ASSUME NEW s \in Slots, PostAdd(s) PROVE Safe'
  <2>1. /\ waiting > 0 /\ UNCHANGED <<server, cache, task, accepted>>
        /\ line' = [line EXCEPT ![s] = [kind |-> "add", step |-> "sent", qty |-> cache.qty + 1,
                                        before |-> cache, answer |-> NoCart]]
    BY <1>6 DEF PostAdd, Post, history
  <2>2. Chain # 0
    BY <1>0, <1>1, <2>1, ChainType
  <2>3. \A r \in Slots : r # s => line'[r] = line[r]
    BY <1>0, <2>1 DEF TypeOK
  <2>4. line'[s].step = "sent" /\ line'[s].qty = cache.qty + 1
    BY <1>0, <2>1 DEF TypeOK
  <2>5. (Open' <=> Open) /\ (Dead' <=> Dead)
    BY <2>1 DEF Open, Dead
  <2> QED BY <1>0, <1>1, <2>1, <2>2, <2>3, <2>4, <2>5 DEF Safe
<1>7. ASSUME NEW s \in Slots, ProcessLine(s) PROVE Safe'
  <2>1. /\ line[s].step = "sent" /\ server.status = "active"
        /\ server' = [server EXCEPT !.qty = line[s].qty]
        /\ line' = [line EXCEPT ![s].step = "done", ![s].answer = server']
        /\ UNCHANGED <<cache, task, accepted>>
    BY <1>0, <1>7 DEF ProcessLine
  <2>2. cache.status = "active" /\ accepted < line[s].qty
    BY <1>0, <1>2, <2>1 DEF Safe, Open
  <2>3. server'.qty = line[s].qty /\ server'.status = "active"
    BY <1>1, <2>1 DEF Cart
  <2>4. \A r \in Slots : r # s => line'[r].step = "idle"
    BY <1>0, <1>3, <2>1 DEF TypeOK
  <2>5. line'[s].step = "done" /\ line'[s].answer = server'
    BY <1>0, <1>2, <2>1 DEF TypeOK, LineRequest
  <2>6. ASSUME NEW t \in Tasks PROVE ~(task[t].kind = "abort" /\ task[t].step = "done")
    <3>1. ~Dead
      BY <2>1 DEF Dead
    <3>2. ~Idle(t) => CalmOf(task[t])
      BY <1>0, <3>1 DEF Following
    <3> QED BY <1>0, <2>1, <2>2, <3>2 DEF Idle, CalmOf, ShapeOf, NoTask
  <2>7. /\ accepted' < server'.qty /\ accepted' = accepted /\ cache' = cache
        /\ accepted <= cache.qty
    BY <1>0, <2>1, <2>2, <2>3 DEF Safe, Open
  <2>8. accepted' <= server'.qty
    BY <1>1, <1>2, <2>3, <2>7
  <2>9. \A r \in Slots : line'[r].step # "sent" /\ (line'[r].step = "done" => line'[r].answer = server')
    BY <2>4, <2>5
  <2> QED BY <2>1, <2>2, <2>3, <2>6, <2>7, <2>8, <2>9 DEF Safe
<1>8. ASSUME NEW s \in Slots, AnswerLine(s) PROVE Safe'
  <2>1. /\ line[s].step = "done" /\ server' = server /\ cache' = Merged(line[s].answer)
        /\ accepted' = accepted + 1 /\ line' = [line EXCEPT ![s] = Free]
    BY <1>2, <1>8 DEF AnswerLine
  <2>2. \A r \in Slots : line'[r].step = "idle"
    BY <1>0, <1>3, <2>1 DEF TypeOK, Free
  <2>3. line[s].answer.status = "active" /\ Chain # 0
    BY <1>2, <2>1 DEF TypeInv, Lines
  <2>4. accepted < server.qty
    BY <1>0, <2>1 DEF Safe
  <2>5. Open => accepted < cache'.qty
    BY <1>0, <2>1 DEF Safe, Merged
  <2>6. server.status = "active" => cache'.status = "active"
    BY <1>0, <2>1, <2>3 DEF Safe, Merged
  <2>7. ASSUME NEW t \in Tasks
        PROVE  /\ task'[t].kind = task[t].kind /\ task'[t].step = task[t].step
               /\ task'[t].answer = task[t].answer
    <3>1. task'[t] \in {task[t], Less(task[t])}
      BY <1>0, <1>8, SettledType DEF AnswerLine
    <3> QED BY <1>0, <3>1 DEF Less, Task
  <2>8. /\ (Open' <=> Open) /\ (Dead' <=> Dead)
        /\ cache'.qty \in Nat
    BY <1>0, <2>1 DEF Open, Dead, TypeOK, Cart, Amounts
  <2> QED BY <1>0, <1>1, <2>1, <2>2, <2>4, <2>5, <2>6, <2>7, <2>8 DEF Safe
<1>9. ASSUME NEW s \in Slots, FailLine(s) PROVE Safe'
  BY <1>0, <1>9 DEF FailLine, Alone
<1>10. ASSUME NEW t \in Tasks, FailTask(t) PROVE Safe'
  BY <1>0, <1>10 DEF FailTask, Alone
<1>11. CASE Pay
  <2>1. /\ server'.qty = server.qty /\ server'.status = "paid"
        /\ UNCHANGED <<cache, line, waiting, accepted, task>>
    BY <1>1, <1>11 DEF Pay, Cart, history
  <2> QED BY <1>0, <2>1 DEF Safe, Open, Dead
<1>12. ASSUME NEW t \in Tasks, NEW kind, NEW op, NEW step \in {"chain", "sent"}, NEW ahead,
              task' = Started(t, kind, op, step, ahead),
              UNCHANGED <<server, cache, line, waiting, accepted>>
       PROVE  Safe'
  <2>1. \A u \in Tasks : task'[u] = task[u] \/ task'[u].step = step
    BY <1>0, <1>12 DEF Started, TypeOK
  <2> QED BY <1>0, <1>12, <2>1, IdleSafe
<1>13. ASSUME NEW t \in Tasks, ClickCheckout(t) \/ ClickClear(t) \/ ClickPark(t) PROVE Safe'
  BY <1>4, <1>12, <1>13 DEF ClickCheckout, ClickClear, ClickPark
<1>14. CASE CloseTender
  BY <1>4, <1>12, <1>14 DEF CloseTender
<1>15. ASSUME NEW t \in Tasks, ChainSettled(t) PROVE Safe'
  <2>1. \A u \in Tasks : task'[u] = task[u] \/ task'[u].step = "sent"
    BY <1>0, <1>15 DEF ChainSettled, TypeOK, Task
  <2> QED BY <1>0, <1>15, <2>1, IdleSafe DEF ChainSettled, history
<1>16. ASSUME NEW t \in Tasks, task[t].step # "idle"
       PROVE  /\ Dead \/ CalmOf(task[t])
              /\ \A u \in Tasks : u # t => task[u].step = "idle"
  BY <1>0, <1>16 DEF Alone, Following, Idle
<1>17. ASSUME NEW t \in Tasks, ProcessTask(t) PROVE Safe'
  <2>1. /\ task[t].step = "sent" /\ UNCHANGED <<cache, line, waiting, accepted>>
        /\ task' = [task EXCEPT ![t].step = "done", ![t].answer = server']
        /\ \/ task[t].op = "get" /\ server' = server
           \/ /\ task[t].op # "get" /\ After(server.status, task[t].op) # "refused"
              /\ server' = [server EXCEPT !.status = After(server.status, task[t].op)]
    BY <1>0, <1>17 DEF ProcessTask
  <2>2. After(server.status, task[t].op) = "active" => Chain = 0
    BY <1>17 DEF ProcessTask
  <2>3. /\ server'.qty = server.qty
        /\ \/ server' = server
           \/ server.status = "active" /\ server'.status \in {"locked", "parked", "cancelled"}
           \/ server.status = "parked" /\ server'.status = "cancelled"
           \/ server.status = "locked" /\ server'.status = "active" /\ Chain = 0 /\ cache = server
    <3>1. task[t].op # "resume"
      BY <1>0 DEF Task
    <3>2. CASE server.status = "locked" /\ task[t].op = "cancel"
      <4>1. cache = server
        BY <1>0, <1>16, <2>1, <3>2 DEF CalmOf, ShapeOf, NoTask, Dead
      <4> QED BY <1>1, <2>1, <2>2, <3>2, <4>1 DEF After, Cart
    <3>3. CASE ~(server.status = "locked" /\ task[t].op = "cancel")
      BY <1>1, <2>1, <3>1, <3>3 DEF After, Cart
    <3> QED BY <3>2, <3>3
  <2>4. \A u \in Tasks : task'[u].step = "done" => task'[u].answer = server'
    <3>1. \A u \in Tasks : u # t => task'[u].step = "idle"
      BY <1>0, <1>16, <2>1 DEF TypeOK
    <3>2. task'[t].answer = server'
      BY <1>0, <2>1 DEF TypeOK, Task
    <3> QED BY <3>1, <3>2
  <2>5. Chain' = Chain
    BY <2>1 DEF Chain, AddsInFlight
  <2>6. /\ Open' => Open \/ (Chain = 0 /\ cache = server)
        /\ server'.status = "active" => server.status = "active" \/ Chain = 0
    BY <2>3 DEF Open
  <2>7. \A s \in Slots : Chain = 0 => line[s].step = "idle"
    BY <1>2
  <2> QED BY <1>0, <2>1, <2>3, <2>4, <2>5, <2>6, <2>7 DEF Safe
<1>18. ASSUME NEW t \in Tasks, AnswerTask(t) PROVE Safe'
  <2>1. /\ task[t].step = "done" /\ cache' = task[t].answer
        /\ UNCHANGED <<server, line, waiting, accepted>>
    BY <1>18 DEF AnswerTask
  <2>2. Open => cache' = server
    BY <1>0, <1>16, <2>1 DEF Open, Safe, Dead, CalmOf, ShapeOf, NoTask
  <2>3. \A u \in Tasks : ~(task'[u].kind = "abort" /\ task'[u].step = "done")
    <3>1. \A u \in Tasks : u # t => task'[u].step = "idle"
      BY <1>0, <1>16, <1>18, <2>1 DEF AnswerTask, TypeOK
    <3>2. task'[t].step # "done"
      <4>1. \/ task'[t] = [task[t] EXCEPT !.op = "get", !.step = "sent", !.answer = NoCart]
            \/ task'[t] = NoTask
        BY <1>0, <1>18 DEF AnswerTask, TypeOK
      <4>2. /\ [task[t] EXCEPT !.op = "get", !.step = "sent", !.answer = NoCart].step = "sent"
            /\ NoTask.step = "idle"
        BY <1>0 DEF Task, NoTask
      <4> QED BY <4>1, <4>2
    <3> QED BY <3>1, <3>2
  <2>4. Chain' = Chain /\ (Open' <=> Open)
    BY <2>1 DEF Chain, AddsInFlight, Open
  <2>5. server.status = "active" => Open
    BY DEF Open
  <2> QED BY <1>0, <2>1, <2>2, <2>3, <2>4, <2>5 DEF Safe
<1>19. CASE Resume
  <2>1. /\ server.status = "parked" /\ UNCHANGED <<line, waiting, accepted, task>>
        /\ server' = [server EXCEPT !.status = "active"] /\ cache' = server' /\ ~shown
    BY <1>19 DEF Resume, After, history
  <2>2. server'.status = "active" /\ server'.qty = server.qty
    BY <1>1, <2>1 DEF Cart
  <2>3. ASSUME NEW t \in Tasks PROVE task[t].step # "done"
    BY <1>0, <1>16, <2>1 DEF CalmOf, ShapeOf, NoTask, Dead
  <2> QED BY <1>0, <2>1, <2>2, <2>3 DEF Safe, Open
<1>20. ~Lost
  BY DEF Lost
<1>21. ASSUME NEW s \in Slots, NEW q \in Quantities PROVE ~ClickEdit(s, q)
  BY <1>0 DEF ClickEdit
<1> QED
  BY <1>4, <1>5, <1>6, <1>7, <1>8, <1>9, <1>10, <1>11, <1>13, <1>14, <1>15, <1>17, <1>18, <1>19,
     <1>20, <1>21
  DEF Next, LineStep, TaskStep, vars, history

\* At the start no add was answered.
LEMMA KeptInit == Init => Counted /\ Kept
  BY DEF Init, Counted, Counts, Kept, Safe, Open, Free, NoTask

\* What was answered is in the cart, and what a checkout counts was answered
\* or is waited for.
LEMMA KeptInvariant == Spec => [](Counted /\ Kept)
<1>1. Init => Counted /\ Kept
  BY KeptInit
<1>2. TypeInv /\ TypeInv' /\ Calm /\ (Counted /\ Kept) /\ [Next]_vars => (Counted /\ Kept)'
  BY CountedStep, KeptStep
<1> QED BY <1>1, <1>2, TypeInvariant, CalmInvariant, PTL DEF Spec

\* An add that was answered is in the cart of the server, and no add is in it
\* twice, also when answers are lost: each add posts one more than a cache
\* that knows the adds before it.
THEOREM AnsweredAddsAreKept == Spec => []AddsKept
<1>1. TypeInv /\ Kept => AddsKept
  <2>1. TypeInv /\ edits = 0 => server.qty <= clicks
    BY DEF TypeInv, TypeOK, Bounded, Limit, Cart, Amounts
  <2>2. Kept /\ edits = 0 /\ ~failed /\ ~late => accepted <= server.qty
    BY DEF Kept, Safe
  <2> QED BY <2>1, <2>2 DEF AddsKept
<1> QED BY <1>1, TypeInvariant, KeptInvariant, PTL

\* The tender charges for every add that was clicked before the checkout, in
\* whatever order the answers of lines and handlers come in.
THEOREM TenderChargesAdds == Spec => []CheckoutCounts
<1>1. TypeInv /\ Counted /\ Kept => CheckoutCounts
  <2> SUFFICES ASSUME TypeInv, Counted, Kept, edits = 0, ~failed, ~late
               PROVE  server.qty >= due
    BY DEF CheckoutCounts
  <2>1. due <= accepted /\ accepted <= server.qty
    BY DEF Counted, Counts, Kept, Safe
  <2>2. due \in Nat /\ accepted \in Nat /\ server.qty \in Nat
    BY DEF TypeInv, TypeOK, Cart, Amounts
  <2> QED BY <2>1, <2>2
<1> QED BY <1>1, TypeInvariant, KeptInvariant, PTL
=============================================================================

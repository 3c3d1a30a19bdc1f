---------------------------- MODULE TransferBatch ----------------------------
(***************************************************************************)
(* Stock transfers between branches: app/services/transfer_service.py.     *)
(*                                                                         *)
(* A batch reserves its lines at the sending branch when it is created,    *)
(* ships them at dispatch and adds them at the receiving branch at         *)
(* receipt. A request (Slots) loads the batch with its lines in one step   *)
(* and commits in another: the batch is not locked in between. The stock   *)
(* movements of a commit are one step because a level changed since it was *)
(* read aborts the request (StockLedger); a movement whose key exists is   *)
(* skipped. One product is modelled: a line is its quantity in base units. *)
(***************************************************************************)
EXTENDS Integers, Sequences, FiniteSets, Functions

CONSTANTS Batches, Branches, Slots,
          Lists,       \* the line lists a batch can have
          Initial,     \* on_hand of each branch at the start
          MaxUpdates   \* bound: updates of a batch

ASSUME TransferAssumption ==
    /\ IsFiniteSet(Batches) /\ IsFiniteSet(Branches)
    /\ Lists \subseteq Seq(Nat \ {0}) \ {<<>>}
    /\ Initial \in [Branches -> Nat] /\ MaxUpdates \in Nat

VARIABLES batch,     \* transfer_batches with their transfer_lines
          stock,     \* stock_levels: on_hand and reserved
          movements, \* stock_movements of transfers
          req        \* what each request has loaded

vars == <<batch, stock, movements, req>>

Statuses == {"new", "pending_dispatch", "in_transit", "received", "deleted"}

\* updates counts the updates so far.
Batch == [status : Statuses, from : Branches, to : Branches, lines : Seq(Nat),
          updates : 0..MaxUpdates]

Kinds == {"reserve", "update_release", "update_reserve", "dispatch", "receive",
          "cancel_reserve"}

\* The idempotency key of a movement: batch, kind and line index.
Movement == [batch : Batches, kind : Kinds, line : Nat, qty : Nat]

Idle == [op |-> "idle"]

Request == {Idle} \cup
    [op : {"update", "dispatch", "receive", "cancel"}, batch : Batches, loaded : Batch,
     from : Branches, to : Branches, lines : Seq(Nat)]

TypeOK ==
    /\ batch \in [Batches -> Batch]
    /\ stock \in [Branches -> [oh : Nat, rs : Nat]]
    /\ movements \subseteq Movement
    /\ req \in [Slots -> Request]

-----------------------------------------------------------------------------

Total(lines) == SumFunction(lines)

\* The lines of batch b whose movement of this kind has not been made.
Fresh(b, kind, lines) ==
    {i \in DOMAIN lines :
       ~\E m \in movements : m.batch = b /\ m.kind = kind /\ m.line = i}

Made(b, kind, lines) ==
    {[batch |-> b, kind |-> kind, line |-> i, qty |-> lines[i]] : i \in Fresh(b, kind, lines)}

\* The quantity such movements move.
Moved(b, kind, lines) == SumFunctionOnSet(lines, Fresh(b, kind, lines))

\* A level with changes applied; apply_stock_movement_extended accepts it when
\* it is Valid.
Change(level, oh, rs) == [oh |-> level.oh + oh, rs |-> level.rs + rs]

\* Variant: only the upper bound of reserved is checked.
ValidBound(level) == level.rs <= level.oh

Valid(level) == level.oh >= 0 /\ level.rs >= 0 /\ level.rs <= level.oh

Available(level) == level.oh - level.rs

\* _assert_transfer_qty_available of every line, before any is reserved.
AllAvailable(level, lines) == \A i \in DOMAIN lines : lines[i] <= Available(level)

Free(s) == req[s] = Idle

Done(s) == req' = [req EXCEPT ![s] = Idle]

Exists(b) == batch[b].status \notin {"new", "deleted"}

\* create_batch, _resolve_and_persist_transfer_lines, _apply_transfer_reservations
CreateBatch(b, from, to, lines) ==
    LET level == Change(stock[from], 0, Moved(b, "reserve", lines)) IN
    /\ batch[b].status = "new" /\ from # to
    /\ AllAvailable(stock[from], lines) /\ Valid(level)
    /\ batch' = [batch EXCEPT ![b] = [status |-> "pending_dispatch", from |-> from,
                                      to |-> to, lines |-> lines, updates |-> 0]]
    /\ stock' = [stock EXCEPT ![from] = level]
    /\ movements' = movements \cup Made(b, "reserve", lines)
    /\ UNCHANGED req

\* Variant: an update does not look at the status of the batch it loads.
LoadUnchecked(s, op, b, status, from, to, lines) ==
    /\ Free(s) /\ (batch[b].status = status \/ (op = "update" /\ Exists(b)))
    /\ req' = [req EXCEPT ![s] = [op |-> op, batch |-> b, loaded |-> batch[b],
                                  from |-> from, to |-> to, lines |-> lines]]
    /\ UNCHANGED <<batch, stock, movements>>

\* A request loads the batch; its status must be the one the operation needs.
Load(s, op, b, status, from, to, lines) ==
    /\ Free(s) /\ batch[b].status = status
    /\ req' = [req EXCEPT ![s] = [op |-> op, batch |-> b, loaded |-> batch[b],
                                  from |-> from, to |-> to, lines |-> lines]]
    /\ UNCHANGED <<batch, stock, movements>>

LoadUpdate(s, b, from, to, lines) ==
    /\ from # to /\ batch[b].updates < MaxUpdates
    /\ Load(s, "update", b, "pending_dispatch", from, to, lines)

LoadOnly(s, op, b, status) ==
    Load(s, op, b, status, batch[b].from, batch[b].to, batch[b].lines)

\* update_pending_batch: release the loaded lines, replace them, reserve the
\* new ones at the (possibly new) sending branch. Lines another update added
\* since the batch was loaded stay.
CommitUpdate(s) ==
    LET r == req[s]
        b == r.batch
        old == r.loaded
        released == [stock EXCEPT ![old.from] =
                        Change(@, 0, -Moved(b, "update_release", old.lines))]
        reserved == [released EXCEPT ![r.from] =
                        Change(@, 0, Moved(b, "update_reserve", r.lines))]
    IN  /\ r.op = "update" /\ Exists(b) /\ batch[b].updates < MaxUpdates
        /\ Valid(released[old.from]) /\ Valid(reserved[r.from])
        /\ AllAvailable(released[r.from], r.lines)
        /\ batch' = [batch EXCEPT
              ![b].from = IF r.from = old.from THEN @ ELSE r.from,
              ![b].to = IF r.to = old.to THEN @ ELSE r.to,
              ![b].lines = IF batch[b].updates = old.updates THEN r.lines ELSE @ \o r.lines,
              ![b].updates = @ + 1]
        /\ stock' = reserved
        /\ movements' = movements \cup Made(b, "update_release", old.lines)
                                  \cup Made(b, "update_reserve", r.lines)
        /\ Done(s)

\* Variant: the shipment leaves the shelf and stays reserved, as a movement
\* without reserved_delta would.
DispatchKeepsReserve(s) ==
    LET r == req[s]
        qty == Moved(r.batch, "dispatch", r.lines)
        level == Change(stock[r.from], -qty, 0)
    IN  /\ r.op = "dispatch" /\ Exists(r.batch)
        /\ \A i \in DOMAIN r.lines : r.lines[i] <= stock[r.from].rs
        /\ Valid(level)
        /\ stock' = [stock EXCEPT ![r.from] = level]
        /\ batch' = [batch EXCEPT ![r.batch].status = "in_transit"]
        /\ movements' = movements \cup Made(r.batch, "dispatch", r.lines)
        /\ Done(s)

\* dispatch_batch: every line must be covered by what is reserved.
CommitDispatch(s) ==
    LET r == req[s]
        b == r.batch
        qty == Moved(b, "dispatch", r.lines)
        level == Change(stock[r.from], -qty, -qty)
    IN  /\ r.op = "dispatch" /\ Exists(b)
        /\ \A i \in DOMAIN r.lines :
              r.lines[i] <= stock[r.from].rs
                            - SumFunctionOnSet(r.lines,
                                               {j \in Fresh(b, "dispatch", r.lines) : j < i})
        /\ Valid(level)
        /\ stock' = [stock EXCEPT ![r.from] = level]
        /\ batch' = [batch EXCEPT ![b].status = "in_transit"]
        /\ movements' = movements \cup Made(b, "dispatch", r.lines)
        /\ Done(s)

\* Variant: the goods arrive at the branch that sent them.
ReceiveAtSender(s) ==
    LET r == req[s]
        qty == Moved(r.batch, "receive", r.lines)
    IN  /\ r.op = "receive" /\ Exists(r.batch)
        /\ stock' = [stock EXCEPT ![r.from] = Change(@, qty, 0), ![r.to] = Change(@, qty, 0)]
        /\ batch' = [batch EXCEPT ![r.batch].status = "received"]
        /\ movements' = movements \cup Made(r.batch, "receive", r.lines)
        /\ Done(s)

\* receive_batch
CommitReceive(s) ==
    LET r == req[s]
        b == r.batch
        qty == Moved(b, "receive", r.lines)
    IN  /\ r.op = "receive" /\ Exists(b)
        /\ stock' = [stock EXCEPT ![r.to] = Change(@, qty, 0)]
        /\ batch' = [batch EXCEPT ![b].status = "received"]
        /\ movements' = movements \cup Made(b, "receive", r.lines)
        /\ Done(s)

\* cancel_pending_batch: release the loaded lines and delete the batch.
CommitCancel(s) ==
    LET r == req[s]
        b == r.batch
        level == Change(stock[r.from], 0, -Moved(b, "cancel_reserve", r.lines))
    IN  /\ r.op = "cancel" /\ Exists(b) /\ Valid(level)
        /\ stock' = [stock EXCEPT ![r.from] = level]
        /\ batch' = [batch EXCEPT ![b].status = "deleted"]
        /\ movements' = movements \cup Made(b, "cancel_reserve", r.lines)
        /\ Done(s)

\* A request fails and is rolled back.
Fail(s) == ~Free(s) /\ Done(s) /\ UNCHANGED <<batch, stock, movements>>

\* A sale or an adjustment takes a free unit of a branch.
Sell(branch) ==
    /\ Available(stock[branch]) > 0
    /\ stock' = [stock EXCEPT ![branch] = Change(@, -1, 0)]
    /\ UNCHANGED <<batch, movements, req>>

-----------------------------------------------------------------------------

Init ==
    /\ \E any \in Branches :
          batch = [b \in Batches |-> [status |-> "new", from |-> any, to |-> any,
                                      lines |-> <<>>, updates |-> 0]]
    /\ stock = [x \in Branches |-> [oh |-> Initial[x], rs |-> 0]]
    /\ movements = {}
    /\ req = [s \in Slots |-> Idle]

Begin(s, b) ==
    \/ \E from, to \in Branches, lines \in Lists : LoadUpdate(s, b, from, to, lines)
    \/ LoadOnly(s, "dispatch", b, "pending_dispatch")
    \/ LoadOnly(s, "receive", b, "in_transit")
    \/ LoadOnly(s, "cancel", b, "pending_dispatch")

Finish(s) ==
    CommitUpdate(s) \/ CommitDispatch(s) \/ CommitReceive(s) \/ CommitCancel(s) \/ Fail(s)

Next ==
    \/ \E b \in Batches, from, to \in Branches, lines \in Lists :
          CreateBatch(b, from, to, lines)
    \/ \E s \in Slots, b \in Batches : Begin(s, b)
    \/ \E s \in Slots : Finish(s)
    \/ \E branch \in Branches : Sell(branch)

Spec == Init /\ [][Next]_vars

-----------------------------------------------------------------------------

\* Requests overlap only on different batches.
OnePerBatch ==
    \A s, t \in Slots :
       s # t /\ ~Free(s) /\ ~Free(t) => req[s].batch # req[t].batch

With(status) == {b \in Batches : batch[b].status = status}

Shipments == [b \in Batches |-> Total(batch[b].lines)]

Units(B) == SumFunctionOnSet(Shipments, B)

Pending(branch) == Units({b \in With("pending_dispatch") : batch[b].from = branch})

Goods == SumFunction([x \in Branches |-> stock[x].oh]) + Units(With("in_transit"))

\* What a branch has reserved is what its batches wait to ship, as long as no
\* batch has been updated twice: create reserves, the first update exchanges
\* the reservation, dispatch and cancel release it.
ReservedMatchesPending ==
    (\A b \in Batches : batch[b].updates < 2)
       => \A x \in Branches : stock[x].rs = Pending(x)

\* Goods leave the branches and the trucks between them only by a sale of one
\* unit: reserving, updating, shipping, receiving and cancelling move them.
GoodsConserved ==
    [][\/ Goods' = Goods
       \/ Goods' = Goods - 1 /\ UNCHANGED <<batch, movements>>]_vars

\* A received batch has received, line by line, what was shipped for it, and
\* this is what its lines say.
ReceivedAsShipped ==
    \A b \in With("received") :
       LET moved(kind) == {<<m.line, m.qty>> : m \in {n \in movements :
                                                    n.batch = b /\ n.kind = kind}}
       IN  /\ moved("receive") = {<<i, batch[b].lines[i]>> : i \in DOMAIN batch[b].lines}
           /\ moved("dispatch") = moved("receive")
=============================================================================

---------------------------- MODULE StockLedger ----------------------------
(***************************************************************************)
(* The stock ledger of app/services/inventory_service.py: every change of  *)
(* a stock level, whoever asks for it (sale, return, transfer, receipt,    *)
(* count, adjustment), goes through apply_stock_movement_extended.         *)
(*                                                                         *)
(* A request (Txns) is one HTTP request: one AsyncSession, one PostgreSQL  *)
(* transaction at READ COMMITTED. It runs a list of calls of               *)
(* apply_stock_movement_extended and then commits, or fails at any point,  *)
(* which rolls everything back. The statements of one call are separate    *)
(* steps, because other requests commit between them:                      *)
(*                                                                         *)
(*   Lookup       SELECT stock_movements WHERE idempotency_key             *)
(*   Read         SELECT stock_levels (remember the version)               *)
(*   CreateLevel  INSERT stock_levels, when there was none                 *)
(*   UpdateLevel  UPDATE stock_levels WHERE version = remembered           *)
(*   Insert       INSERT stock_movements (unique key)                      *)
(*                                                                         *)
(* What a transaction has written but not committed is in its record: it   *)
(* holds the row locks of those levels and the unique-index entries of     *)
(* those keys, and whoever needs them waits.                               *)
(***************************************************************************)
EXTENDS Integers, Sequences, FiniteSets

CONSTANTS Txns,      \* request slots of the server
          Keys,      \* idempotency keys
          Levels,    \* (branch, product, variant) triples
          Deltas,    \* quantities a call may move: [oh, rs, dm]
          Programs,  \* the call lists a request may run
          NoRow      \* "no such row"

\* Quantities of one stock_levels row: on_hand, reserved, damaged.
Qty == [oh : Int, rs : Int, dm : Int]

Zero == [oh |-> 0, rs |-> 0, dm |-> 0]

Plus(q, d) == [oh |-> q.oh + d.oh, rs |-> q.rs + d.rs, dm |-> q.dm + d.dm]

Call == [key : Keys, level : Levels, d : Deltas]

ASSUME LedgerAssumption ==
    /\ Deltas \subseteq Qty \ {Zero}
    /\ Programs \subseteq Seq(Call)

\* A stock_levels row: its quantities and its optimistic version.
Row == [q : Qty, ver : Nat]

ASSUME NoRowAssumption == NoRow \notin Row

\* A stock_movements row. ver and after are history: the version of the level
\* the movement produced and the quantities it left there.
Movement == [key : Keys, level : Levels, d : Deltas, ver : Nat, after : Qty]

VARIABLES level,   \* committed stock_levels
          ledger,  \* committed stock_movements
          txn      \* what each request is doing

vars == <<level, ledger, txn>>

Steps == {"idle", "lookup", "read", "create", "update", "insert"}

\* mine: levels written by finished calls of this transaction; draft: the row
\* of the current call's level as written inside its savepoint; ups: inserted
\* movements; seen: the version read; attempt: the pass of range(2).
TxnState == [pc : Steps, calls : Seq(Call), attempt : {0, 1}, seen : Nat,
             draft : Row \cup {NoRow}, mine : [Levels -> Row \cup {NoRow}],
             ups : SUBSET Movement]

Idle == [pc |-> "idle", calls |-> <<>>, attempt |-> 0, seen |-> 0,
         draft |-> NoRow, mine |-> [l \in Levels |-> NoRow], ups |-> {}]

TypeOK ==
    /\ level \in [Levels -> Row \cup {NoRow}]
    /\ ledger \subseteq Movement
    /\ txn \in [Txns -> TxnState]

-----------------------------------------------------------------------------

\* Variant: the sign checks without reserved + damaged <= on_hand.
ValidSigns(q) == q.oh >= 0 /\ q.rs >= 0 /\ q.dm >= 0

\* _validate_stock_level_invariants
Valid(q) == q.oh >= 0 /\ q.rs >= 0 /\ q.dm >= 0 /\ q.rs + q.dm <= q.oh

Running(t) == txn[t].pc # "idle" /\ txn[t].calls # <<>>

Current(t) == Head(txn[t].calls)

\* t has written level l and not committed: it holds the row lock.
Holds(t, l) ==
    \/ txn[t].mine[l] # NoRow
    \/ txn[t].draft # NoRow /\ txn[t].calls # <<>> /\ Current(t).level = l

LockedByOther(t, l) == \E u \in Txns \ {t} : Holds(u, l)

KeyIn(k, M) == \E m \in M : m.key = k

\* Another transaction has an uncommitted movement with this key.
KeyPending(t, k) == \E u \in Txns \ {t} : KeyIn(k, txn[u].ups)

\* READ COMMITTED: a transaction sees its own writes and what is committed.
KeyKnown(t, k) == KeyIn(k, ledger \cup txn[t].ups)

Visible(t, l) == IF txn[t].mine[l] # NoRow THEN txn[t].mine[l] ELSE level[l]

\* The row the UPDATE meets: the one just created in the savepoint, if any.
Target(t) == IF txn[t].draft # NoRow THEN txn[t].draft ELSE Visible(t, Current(t).level)

-----------------------------------------------------------------------------

\* Variant: the request ends but its session, and so its locks, stay open.
LeakSession(t) == txn' = [txn EXCEPT ![t].pc = "idle", ![t].calls = <<>>]

\* An exception leaves the handler: get_db closes the session, PostgreSQL
\* rolls the transaction back and its locks go.
Rollback(t) == txn' = [txn EXCEPT ![t] = Idle]

\* The call returns; the savepoint, if one was rolled back, leaves nothing.
NextCall(t) ==
    txn' = [txn EXCEPT ![t].pc = "lookup", ![t].calls = Tail(@),
                       ![t].attempt = 0, ![t].draft = NoRow]

\* except IntegrityError: return the movement another request inserted, try
\* once more, or give up with a conflict.
AfterIntegrityError(t) ==
    IF KeyKnown(t, Current(t).key) THEN NextCall(t)
    ELSE IF txn[t].attempt = 1 THEN Rollback(t)
    ELSE txn' = [txn EXCEPT ![t].pc = "lookup", ![t].attempt = 1,
                            ![t].draft = NoRow]

Begin(t, program) ==
    /\ txn[t].pc = "idle"
    /\ txn' = [txn EXCEPT ![t].pc = "lookup", ![t].calls = program]
    /\ UNCHANGED <<level, ledger>>

Lookup(t) ==
    /\ Running(t) /\ txn[t].pc = "lookup"
    /\ IF KeyKnown(t, Current(t).key) THEN NextCall(t)
       ELSE txn' = [txn EXCEPT ![t].pc = "read"]
    /\ UNCHANGED <<level, ledger>>

Read(t) ==
    /\ Running(t) /\ txn[t].pc = "read"
    /\ LET row == Visible(t, Current(t).level)
       IN  txn' = IF row = NoRow
                  THEN [txn EXCEPT ![t].pc = "create"]
                  ELSE [txn EXCEPT ![t].pc = "update", ![t].seen = row.ver]
    /\ UNCHANGED <<level, ledger>>

\* Variant: the version column has no default of zero.
CreateUnversioned(t) ==
    /\ Running(t) /\ txn[t].pc = "create"
    /\ ~LockedByOther(t, Current(t).level)
    /\ IF level[Current(t).level] # NoRow THEN AfterIntegrityError(t)
       ELSE txn' = [txn EXCEPT ![t].pc = "update", ![t].seen = -1,
                               ![t].draft = [q |-> Zero, ver |-> -1]]
    /\ UNCHANGED <<level, ledger>>

\* INSERT of a level row: it waits for a concurrent insert of the same level,
\* and violates uq_stock_levels_branch_product_variant if that one committed.
CreateLevel(t) ==
    /\ Running(t) /\ txn[t].pc = "create"
    /\ ~LockedByOther(t, Current(t).level)
    /\ IF level[Current(t).level] # NoRow THEN AfterIntegrityError(t)
       ELSE txn' = [txn EXCEPT ![t].pc = "update", ![t].seen = 0,
                               ![t].draft = [q |-> Zero, ver |-> 0]]
    /\ UNCHANGED <<level, ledger>>

\* The version moved since Read: stock_update_conflict, without waiting.
UpdateConflict(t) ==
    /\ Running(t) /\ txn[t].pc = "update"
    /\ Target(t).ver # txn[t].seen
    /\ Rollback(t)
    /\ UNCHANGED <<level, ledger>>

\* Variant: UPDATE without the version predicate and without the row lock.
UpdateUnversioned(t) ==
    /\ Running(t) /\ txn[t].pc = "update"
    /\ LET q == Plus(Target(t).q, Current(t).d)
       IN  IF Valid(q)
           THEN txn' = [txn EXCEPT ![t].pc = "insert",
                                   ![t].draft = [q |-> q, ver |-> txn[t].seen + 1]]
           ELSE Rollback(t)
    /\ UNCHANGED <<level, ledger>>

\* UPDATE ... WHERE version = seen, once no other transaction holds the row,
\* then _validate_stock_level_invariants on the result.
UpdateLevel(t) ==
    /\ Running(t) /\ txn[t].pc = "update"
    /\ Target(t).ver = txn[t].seen
    /\ ~LockedByOther(t, Current(t).level)
    /\ LET q == Plus(Target(t).q, Current(t).d)
       IN  IF Valid(q)
           THEN txn' = [txn EXCEPT ![t].pc = "insert",
                                   ![t].draft = [q |-> q, ver |-> txn[t].seen + 1]]
           ELSE Rollback(t)
    /\ UNCHANGED <<level, ledger>>

NewMovement(t) ==
    [key |-> Current(t).key, level |-> Current(t).level, d |-> Current(t).d,
     ver |-> txn[t].draft.ver, after |-> txn[t].draft.q]

\* The savepoint is released: the draft row and the movement are the
\* transaction's, and the call returns.
CallDone(t) ==
    [txn[t] EXCEPT !.pc = "lookup", !.calls = Tail(txn[t].calls), !.attempt = 0,
                   !.draft = NoRow,
                   !.mine = [txn[t].mine EXCEPT ![Current(t).level] = txn[t].draft],
                   !.ups = txn[t].ups \cup {NewMovement(t)}]

\* Variant: no unique index on the idempotency key.
InsertUnchecked(t) ==
    /\ Running(t) /\ txn[t].pc = "insert"
    /\ txn' = [txn EXCEPT ![t] = CallDone(t)]
    /\ UNCHANGED <<level, ledger>>

\* INSERT of the movement: it waits for an uncommitted movement with the same
\* key and violates uq_stock_movements_idempotency_key if that one committed.
Insert(t) ==
    /\ Running(t) /\ txn[t].pc = "insert"
    /\ ~KeyPending(t, Current(t).key)
    /\ IF KeyIn(Current(t).key, ledger) THEN AfterIntegrityError(t)
       ELSE txn' = [txn EXCEPT ![t] = CallDone(t)]
    /\ UNCHANGED <<level, ledger>>

Committed(t) == txn[t].pc = "lookup" /\ txn[t].calls = <<>>

\* The handler has run all its calls and commits.
Commit(t) ==
    /\ Committed(t)
    /\ level' = [l \in Levels |-> Visible(t, l)]
    /\ ledger' = ledger \cup txn[t].ups
    /\ txn' = [txn EXCEPT ![t] = Idle]

\* A later statement of the handler fails, the client goes away or the server
\* dies: the transaction is rolled back.
Fail(t) ==
    /\ txn[t].pc # "idle"
    /\ Rollback(t)
    /\ UNCHANGED <<level, ledger>>

\* t waits for something u has written and not yet committed.
WaitsFor(t, u) ==
    /\ t # u /\ Running(t)
    /\ \/ txn[t].pc = "create" /\ Holds(u, Current(t).level)
       \/ /\ txn[t].pc = "update" /\ Holds(u, Current(t).level)
          /\ Target(t).ver = txn[t].seen
       \/ txn[t].pc = "insert" /\ KeyIn(Current(t).key, txn[u].ups)

\* PostgreSQL finds a cycle of waiting transactions and cancels one of them.
DeadlockAbort(t) ==
    /\ \E S \in SUBSET Txns :
          /\ t \in S
          /\ \A u \in S : /\ \E v \in S : WaitsFor(u, v)
                          /\ \E v \in S : WaitsFor(v, u)
    /\ Rollback(t)
    /\ UNCHANGED <<level, ledger>>

-----------------------------------------------------------------------------

Init ==
    /\ level = [l \in Levels |-> NoRow]
    /\ ledger = {}
    /\ txn = [t \in Txns |-> Idle]

\* What the server does for a request once it has begun.
Statement(t) ==
    \/ Lookup(t)
    \/ Read(t)
    \/ CreateLevel(t)
    \/ UpdateConflict(t)
    \/ UpdateLevel(t)
    \/ Insert(t)
    \/ Commit(t)

Next ==
    \E t \in Txns :
        \/ \E program \in Programs : Begin(t, program)
        \/ Statement(t)
        \/ Fail(t)
        \/ DeadlockAbort(t)

Spec == Init /\ [][Next]_vars

\* A started statement is eventually executed, PostgreSQL's lock queues are
\* first-come-first-served (hence strong fairness of a statement that can run
\* again and again), and its deadlock detector eventually runs.
Fairness ==
    \A t \in Txns : SF_vars(Statement(t)) /\ WF_vars(DeadlockAbort(t))

FairSpec == Spec /\ Fairness

-----------------------------------------------------------------------------
(* Properties *)

\* No two movements share an idempotency key, committed or not: a call retried
\* by a client, or run by two requests at once, moves stock once.
KeysOnce ==
    /\ \A m, n \in ledger : m.key = n.key => m = n
    /\ \A t \in Txns : \A m \in txn[t].ups :
          /\ \A n \in ledger : n.key # m.key
          /\ \A n \in txn[t].ups : n.key = m.key => n = m
          /\ \A u \in Txns \ {t} : \A n \in txn[u].ups : n.key # m.key

\* Replaying the committed movements of a level in version order, from zero,
\* gives at each version the quantities the movement left and ends in the
\* committed row: no update of a level is lost and none is made twice.
Replays(row, M, l) ==
    /\ row = NoRow => \A m \in M : m.level # l
    /\ row # NoRow =>
         /\ \A v \in 1..row.ver : \E m \in M : m.level = l /\ m.ver = v
         /\ \A m \in M : m.level = l => m.ver \in 1..row.ver
         /\ \A m \in M : m.level = l /\ m.ver = row.ver => m.after = row.q
         /\ row.ver = 0 => row.q = Zero
    /\ \A m, n \in M :
         /\ m.level = l /\ n.level = l /\ m.ver = n.ver => m = n
         /\ m.level = l /\ n.level = l /\ n.ver = m.ver + 1
              => n.after = Plus(m.after, n.d)
    /\ \A m \in M : m.level = l /\ m.ver = 1 => m.after = m.d

LedgerReplaysLevels == \A l \in Levels : Replays(level[l], ledger, l)

\* The committed rows are never negative and never promise (reserved) or
\* quarantine (damaged) more than is on hand, whatever the requests that
\* raced for them.
LevelsStayValid ==
    \A l \in Levels : level[l] # NoRow =>
        LET q == level[l].q
        IN  q.oh >= 0 /\ q.rs >= 0 /\ q.dm >= 0 /\ q.rs + q.dm <= q.oh

\* At most one transaction has uncommitted changes of a level.
OneWriter ==
    \A t, u \in Txns, l \in Levels : Holds(t, l) /\ Holds(u, l) => t = u

\* A movement without the history of its level.
Stripped(m) == [key |-> m.key, level |-> m.level, d |-> m.d]

\* What AtomicStock sees: the quantities of the committed rows (a level without
\* a row has none) and the committed movements.
Abstract == INSTANCE AtomicStock WITH
    quantity <- [l \in Levels |-> IF level[l] = NoRow THEN Zero ELSE level[l].q],
    posted   <- {Stripped(m) : m \in ledger}

\* The ledger implements AtomicStock: requests post their movements in one
\* step each, and every level is the sum of what was posted to it.
PostsAtomically == Abstract!Spec

\* Every request ends, committed or rolled back: none waits for ever for a
\* level or a key, even when two of them take two levels in opposite orders.
RequestsEnd == \A t \in Txns : txn[t].pc # "idle" ~> txn[t].pc = "idle"
=============================================================================

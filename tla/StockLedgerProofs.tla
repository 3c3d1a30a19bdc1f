------------------------- MODULE StockLedgerProofs -------------------------
(***************************************************************************)
(* Proofs about StockLedger, for any number of requests, keys, levels and  *)
(* call lists: type correctness, the lock discipline, exactly-once keys,   *)
(* the replay of the ledger and the validity of the committed rows. Each   *)
(* invariant is inductive relative to the ones proved before it.           *)
(***************************************************************************)
EXTENDS StockLedger, FiniteSums, SequenceTheorems, TLAPS

USE LedgerAssumption, NoRowAssumption

\* Adding a delta to quantities gives quantities.
LEMMA PlusType ==
  ASSUME NEW q \in Qty, NEW d \in Qty
  PROVE  Plus(q, d) \in Qty
  BY DEF Plus, Qty

\* The quantities a call may name, and those of an empty level.
LEMMA QtyFacts == Deltas \subseteq Qty /\ Zero \in Qty
  BY DEF Zero, Qty

\* The first and the remaining calls of a running request are calls.
LEMMA CallFacts ==
  ASSUME TypeOK, NEW t \in Txns, Running(t)
  PROVE  /\ Current(t) \in Call
         /\ Current(t).d \in Qty
         /\ Tail(txn[t].calls) \in Seq(Call)
<1>1. txn[t].calls \in Seq(Call) /\ txn[t].calls # <<>>
  BY DEF TypeOK, TxnState, Running
<1>2. Current(t) \in Call /\ Tail(txn[t].calls) \in Seq(Call)
  BY <1>1, HeadTailProperties DEF Current
<1> QED BY <1>2, QtyFacts DEF Call

\* A transaction sees a row or no row, and so does its UPDATE.
LEMMA VisibleType ==
  ASSUME TypeOK, NEW t \in Txns, NEW l \in Levels
  PROVE  Visible(t, l) \in Row \cup {NoRow}
  BY DEF TypeOK, Visible, TxnState

\* The state of an idle request is well typed.
LEMMA IdleType == Idle \in TxnState
  BY DEF Idle, TxnState, Steps

\* A step that gives one request a well-typed state keeps all of them typed.
LEMMA SetTxn ==
  ASSUME TypeOK, NEW t \in Txns, NEW r \in TxnState, txn' = [txn EXCEPT ![t] = r]
  PROVE  txn' \in [Txns -> TxnState]
  BY DEF TypeOK

\* A call that returns leaves its request well typed.
LEMMA NextCallType ==
  ASSUME TypeOK, NEW t \in Txns, Running(t), NextCall(t)
  PROVE  txn' \in [Txns -> TxnState]
  BY CallFacts DEF TypeOK, NextCall, TxnState, Steps

\* So does a rolled back request,
LEMMA RollbackType ==
  ASSUME TypeOK, NEW t \in Txns, Rollback(t)
  PROVE  txn' \in [Txns -> TxnState]
  BY IdleType DEF TypeOK, Rollback

\* and one that met a unique-constraint violation.
LEMMA IntegrityErrorType ==
  ASSUME TypeOK, NEW t \in Txns, Running(t), AfterIntegrityError(t)
  PROVE  txn' \in [Txns -> TxnState]
<1>1. CASE KeyKnown(t, Current(t).key)
  BY <1>1, NextCallType DEF AfterIntegrityError
<1>2. CASE ~KeyKnown(t, Current(t).key) /\ txn[t].attempt = 1
  BY <1>2, RollbackType DEF AfterIntegrityError
<1>3. CASE ~KeyKnown(t, Current(t).key) /\ txn[t].attempt # 1
  BY <1>3 DEF AfterIntegrityError, TypeOK, TxnState, Steps
<1> QED BY <1>1, <1>2, <1>3

\* The row an UPDATE meets is a row when the versions agree.
LEMMA TargetType ==
  ASSUME TypeOK, NEW t \in Txns, Running(t)
  PROVE  Target(t) \in Row \cup {NoRow}
  BY CallFacts, VisibleType DEF TypeOK, Target, TxnState, Call

\* A request whose call has returned with a row and its movements is typed.
LEMMA CallDoneType ==
  ASSUME NEW x \in TxnState, NEW calls \in Seq(Call), NEW ups \in SUBSET Movement,
         NEW mine \in [Levels -> Row \cup {NoRow}]
  PROVE  [x EXCEPT !.pc = "lookup", !.calls = calls, !.attempt = 0, !.draft = NoRow,
                   !.mine = mine, !.ups = ups] \in TxnState
  BY DEF TxnState, Steps

\* So is one that goes on to another statement, with the program, the version
\* or the draft that comes with it.
LEMMA StatementType ==
  ASSUME NEW x \in TxnState, NEW pc \in Steps
  PROVE  /\ [x EXCEPT !.pc = pc] \in TxnState
         /\ \A calls \in Seq(Call) : [x EXCEPT !.pc = pc, !.calls = calls] \in TxnState
         /\ \A seen \in Nat, draft \in Row :
               [x EXCEPT !.pc = pc, !.seen = seen, !.draft = draft] \in TxnState
<1>1. [x EXCEPT !.pc = pc] \in TxnState
  BY DEF TxnState
<1>2. ASSUME NEW calls \in Seq(Call)
      PROVE  [x EXCEPT !.pc = pc, !.calls = calls] \in TxnState
  BY DEF TxnState
<1>3. ASSUME NEW seen \in Nat, NEW draft \in Row
      PROVE  [x EXCEPT !.pc = pc, !.seen = seen, !.draft = draft] \in TxnState
  BY DEF TxnState
<1> QED BY <1>1, <1>2, <1>3

-----------------------------------------------------------------------------
(* Type correctness *)

\* What the position of a request says about its current call: it has one, its
\* UPDATE has a row to meet, and only UPDATE and INSERT leave a draft.
ShapeOf(t) ==
    /\ txn[t].pc \in {"read", "create", "update", "insert"} => txn[t].calls # <<>>
    /\ txn[t].draft # NoRow => txn[t].pc \in {"update", "insert"}
    /\ txn[t].pc = "update" => Target(t) # NoRow
    /\ txn[t].pc = "insert" => txn[t].draft # NoRow
    /\ txn[t].pc = "idle" => txn[t] = Idle

Shape == \A t \in Txns : ShapeOf(t)

\* The row an UPDATE writes is a row.
LEMMA UpdatedRowType ==
  ASSUME TypeOK, NEW t \in Txns, ShapeOf(t), Running(t), txn[t].pc = "update"
  PROVE  [q |-> Plus(Target(t).q, Current(t).d), ver |-> txn[t].seen + 1] \in Row
<1>1. Target(t).q \in Qty
  BY TargetType DEF ShapeOf, Row
<1>2. Plus(Target(t).q, Current(t).d) \in Qty
  BY <1>1, CallFacts, PlusType
<1>3. txn[t].seen + 1 \in Nat
  BY DEF TypeOK, TxnState
<1> QED BY <1>2, <1>3 DEF Row

\* The movement a call inserts is a movement, and its draft is a row.
LEMMA MovementType ==
  ASSUME TypeOK, NEW t \in Txns, ShapeOf(t), Running(t), txn[t].pc = "insert"
  PROVE  NewMovement(t) \in Movement /\ txn[t].draft \in Row
<1>1. txn[t].draft \in Row
  BY DEF ShapeOf, TypeOK, TxnState
<1>2. Current(t) \in Call
  BY CallFacts
<1> QED BY <1>1, <1>2 DEF NewMovement, Movement, Call, Row

\* Every statement of every request keeps the tables and the requests typed.
LEMMA TypeStep == TypeOK /\ Shape /\ [Next]_vars => TypeOK'
<1> SUFFICES ASSUME TypeOK, Shape, [Next]_vars PROVE TypeOK'
  OBVIOUS
<1>1. CASE UNCHANGED vars
  BY <1>1 DEF TypeOK, vars
<1>2. ASSUME NEW t \in Txns, NEW program \in Programs, Begin(t, program)
      PROVE  TypeOK'
  <2>1. txn[t] \in TxnState /\ "lookup" \in Steps
    BY DEF TypeOK, Steps
  <2>2. program \in Seq(Call)
    BY LedgerAssumption
  <2>3. [txn[t] EXCEPT !.pc = "lookup", !.calls = program] \in TxnState
    BY <2>1, <2>2, StatementType
  <2> QED BY <1>2, <2>3, SetTxn DEF Begin, TypeOK
<1>3. ASSUME NEW t \in Txns, Lookup(t) PROVE TypeOK'
  <2>1. CASE KeyKnown(t, Current(t).key)
    BY <1>3, <2>1, NextCallType DEF Lookup, TypeOK
  <2>2. CASE ~KeyKnown(t, Current(t).key)
    <3>1. txn[t] \in TxnState /\ "read" \in Steps
      BY DEF TypeOK, Steps
    <3>2. [txn[t] EXCEPT !.pc = "read"] \in TxnState
      BY <3>1, StatementType
    <3> QED BY <1>3, <2>2, <3>2, SetTxn DEF Lookup, TypeOK
  <2> QED BY <2>1, <2>2
<1>4. ASSUME NEW t \in Txns, Read(t) PROVE TypeOK'
  <2> DEFINE row == Visible(t, Current(t).level)
  <2>1. row \in Row \cup {NoRow}
    <3>1. Current(t).level \in Levels
      BY <1>4, CallFacts DEF Read, Call
    <3> QED BY <3>1, VisibleType
  <2>4. txn[t] \in TxnState
    BY DEF TypeOK
  <2>2. CASE row = NoRow
    <3>1. [txn[t] EXCEPT !.pc = "create"] \in TxnState
      BY <2>4 DEF TxnState, Steps
    <3> QED BY <1>4, <2>2, <3>1, SetTxn DEF Read, TypeOK
  <2>3. CASE row # NoRow
    <3>1. row.ver \in Nat
      BY <2>1, <2>3 DEF Row
    <3>2. [txn[t] EXCEPT !.pc = "update", !.seen = row.ver] \in TxnState
      BY <2>4, <3>1 DEF TxnState, Steps
    <3> QED BY <1>4, <2>3, <3>2, SetTxn DEF Read, TypeOK
  <2> QED BY <2>2, <2>3
<1>5. ASSUME NEW t \in Txns, CreateLevel(t) PROVE TypeOK'
  <2>1. CASE level[Current(t).level] # NoRow
    BY <1>5, <2>1, IntegrityErrorType DEF CreateLevel, TypeOK
  <2>2. CASE level[Current(t).level] = NoRow
    <3> DEFINE row == [q |-> Zero, ver |-> 0]
    <3>1. row \in Row
      BY QtyFacts DEF Row
    <3>2. txn[t] \in TxnState /\ "update" \in Steps
      BY DEF TypeOK, Steps
    <3> HIDE DEF row
    <3>3. [txn[t] EXCEPT !.pc = "update", !.seen = 0, !.draft = row] \in TxnState
      BY <3>1, <3>2, StatementType
    <3> QED BY <1>5, <2>2, <3>3, SetTxn DEF CreateLevel, TypeOK, row
  <2> QED BY <2>1, <2>2
<1>6. ASSUME NEW t \in Txns, UpdateConflict(t) PROVE TypeOK'
  BY <1>6, RollbackType DEF UpdateConflict, TypeOK
<1>7. ASSUME NEW t \in Txns, UpdateLevel(t) PROVE TypeOK'
  <2> DEFINE q == Plus(Target(t).q, Current(t).d)
             row == [q |-> q, ver |-> txn[t].seen + 1]
  <2>1. CASE Valid(q)
    <3>1. row \in Row
      BY <1>7, UpdatedRowType DEF UpdateLevel, Shape
    <3>2. txn[t] \in TxnState
      BY DEF TypeOK
    <3>3. [txn[t] EXCEPT !.pc = "insert", !.draft = row] \in TxnState
      <4> HIDE DEF row
      <4> QED BY <3>1, <3>2 DEF TxnState, Steps
    <3> QED BY <1>7, <2>1, <3>3, SetTxn DEF UpdateLevel, TypeOK
  <2>2. CASE ~Valid(q)
    BY <1>7, <2>2, RollbackType DEF UpdateLevel, TypeOK
  <2> QED BY <2>1, <2>2
<1>8. ASSUME NEW t \in Txns, Insert(t) PROVE TypeOK'
  <2>1. CASE KeyIn(Current(t).key, ledger)
    BY <1>8, <2>1, IntegrityErrorType DEF Insert, TypeOK
  <2>2. CASE ~KeyIn(Current(t).key, ledger)
    <3> DEFINE m == NewMovement(t)
               row == txn[t].draft
               l == Current(t).level
    <3>1. m \in Movement /\ row \in Row
      BY <1>8, MovementType DEF Insert, Shape
    <3>2. l \in Levels /\ Tail(txn[t].calls) \in Seq(Call)
      BY <1>8, CallFacts DEF Insert, Call
    <3>5. txn[t] \in TxnState
      BY DEF TypeOK
    <3>7. txn[t].mine \in [Levels -> Row \cup {NoRow}] /\ txn[t].ups \subseteq Movement
      BY <3>5 DEF TxnState
    <3>3. [txn[t].mine EXCEPT ![l] = row] \in [Levels -> Row \cup {NoRow}]
      <4> HIDE DEF m, row, l
      <4> QED BY <3>1, <3>2, <3>7
    <3>4. txn[t].ups \cup {m} \subseteq Movement
      BY <3>1, <3>7
    <3>6. CallDone(t) \in TxnState
      <4> HIDE DEF m, row, l
      <4> QED BY <3>2, <3>3, <3>4, <3>5, CallDoneType DEF CallDone, m, row, l
    <3> QED BY <1>8, <2>2, <3>6, SetTxn DEF Insert, TypeOK
  <2> QED BY <2>1, <2>2
<1>9. ASSUME NEW t \in Txns, Commit(t) PROVE TypeOK'
  BY <1>9, IdleType, VisibleType DEF Commit, TypeOK, TxnState
<1>10. ASSUME NEW t \in Txns, Fail(t) PROVE TypeOK'
  BY <1>10, RollbackType DEF Fail, TypeOK
<1>11. ASSUME NEW t \in Txns, DeadlockAbort(t) PROVE TypeOK'
  BY <1>11, RollbackType DEF DeadlockAbort, TypeOK
<1> QED
  BY <1>1, <1>2, <1>3, <1>4, <1>5, <1>6, <1>7, <1>8, <1>9, <1>10, <1>11
  DEF Next, Statement

\* A commit never removes a level row, so what another request sees of it is
\* still a row.
LEMMA RowsStay ==
  ASSUME TypeOK, NEW t \in Txns, Commit(t), NEW l \in Levels, level[l] # NoRow
  PROVE  level'[l] # NoRow
  BY DEF Commit, Visible

\* The shape of a request holds after its own statement,
LEMMA ShapeOfSelf ==
  ASSUME TypeOK, NEW t \in Txns, ShapeOf(t),
         \/ \E program \in Programs : Begin(t, program)
         \/ Statement(t) \/ Fail(t) \/ DeadlockAbort(t)
  PROVE  ShapeOf(t)'
<1> USE DEF ShapeOf
<1>1. ASSUME NEW program \in Programs, Begin(t, program) PROVE ShapeOf(t)'
  BY <1>1 DEF Begin, TypeOK, TxnState
<1>2. ASSUME Running(t), txn[t].pc # "idle", NextCall(t) PROVE ShapeOf(t)'
  BY <1>2 DEF NextCall, TypeOK, TxnState
<1>3. ASSUME Rollback(t) PROVE ShapeOf(t)'
  BY <1>3 DEF Rollback, Idle, TypeOK
<1>4. ASSUME Running(t), AfterIntegrityError(t) PROVE ShapeOf(t)'
  BY <1>2, <1>3, <1>4 DEF AfterIntegrityError, Running, TypeOK, TxnState
<1>5. CASE Lookup(t)
  BY <1>2, <1>5 DEF Lookup, Running, TypeOK, TxnState
<1>6. CASE Read(t)
  <2> DEFINE row == Visible(t, Current(t).level)
  <2>1. txn[t].draft = NoRow /\ txn[t].calls # <<>> /\ UNCHANGED level
    BY <1>6 DEF Read, Running
  <2>2. /\ txn'[t].calls = txn[t].calls /\ txn'[t].draft = txn[t].draft
        /\ txn'[t].mine = txn[t].mine
        /\ txn'[t].pc = IF row = NoRow THEN "create" ELSE "update"
    BY <1>6 DEF Read, TypeOK, TxnState
  <2>3. Target(t)' = row
    BY <2>1, <2>2 DEF Target, Visible, Current
  <2> HIDE DEF row
  <2> QED BY <2>1, <2>2, <2>3
<1>7. CASE CreateLevel(t)
  <2>1. CASE level[Current(t).level] # NoRow
    BY <1>4, <1>7, <2>1 DEF CreateLevel
  <2>2. CASE level[Current(t).level] = NoRow
    <3>1. [q |-> Zero, ver |-> 0] \in Row
      BY QtyFacts DEF Row
    <3>2. /\ txn'[t].pc = "update" /\ txn'[t].calls = txn[t].calls
          /\ txn'[t].draft = [q |-> Zero, ver |-> 0]
      BY <1>7, <2>2 DEF CreateLevel, TypeOK, TxnState
    <3> QED BY <1>7, <3>1, <3>2 DEF CreateLevel, Running, Target
  <2> QED BY <2>1, <2>2
<1>8. CASE UpdateConflict(t)
  BY <1>3, <1>8 DEF UpdateConflict
<1>9. CASE UpdateLevel(t)
  <2> DEFINE q == Plus(Target(t).q, Current(t).d)
             row == [q |-> q, ver |-> txn[t].seen + 1]
  <2>1. CASE Valid(q)
    <3>1. row \in Row
      BY <1>9, UpdatedRowType DEF UpdateLevel
    <3>2. /\ txn'[t].pc = "insert" /\ txn'[t].calls = txn[t].calls
          /\ txn'[t].draft = row
      BY <1>9, <2>1 DEF UpdateLevel, TypeOK, TxnState
    <3> HIDE DEF row
    <3> QED BY <1>9, <3>1, <3>2 DEF UpdateLevel, Running
  <2>2. CASE ~Valid(q)
    BY <1>3, <1>9, <2>2 DEF UpdateLevel
  <2> QED BY <2>1, <2>2
<1>10. CASE Insert(t)
  <2>1. CASE KeyIn(Current(t).key, ledger)
    BY <1>4, <1>10, <2>1 DEF Insert
  <2>2. CASE ~KeyIn(Current(t).key, ledger)
    <3>1. txn'[t] = CallDone(t)
      BY <1>10, <2>2 DEF Insert, TypeOK
    <3>2. CallDone(t).pc = "lookup" /\ CallDone(t).draft = NoRow
      BY DEF CallDone, TypeOK, TxnState
    <3> QED BY <3>1, <3>2
  <2> QED BY <2>1, <2>2
<1>11. CASE Commit(t)
  BY <1>11 DEF Commit, Idle, TypeOK
<1>12. CASE Fail(t) \/ DeadlockAbort(t)
  BY <1>3, <1>12 DEF Fail, DeadlockAbort
<1> QED
  BY <1>1, <1>5, <1>6, <1>7, <1>8, <1>9, <1>10, <1>11, <1>12 DEF Statement

\* What request t can do.
Acts(t) ==
    \/ \E program \in Programs : Begin(t, program)
    \/ Statement(t) \/ Fail(t) \/ DeadlockAbort(t)

\* It changes no other request, and the tables only when it commits.
LEMMA ActsAlone ==
  ASSUME TypeOK, NEW t \in Txns, Acts(t)
  PROVE  /\ \A u \in Txns \ {t} : txn'[u] = txn[u]
         /\ Commit(t) \/ UNCHANGED <<level, ledger>>
<1>1. Commit(t) \/ UNCHANGED <<level, ledger>>
  BY DEF Acts, Statement, Begin, Lookup, Read, CreateLevel, UpdateConflict,
         UpdateLevel, Insert, Fail, DeadlockAbort
<1>2. \E r : txn' = [txn EXCEPT ![t] = r]
  <2>1. CASE Rollback(t)
    BY <2>1 DEF Rollback
  <2>2. CASE NextCall(t)
    BY <2>2 DEF NextCall
  <2>3. CASE AfterIntegrityError(t)
    BY <2>1, <2>2, <2>3 DEF AfterIntegrityError
  <2>4. CASE \E program \in Programs : Begin(t, program)
    BY <2>4 DEF Begin
  <2>5. CASE Lookup(t) \/ Read(t)
    BY <2>2, <2>5 DEF Lookup, Read
  <2>6. CASE CreateLevel(t) \/ Insert(t)
    BY <2>3, <2>6 DEF CreateLevel, Insert
  <2>7. CASE UpdateConflict(t) \/ UpdateLevel(t)
    BY <2>1, <2>7 DEF UpdateConflict, UpdateLevel
  <2>8. CASE Commit(t) \/ Fail(t) \/ DeadlockAbort(t)
    BY <2>1, <2>8 DEF Commit, Fail, DeadlockAbort
  <2> QED BY <2>4, <2>5, <2>6, <2>7, <2>8 DEF Acts, Statement
<1> QED BY <1>1, <1>2 DEF TypeOK

\* and after every statement of the others: what it sees of a level stays a row.
LEMMA ShapeStep == TypeOK /\ Shape /\ [Next]_vars => Shape'
<1> SUFFICES ASSUME TypeOK, Shape, [Next]_vars, NEW u \in Txns PROVE ShapeOf(u)'
  BY DEF Shape
<1>1. CASE UNCHANGED vars
  BY <1>1 DEF vars, Shape, ShapeOf, Target, Visible, Current
<1>2. ASSUME NEW t \in Txns, Acts(t) PROVE ShapeOf(u)'
  <2>1. CASE t = u
    BY <1>2, <2>1, ShapeOfSelf DEF Acts, Shape
  <2>2. CASE t # u
    <3>1. txn'[u] = txn[u] /\ ShapeOf(u)
      BY <1>2, <2>2, ActsAlone DEF Shape
    <3>2. ASSUME txn[u].pc = "update" PROVE Current(u).level \in Levels
      BY <3>1, <3>2, CallFacts DEF ShapeOf, Running, Call
    <3>3. \A l \in Levels : level[l] # NoRow => level'[l] # NoRow
      BY <1>2, ActsAlone, RowsStay
    <3>4. txn[u].pc = "update" => Target(u)' # NoRow
      BY <3>1, <3>2, <3>3 DEF ShapeOf, Target, Visible, Current
    <3> QED BY <3>1, <3>4 DEF ShapeOf
  <2> QED BY <2>1, <2>2
<1> QED BY <1>1, <1>2 DEF Next, Acts

\* The typing of the tables and the shape of every request are inductive.
LEMMA TypeInv == Spec => [](TypeOK /\ Shape)
<1>1. Init => TypeOK /\ Shape
  BY IdleType DEF Init, TypeOK, Shape, ShapeOf, Idle
<1>2. TypeOK /\ Shape /\ [Next]_vars => (TypeOK /\ Shape)'
  BY TypeStep, ShapeStep
<1> QED BY <1>1, <1>2, PTL DEF Spec

\* The tables and the requests are always well typed, in any interleaving of
\* any requests.
THEOREM TypeCorrect == Spec => []TypeOK
<1>1. TypeOK /\ Shape => TypeOK
  OBVIOUS
<1> QED BY <1>1, TypeInv, PTL

-----------------------------------------------------------------------------
(* What a statement does to its request *)

Mid == {"read", "create", "update", "insert"}

\* It leaves what the transaction has written, drops the draft, and goes on
\* with the same call only when its key is not known yet.
Stays(t) ==
    /\ txn'[t].mine = txn[t].mine /\ txn'[t].ups = txn[t].ups
    /\ txn'[t].draft = NoRow
    /\ txn'[t].pc # "insert"
    /\ txn'[t].pc \in Mid =>
          /\ txn[t].pc \in Mid \/ ~KeyKnown(t, Current(t).key)
          /\ txn'[t].calls = txn[t].calls /\ txn[t].calls # <<>>
    /\ txn'[t].pc = "create" => Visible(t, Current(t).level) = NoRow

\* It writes a row in the savepoint of the current call, at position pc.
Drafts(t, row, pc) ==
    /\ txn[t].pc \in Mid /\ txn[t].calls # <<>>
    /\ txn'[t].mine = txn[t].mine /\ txn'[t].ups = txn[t].ups
    /\ txn'[t].calls = txn[t].calls
    /\ txn'[t].draft = row /\ txn'[t].pc = pc
    /\ ~LockedByOther(t, Current(t).level)

Created(t) ==
    /\ txn[t].pc = "create" /\ level[Current(t).level] = NoRow
    /\ Drafts(t, [q |-> Zero, ver |-> 0], "update")

Updated(t) ==
    /\ txn[t].pc = "update"
    /\ LET row == [q |-> Plus(Target(t).q, Current(t).d), ver |-> Target(t).ver + 1]
       IN  row \in Row /\ Valid(row.q) /\ Drafts(t, row, "insert")

Finished(t) ==
    /\ Running(t) /\ txn[t].pc = "insert"
    /\ ~KeyPending(t, Current(t).key) /\ ~KeyIn(Current(t).key, ledger)
    /\ txn'[t].draft = NoRow /\ txn'[t].pc = "lookup"
    /\ txn'[t].mine = [txn[t].mine EXCEPT ![Current(t).level] = txn[t].draft]
    /\ txn'[t].ups = txn[t].ups \cup {NewMovement(t)}

\* A step of a request ends it, goes on without writing, writes a draft or
\* completes the call.
LEMMA Effects ==
  ASSUME TypeOK, Shape, NEW t \in Txns, Acts(t)
  PROVE  \/ txn'[t] = Idle
         \/ Stays(t) \/ Created(t) \/ Updated(t) \/ Finished(t)
<1>1. ShapeOf(t) /\ txn[t] \in TxnState
  BY DEF Shape, TypeOK
<1>2. CASE Rollback(t)
  BY <1>2 DEF Rollback, TypeOK
<1>3. CASE Running(t) /\ NextCall(t)
  BY <1>3 DEF NextCall, TypeOK, TxnState, Stays, Mid
<1>4. CASE Running(t) /\ AfterIntegrityError(t)
  BY <1>2, <1>3, <1>4 DEF AfterIntegrityError, TypeOK, TxnState, Stays, Mid
<1>5. ASSUME NEW program \in Programs, Begin(t, program) PROVE Stays(t)
  BY <1>1, <1>5 DEF Begin, TypeOK, TxnState, Stays, ShapeOf, Mid
<1>6. CASE Lookup(t)
  BY <1>1, <1>3, <1>6 DEF Lookup, TypeOK, TxnState, Stays, ShapeOf, Running, Mid
<1>7. CASE Read(t)
  <2> DEFINE row == Visible(t, Current(t).level)
  <2>1. txn[t].draft = NoRow /\ txn[t].pc \in Mid /\ txn[t].calls # <<>>
    BY <1>1, <1>7 DEF ShapeOf, Read, Running, Mid
  <2>2. CASE row = NoRow
    BY <2>1, <2>2, <1>7 DEF Read, TypeOK, TxnState, Stays
  <2>3. CASE row # NoRow
    BY <2>1, <2>3, <1>7 DEF Read, TypeOK, TxnState, Stays
  <2> QED BY <2>2, <2>3
<1>8. CASE CreateLevel(t)
  <2>1. CASE level[Current(t).level] # NoRow
    BY <1>4, <1>8, <2>1 DEF CreateLevel
  <2>2. CASE level[Current(t).level] = NoRow
    BY <1>8, <2>2 DEF CreateLevel, TypeOK, TxnState, Created, Drafts, Running, Mid
  <2> QED BY <2>1, <2>2
<1>9. CASE UpdateLevel(t)
  <2> DEFINE q == Plus(Target(t).q, Current(t).d)
             row == [q |-> q, ver |-> txn[t].seen + 1]
  <2>1. CASE ~Valid(q)
    BY <1>2, <1>9, <2>1 DEF UpdateLevel
  <2>2. CASE Valid(q)
    <3>1. row \in Row
      BY <1>1, <1>9, UpdatedRowType DEF UpdateLevel
    <3>2. Drafts(t, row, "insert")
      BY <1>9, <2>2 DEF UpdateLevel, TypeOK, TxnState, Drafts, Running, Mid
    <3>3. Target(t).ver = txn[t].seen
      BY <1>9 DEF UpdateLevel
    <3> QED BY <1>9, <2>2, <3>1, <3>2, <3>3 DEF UpdateLevel, Updated
  <2> QED BY <2>1, <2>2
<1>10. CASE Insert(t)
  <2>1. CASE KeyIn(Current(t).key, ledger)
    BY <1>4, <1>10, <2>1 DEF Insert
  <2>2. CASE ~KeyIn(Current(t).key, ledger)
    <3>1. txn'[t] = CallDone(t)
      BY <1>10, <2>2 DEF Insert, TypeOK
    <3>2. /\ CallDone(t).draft = NoRow /\ CallDone(t).pc = "lookup"
          /\ CallDone(t).mine = [txn[t].mine EXCEPT ![Current(t).level] = txn[t].draft]
          /\ CallDone(t).ups = txn[t].ups \cup {NewMovement(t)}
      BY <1>1 DEF CallDone, TxnState
    <3> QED BY <1>10, <2>2, <3>1, <3>2 DEF Insert, Finished
  <2> QED BY <2>1, <2>2
<1>11. CASE Commit(t)
  BY <1>11 DEF Commit, TypeOK
<1> QED
  BY <1>2, <1>5, <1>6, <1>7, <1>8, <1>9, <1>10, <1>11
  DEF Acts, Statement, UpdateConflict, Fail, DeadlockAbort

-----------------------------------------------------------------------------
(* One writer of a level *)

\* A request comes to hold a level only when no other request holds it.
LEMMA HoldsFresh ==
  ASSUME TypeOK, Shape, NEW t \in Txns, Acts(t), NEW l \in Levels, Holds(t, l)'
  PROVE  Holds(t, l) \/ ~LockedByOther(t, l)
<1> USE DEF Holds
<1>1. ShapeOf(t) /\ txn[t] \in TxnState
  BY DEF Shape, TypeOK
<1>2. CASE txn'[t] = Idle \/ Stays(t)
  BY <1>2 DEF Idle, Stays
<1>3. CASE Created(t)
  BY <1>3 DEF Created, Drafts, Current
<1>4. CASE Updated(t)
  <2> PICK row : Drafts(t, row, "insert")
    BY <1>4 DEF Updated
  <2> QED BY DEF Drafts, Current
<1>5. CASE Finished(t)
  <2>1. txn[t].draft # NoRow /\ txn[t].calls # <<>>
    BY <1>1, <1>5 DEF ShapeOf, Finished, Running
  <2>2. txn[t].mine \in [Levels -> Row \cup {NoRow}]
    BY <1>1 DEF TxnState
  <2>3. CASE Current(t).level = l
    BY <2>1, <2>3
  <2>4. CASE Current(t).level # l
    BY <1>5, <2>2, <2>4 DEF Finished
  <2> QED BY <2>3, <2>4
<1> QED BY <1>2, <1>3, <1>4, <1>5, Effects

\* Every step keeps one writer of each level.
LEMMA OneWriterStep == TypeOK /\ Shape /\ OneWriter /\ [Next]_vars => OneWriter'
<1> SUFFICES ASSUME TypeOK, Shape, OneWriter, [Next]_vars,
                    NEW a \in Txns, NEW b \in Txns, NEW l \in Levels,
                    Holds(a, l)', Holds(b, l)'
             PROVE  a = b
  BY DEF OneWriter
<1>1. CASE UNCHANGED vars
  BY <1>1 DEF vars, OneWriter, Holds, Current
<1>2. ASSUME NEW t \in Txns, Acts(t) PROVE a = b
  <2>1. \A u \in Txns \ {t} : Holds(u, l)' => Holds(u, l)
    BY <1>2, ActsAlone DEF Holds, Current
  <2>2. Holds(t, l)' => Holds(t, l) \/ ~LockedByOther(t, l)
    BY <1>2, HoldsFresh
  <2>3. CASE a = t /\ b # t
    BY <2>1, <2>2, <2>3 DEF LockedByOther, OneWriter
  <2>4. CASE a # t /\ b = t
    BY <2>1, <2>2, <2>4 DEF LockedByOther, OneWriter
  <2>5. CASE a # t /\ b # t
    BY <2>1, <2>5 DEF OneWriter
  <2> QED BY <2>3, <2>4, <2>5
<1> QED BY <1>1, <1>2 DEF Next, Acts

\* No two requests ever have uncommitted changes of the same level.
THEOREM OneWriterAlways == Spec => []OneWriter
<1>1. Init => OneWriter
  BY DEF Init, Idle, OneWriter, Holds
<1> QED BY <1>1, OneWriterStep, TypeInv, PTL DEF Spec

-----------------------------------------------------------------------------
(* Committed rows stay valid *)

Sound(row) ==
    row # NoRow => LET q == row.q
                   IN  q.oh >= 0 /\ q.rs >= 0 /\ q.dm >= 0 /\ q.rs + q.dm <= q.oh

\* Every row is sound, the uncommitted ones included.
RowsSound ==
    /\ \A l \in Levels : Sound(level[l])
    /\ \A t \in Txns : Sound(txn[t].draft) /\ \A l \in Levels : Sound(txn[t].mine[l])

\* A request writes only sound rows.
LEMMA SoundOfSelf ==
  ASSUME TypeOK, Shape, RowsSound, NEW t \in Txns, Acts(t)
  PROVE  Sound(txn'[t].draft) /\ \A l \in Levels : Sound(txn'[t].mine[l])
<1>1. CASE txn'[t] = Idle \/ Stays(t)
  BY <1>1 DEF Idle, Stays, RowsSound, Sound
<1>2. CASE Created(t)
  <2>1. txn'[t].mine = txn[t].mine /\ txn'[t].draft = [q |-> Zero, ver |-> 0]
    BY <1>2 DEF Created, Drafts
  <2>2. Sound([q |-> Zero, ver |-> 0])
    BY DEF Sound, Zero
  <2> QED BY <2>1, <2>2 DEF RowsSound
<1>3. CASE Updated(t)
  <2> PICK row : row \in Row /\ Valid(row.q) /\ Drafts(t, row, "insert")
    BY <1>3 DEF Updated
  <2> QED BY DEF Drafts, Valid, RowsSound, Sound
<1>4. CASE Finished(t)
  <2>1. txn[t].mine \in [Levels -> Row \cup {NoRow}]
    BY DEF TypeOK, TxnState
  <2>2. txn'[t].mine = [txn[t].mine EXCEPT ![Current(t).level] = txn[t].draft]
    BY <1>4 DEF Finished
  <2>3. \A l \in Levels : txn'[t].mine[l] \in {txn[t].mine[l], txn[t].draft}
    BY <2>1, <2>2
  <2>4. Sound(NoRow)
    BY DEF Sound
  <2> QED BY <1>4, <2>3, <2>4 DEF Finished, RowsSound
<1> QED BY <1>1, <1>2, <1>3, <1>4, Effects

\* Every step keeps the committed and the uncommitted rows sound.
LEMMA RowsSoundStep == TypeOK /\ Shape /\ RowsSound /\ [Next]_vars => RowsSound'
<1> SUFFICES ASSUME TypeOK, Shape, RowsSound, [Next]_vars PROVE RowsSound'
  OBVIOUS
<1>1. CASE UNCHANGED vars
  BY <1>1 DEF vars, RowsSound, Sound
<1>2. ASSUME NEW t \in Txns, Acts(t) PROVE RowsSound'
  <2>1. \A l \in Levels : Sound(level'[l])
    <3>1. CASE Commit(t)
      BY <3>1 DEF Commit, Visible, RowsSound
    <3>2. CASE UNCHANGED <<level, ledger>>
      BY <3>2 DEF RowsSound
    <3> QED BY <1>2, <3>1, <3>2, ActsAlone
  <2>2. ASSUME NEW u \in Txns
        PROVE  Sound(txn'[u].draft) /\ \A l \in Levels : Sound(txn'[u].mine[l])
    BY <1>2, ActsAlone, SoundOfSelf DEF RowsSound
  <2> QED BY <2>1, <2>2 DEF RowsSound, Sound
<1> QED BY <1>1, <1>2 DEF Next, Acts

\* Whatever requests race for it, a committed level is never negative and never
\* promises or quarantines more than is on hand.
THEOREM LevelsStayValidAlways == Spec => []LevelsStayValid
<1>1. Init => RowsSound
  BY DEF Init, Idle, RowsSound, Sound
<1>2. RowsSound => LevelsStayValid
  BY DEF RowsSound, Sound, LevelsStayValid
<1> QED BY <1>1, <1>2, RowsSoundStep, TypeInv, PTL DEF Spec

-----------------------------------------------------------------------------
(* One movement per key *)

\* A request past its lookup has not inserted the key of its current call.
KeyFresh(t) == txn[t].pc \in Mid => ~KeyIn(Current(t).key, txn[t].ups)

KeysInv == KeysOnce /\ \A t \in Txns : KeyFresh(t)

\* The movements of a request that ends, goes on or writes a draft are as before.
LEMMA UpsOfSelf ==
  ASSUME TypeOK, Shape, NEW t \in Txns, Acts(t)
  PROVE  txn'[t].ups = {} \/ txn'[t].ups = txn[t].ups \/ Finished(t)
<1>1. CASE Updated(t)
  <2> PICK row : Drafts(t, row, "insert")
    BY <1>1 DEF Updated
  <2> QED BY DEF Drafts
<1> QED BY <1>1, Effects DEF Idle, Stays, Created, Drafts

\* A request that goes on has still not used the key of its current call.
LEMMA KeyFreshOfSelf ==
  ASSUME TypeOK, Shape, NEW t \in Txns, KeyFresh(t), Acts(t)
  PROVE  KeyFresh(t)'
<1>1. CASE txn'[t] = Idle
  BY <1>1 DEF Idle, KeyFresh, Mid
<1>2. CASE Stays(t)
  BY <1>2 DEF Stays, KeyFresh, KeyKnown, KeyIn, Current
<1>3. ASSUME NEW row, NEW pc, Drafts(t, row, pc) PROVE KeyFresh(t)'
  BY <1>3 DEF Drafts, KeyFresh, KeyIn, Current
<1>4. CASE Finished(t)
  BY <1>4 DEF Finished, KeyFresh, Mid
<1> QED BY <1>1, <1>2, <1>3, <1>4, Effects DEF Created, Updated

\* Every step keeps the keys of all movements, committed or not, distinct.
LEMMA KeysStep == TypeOK /\ Shape /\ KeysInv /\ [Next]_vars => KeysInv'
<1> SUFFICES ASSUME TypeOK, Shape, KeysInv, [Next]_vars PROVE KeysInv'
  OBVIOUS
<1>1. CASE UNCHANGED vars
  BY <1>1 DEF vars, KeysInv, KeysOnce, KeyFresh, KeyIn, Current
<1>2. ASSUME NEW t \in Txns, Acts(t) PROVE KeysInv'
  <2>1. \A u \in Txns \ {t} : txn'[u] = txn[u]
    BY <1>2, ActsAlone
  <2>2. ASSUME NEW u \in Txns PROVE KeyFresh(u)'
    <3>1. CASE u = t
      BY <1>2, <3>1, KeyFreshOfSelf DEF KeysInv
    <3>2. CASE u # t
      BY <2>1, <3>2 DEF KeysInv, KeyFresh, KeyIn, Current
    <3> QED BY <3>1, <3>2
  <2>3. CASE Commit(t)
    <3>1. ledger' = ledger \cup txn[t].ups /\ txn'[t].ups = {}
      BY <2>3 DEF Commit, Idle, TypeOK
    <3>2. KeysOnce'
      BY <2>1, <3>1 DEF KeysInv, KeysOnce
    <3> QED BY <2>2, <3>2 DEF KeysInv
  <2>4. CASE ledger' = ledger /\ (txn'[t].ups = {} \/ txn'[t].ups = txn[t].ups)
    BY <2>1, <2>2, <2>4 DEF KeysInv, KeysOnce
  <2>5. CASE ledger' = ledger /\ Finished(t)
    <3> DEFINE n == NewMovement(t)
    <3>1. n.key = Current(t).key
      BY DEF NewMovement
    <3>2. /\ \A m \in ledger : m.key # n.key
          /\ \A u \in Txns \ {t} : \A m \in txn[u].ups : m.key # n.key
          /\ \A m \in txn[t].ups : m.key # n.key
      BY <2>5, <3>1 DEF Finished, KeyIn, KeyPending, KeysInv, KeyFresh, Mid
    <3>3. txn'[t].ups = txn[t].ups \cup {n}
      BY <2>5 DEF Finished
    <3> HIDE DEF n
    <3>4. KeysOnce'
      BY <2>1, <2>5, <3>2, <3>3 DEF KeysInv, KeysOnce
    <3> QED BY <2>2, <3>4 DEF KeysInv
  <2> QED BY <1>2, <2>3, <2>4, <2>5, ActsAlone, UpsOfSelf
<1> QED BY <1>1, <1>2 DEF Next, Acts

\* A key moves stock once, however often and by however many requests at once
\* the call is made.
THEOREM KeysOnceAlways == Spec => []KeysOnce
<1>1. Init => KeysInv
  BY DEF Init, Idle, KeysInv, KeysOnce, KeyFresh, Mid
<1>2. KeysInv => KeysOnce
  BY DEF KeysInv
<1> QED BY <1>1, <1>2, KeysStep, TypeInv, PTL DEF Spec

-----------------------------------------------------------------------------
(* The ledger replays to the levels *)

Fresh == [q |-> Zero, ver |-> 0]

\* The row an update starts from: a level without a row starts from zero.
Start(row) == IF row = NoRow THEN Fresh ELSE row

OnLevel(M, l) == {m \in M : m.level = l}

\* Only the movements of a level matter for its replay.
LEMMA ReplaysSameLevel ==
  ASSUME NEW row, NEW l, NEW M, NEW N, OnLevel(M, l) = OnLevel(N, l), Replays(row, M, l)
  PROVE  Replays(row, N, l)
<1>1. \A m : m \in M /\ m.level = l <=> m \in N /\ m.level = l
  BY DEF OnLevel
<1> QED BY <1>1 DEF Replays

\* A movement that continues the last row extends the replay by one version.
LEMMA ExtendReplays ==
  ASSUME NEW l \in Levels, NEW row \in Row \cup {NoRow}, NEW M \in SUBSET Movement,
         Replays(row, M, l),
         NEW n \in Movement, NEW new \in Row, n.level = l,
         n.ver = Start(row).ver + 1, n.after = Plus(Start(row).q, n.d),
         new.ver = n.ver, new.q = n.after
  PROVE  Replays(new, M \cup {n}, l)
<1> DEFINE k == Start(row).ver
           P == M \cup {n}
<1>0. Fresh \in Row
  BY QtyFacts DEF Fresh, Row
<1>1. /\ k \in Nat /\ n.ver = k + 1
      /\ new.ver = k + 1 /\ new # NoRow /\ n.ver \in Nat
  BY <1>0 DEF Start, Row, Movement
<1>2. \A m \in M : m.level = l => m.ver \in 1..k
  BY DEF Replays, Start, Fresh
<1>3. \A v \in 1..k : \E m \in M : m.level = l /\ m.ver = v
  BY DEF Replays, Start, Fresh
<1>4. \A m \in M : m.level = l /\ m.ver = k => m.after = Start(row).q
  BY DEF Replays, Start, Fresh
<1>5. k = 0 => Start(row).q = Zero
  BY DEF Replays, Start, Fresh
<1>6. \A m \in M : m.ver \in Nat /\ m.d \in Qty
  BY QtyFacts DEF Movement
<1> HIDE DEF k
<1>7. \A v \in 1..new.ver : \E m \in P : m.level = l /\ m.ver = v
  <2> SUFFICES ASSUME NEW v \in 1..(k + 1) PROVE \E m \in P : m.level = l /\ m.ver = v
    BY <1>1
  <2>1. CASE v = k + 1
    BY <1>1, <2>1
  <2>2. CASE v \in 1..k
    BY <1>3, <2>2
  <2> QED BY <1>1, <2>1, <2>2
<1>8. \A m \in P : m.level = l => m.ver \in 1..new.ver
  BY <1>1, <1>2
<1>9. \A m \in P : m.level = l /\ m.ver = new.ver => m.after = new.q
  BY <1>1, <1>2
<1>10. new.ver # 0
  BY <1>1
<1>11. \A a, b \in P : a.level = l /\ b.level = l /\ a.ver = b.ver => a = b
  BY <1>1, <1>2 DEF Replays
<1>12. \A a, b \in P : a.level = l /\ b.level = l /\ b.ver = a.ver + 1
                      => b.after = Plus(a.after, b.d)
  <2> SUFFICES ASSUME NEW a \in P, NEW b \in P, a.level = l, b.level = l,
                      b.ver = a.ver + 1
               PROVE  b.after = Plus(a.after, b.d)
    OBVIOUS
  <2>1. CASE a \in M /\ b \in M
    BY <2>1 DEF Replays
  <2>2. CASE a \in M /\ b = n
    <3>1. a.ver = k
      BY <1>1, <1>6, <2>2
    <3> QED BY <1>4, <2>2, <3>1 DEF k
  <2>3. CASE a = n
    <3>1. b.ver = k + 2
      BY <1>1, <2>3
    <3> QED BY <1>1, <1>8, <3>1
  <2> QED BY <2>1, <2>2, <2>3
<1>13. \A m \in P : m.level = l /\ m.ver = 1 => m.after = m.d
  <2>1. CASE k = 0
    <3>1. n.after = n.d
      BY <1>5, <2>1, QtyFacts DEF k, Plus, Zero, Qty, Movement
    <3> QED BY <1>2, <2>1, <3>1
  <2>2. CASE k # 0
    BY <1>1, <2>2 DEF Replays
  <2> QED BY <2>1, <2>2
<1> QED
  BY <1>1, <1>7, <1>8, <1>9, <1>10, <1>11, <1>12, <1>13 DEF Replays

\* A draft continues the row its transaction sees of the level.
DraftOf(t) ==
    LET base == Visible(t, Current(t).level)
    IN  /\ txn[t].pc = "create" => txn[t].mine[Current(t).level] = NoRow
        /\ txn[t].pc = "update" /\ txn[t].draft # NoRow
             => txn[t].draft = Fresh /\ base = NoRow
        /\ txn[t].pc = "insert"
             => /\ txn[t].draft.q = Plus(Start(base).q, Current(t).d)
                /\ txn[t].draft.ver = Start(base).ver + 1

\* Each transaction's own view replays: the committed movements and its own.
MineOf(t) ==
    /\ \A l \in Levels : txn[t].mine[l] # NoRow
          => Replays(txn[t].mine[l], ledger \cup txn[t].ups, l)
    /\ \A m \in txn[t].ups : txn[t].mine[m.level] # NoRow

ChainInv == LedgerReplaysLevels /\ \A t \in Txns : DraftOf(t) /\ MineOf(t)

\* What a transaction sees of any level replays from what it sees of the ledger.
LEMMA ViewReplays ==
  ASSUME TypeOK, ChainInv, NEW t \in Txns, NEW l \in Levels
  PROVE  Replays(Visible(t, l), ledger \cup txn[t].ups, l)
<1>1. CASE txn[t].mine[l] # NoRow
  BY <1>1 DEF ChainInv, MineOf, Visible
<1>2. CASE txn[t].mine[l] = NoRow
  <2>1. \A m \in txn[t].ups : m.level # l
    BY <1>2 DEF ChainInv, MineOf
  <2>2. OnLevel(ledger, l) = OnLevel(ledger \cup txn[t].ups, l)
    BY <2>1 DEF OnLevel
  <2>3. Replays(level[l], ledger, l)
    BY DEF ChainInv, LedgerReplaysLevels
  <2> QED BY <1>2, <2>2, <2>3, ReplaysSameLevel DEF Visible
<1> QED BY <1>1, <1>2

\* A request keeps its draft and its view right.
LEMMA ChainOfSelf ==
  ASSUME TypeOK, Shape, ChainInv, NEW t \in Txns, Acts(t)
  PROVE  DraftOf(t)' /\ MineOf(t)'
<1>1. ShapeOf(t) /\ txn[t] \in TxnState /\ DraftOf(t) /\ MineOf(t)
  BY DEF Shape, TypeOK, ChainInv
<1>2. CASE txn'[t] = Idle
  BY <1>2 DEF Idle, DraftOf, MineOf
<1>3. CASE txn'[t] # Idle
  <2>1. UNCHANGED <<level, ledger>>
    BY <1>3, ActsAlone DEF Commit, TypeOK
  <2>2. CASE Stays(t)
    <3>1. MineOf(t)'
      BY <1>1, <2>1, <2>2 DEF Stays, MineOf
    <3>2. DraftOf(t)'
      BY <2>1, <2>2 DEF Stays, DraftOf, Visible, Current, Mid
    <3> QED BY <3>1, <3>2
  <2>3. ASSUME NEW row, NEW pc, Drafts(t, row, pc)
        PROVE  /\ MineOf(t)' /\ Current(t)' = Current(t)
               /\ Visible(t, Current(t).level)' = Visible(t, Current(t).level)
    BY <1>1, <2>1, <2>3 DEF Drafts, MineOf, Visible, Current
  <2>4. CASE Created(t)
    <3>1. txn[t].mine[Current(t).level] = NoRow /\ level[Current(t).level] = NoRow
      BY <1>1, <2>4 DEF Created, DraftOf
    <3>2. txn'[t].pc = "update" /\ txn'[t].draft = Fresh
      BY <2>4 DEF Created, Drafts, Fresh
    <3> QED BY <2>3, <2>4, <3>1, <3>2 DEF Created, DraftOf, Visible
  <2>5. CASE Updated(t)
    <3> DEFINE row == [q |-> Plus(Target(t).q, Current(t).d), ver |-> Target(t).ver + 1]
    <3>1. Drafts(t, row, "insert") /\ txn[t].pc = "update"
      BY <2>5 DEF Updated
    <3>2. Target(t) = Start(Visible(t, Current(t).level))
      BY <1>1, <3>1 DEF ShapeOf, DraftOf, Target, Start
    <3>3. txn'[t].pc = "insert" /\ txn'[t].draft = row
      BY <3>1 DEF Drafts
    <3> QED BY <2>3, <3>1, <3>2, <3>3 DEF DraftOf
  <2>6. CASE Finished(t)
    <3> DEFINE l == Current(t).level
               n == NewMovement(t)
               row == txn[t].draft
    <3>1. /\ txn'[t].mine = [txn[t].mine EXCEPT ![l] = row]
          /\ txn'[t].ups = txn[t].ups \cup {n} /\ txn'[t].pc = "lookup"
          /\ Running(t) /\ txn[t].pc = "insert"
      BY <2>6 DEF Finished
    <3>2. n \in Movement /\ row \in Row /\ l \in Levels
      BY <1>1, <3>1, MovementType, CallFacts DEF Call
    <3>3. /\ n.level = l /\ n.ver = row.ver /\ n.after = row.q
          /\ n.d = Current(t).d
      BY DEF NewMovement
    <3>4. /\ row.ver = Start(Visible(t, l)).ver + 1
          /\ row.q = Plus(Start(Visible(t, l)).q, n.d)
      BY <1>1, <3>1, <3>3 DEF DraftOf
    <3>5. /\ Visible(t, l) \in Row \cup {NoRow}
          /\ ledger \cup txn[t].ups \in SUBSET Movement
          /\ Replays(Visible(t, l), ledger \cup txn[t].ups, l)
      BY <1>1, <3>2, VisibleType, ViewReplays DEF TypeOK, TxnState
    <3>6. txn[t].mine \in [Levels -> Row \cup {NoRow}]
      BY <1>1 DEF TxnState
    <3> HIDE DEF l, n, row
    <3>7. Replays(row, (ledger \cup txn[t].ups) \cup {n}, l)
      BY <3>2, <3>3, <3>4, <3>5, ExtendReplays
    <3>8. ledger' \cup txn'[t].ups = (ledger \cup txn[t].ups) \cup {n}
      BY <2>1, <3>1
    <3>9. ASSUME NEW x \in Levels, txn'[t].mine[x] # NoRow
          PROVE  Replays(txn'[t].mine[x], ledger' \cup txn'[t].ups, x)
      <4>1. CASE x = l
        BY <3>1, <3>2, <3>6, <3>7, <3>8, <4>1
      <4>2. CASE x # l
        <5>1. txn'[t].mine[x] = txn[t].mine[x]
          BY <3>1, <3>6, <4>2
        <5>2. Replays(txn[t].mine[x], ledger \cup txn[t].ups, x)
          BY <1>1, <3>9, <5>1 DEF MineOf
        <5>3. OnLevel(ledger \cup txn[t].ups, x) = OnLevel(ledger' \cup txn'[t].ups, x)
          BY <3>3, <3>8, <4>2 DEF OnLevel
        <5> QED BY <5>1, <5>2, <5>3, ReplaysSameLevel
      <4> QED BY <4>1, <4>2
    <3>10. \A m \in txn'[t].ups : txn'[t].mine[m.level] # NoRow
      BY <1>1, <3>1, <3>2, <3>3, <3>6 DEF MineOf, TxnState, Movement
    <3>11. MineOf(t)'
      BY <3>9, <3>10 DEF MineOf
    <3>12. DraftOf(t)'
      BY <3>1 DEF DraftOf
    <3> QED BY <3>11, <3>12
  <2> QED BY <1>3, <2>2, <2>4, <2>5, <2>6, Effects DEF Created, Updated
<1> QED BY <1>2, <1>3

\* A commit of t leaves the levels t has not written, and their movements.
LEMMA CommitElsewhere ==
  ASSUME TypeOK, ChainInv, NEW t \in Txns, Commit(t), NEW l \in Levels,
         txn[t].mine[l] = NoRow
  PROVE  /\ level'[l] = level[l]
         /\ \A M : OnLevel(ledger \cup M, l) = OnLevel(ledger' \cup M, l)
<1>1. \A m \in txn[t].ups : m.level # l
  BY DEF ChainInv, MineOf
<1> QED BY <1>1 DEF Commit, Visible, OnLevel

\* Every step keeps the committed movements of each level a replay of its row.
LEMMA ChainStep == TypeOK /\ Shape /\ OneWriter /\ ChainInv /\ [Next]_vars => ChainInv'
<1> SUFFICES ASSUME TypeOK, Shape, OneWriter, ChainInv, [Next]_vars PROVE ChainInv'
  OBVIOUS
<1>1. CASE UNCHANGED vars
  <2>1. \A t \in Txns : DraftOf(t)'
    BY <1>1 DEF vars, ChainInv, DraftOf, Visible, Current
  <2>2. \A t \in Txns : MineOf(t)'
    BY <1>1 DEF vars, ChainInv, MineOf, Replays
  <2>3. LedgerReplaysLevels'
    BY <1>1 DEF vars, ChainInv, LedgerReplaysLevels, Replays
  <2> QED BY <2>1, <2>2, <2>3 DEF ChainInv
<1>2. ASSUME NEW t \in Txns, Acts(t) PROVE ChainInv'
  <2>1. LedgerReplaysLevels'
    <3>1. CASE UNCHANGED <<level, ledger>>
      BY <3>1 DEF ChainInv, LedgerReplaysLevels, Replays
    <3>2. CASE Commit(t)
      <4>1. ASSUME NEW l \in Levels PROVE Replays(level'[l], ledger', l)
        BY <3>2, ViewReplays DEF Commit
      <4> QED BY <4>1 DEF LedgerReplaysLevels, Replays
    <3> QED BY <1>2, <3>1, <3>2, ActsAlone
  <2>2. ASSUME NEW u \in Txns, u # t PROVE DraftOf(u)' /\ MineOf(u)'
    <3>1. txn'[u] = txn[u] /\ DraftOf(u) /\ MineOf(u) /\ ShapeOf(u)
      BY <1>2, <2>2, ActsAlone DEF ChainInv, Shape
    <3>2. CASE UNCHANGED <<level, ledger>>
      <4>1. DraftOf(u)'
        BY <3>1, <3>2 DEF DraftOf, Visible, Current
      <4>2. MineOf(u)'
        BY <3>1, <3>2 DEF MineOf, Replays
      <4> QED BY <4>1, <4>2
    <3>3. CASE Commit(t)
      <4>1. \A l \in Levels : Holds(u, l) => txn[t].mine[l] = NoRow
        BY <2>2 DEF OneWriter, Holds
      <4>2. MineOf(u)'
        <5>1. ASSUME NEW l \in Levels, txn[u].mine[l] # NoRow
              PROVE  Replays(txn[u].mine[l], ledger' \cup txn[u].ups, l)
          <6>1. txn[t].mine[l] = NoRow
            BY <4>1, <5>1 DEF Holds
          <6>2. Replays(txn[u].mine[l], ledger \cup txn[u].ups, l)
            BY <3>1, <5>1 DEF MineOf
          <6>3. OnLevel(ledger \cup txn[u].ups, l) = OnLevel(ledger' \cup txn[u].ups, l)
            BY <3>3, <6>1, CommitElsewhere
          <6> QED BY <6>2, <6>3, ReplaysSameLevel
        <5> QED BY <3>1, <5>1 DEF MineOf, Replays
      <4>3. DraftOf(u)'
        <5>1. CASE txn[u].draft = NoRow
          BY <3>1, <5>1 DEF DraftOf, ShapeOf, Current
        <5>2. CASE txn[u].draft # NoRow
          <6>1. Running(u)
            BY <3>1, <5>2 DEF ShapeOf, Running
          <6>2. Current(u).level \in Levels /\ Holds(u, Current(u).level)
            BY <5>2, <6>1, CallFacts DEF Call, Holds, Running
          <6>3. level'[Current(u).level] = level[Current(u).level]
            BY <3>3, <4>1, <6>2, CommitElsewhere
          <6> QED BY <3>1, <6>3 DEF DraftOf, Visible, Current
        <5> QED BY <5>1, <5>2
      <4> QED BY <4>2, <4>3
    <3> QED BY <1>2, <3>2, <3>3, ActsAlone
  <2> QED BY <1>2, <2>1, <2>2, ChainOfSelf DEF ChainInv
<1> QED BY <1>1, <1>2 DEF Next, Acts

\* The committed movements of a level, replayed in version order, give the
\* committed row: no interleaving of requests loses or repeats an update.
THEOREM LedgerReplaysAlways == Spec => []LedgerReplaysLevels
<1>1. Init => ChainInv
  BY DEF Init, Idle, ChainInv, LedgerReplaysLevels, DraftOf, MineOf, Replays
<1>2. ChainInv => LedgerReplaysLevels
  BY DEF ChainInv
<1> QED BY <1>1, <1>2, ChainStep, OneWriterAlways, TypeInv, PTL DEF Spec

-----------------------------------------------------------------------------
(* The ledger implements AtomicStock *)

\* AtomicStock's sums are the sums of FiniteSums.
LEMMA AbstractSum ==
  ASSUME NEW f
  PROVE  Abstract!SumFunction(f) = SumFunction(f)
<1>1. Abstract!SumFunctionOnSet(f, DOMAIN f) = (CHOOSE g : IsSumTable(g, f, DOMAIN f))[DOMAIN f]
  BY DEF Abstract!SumFunctionOnSet, Abstract!FoldFunctionOnSet, Abstract!MapThenFoldSet,
         IsSumTable, SumStep, Pick
<1> QED BY <1>1, Unfold DEF Abstract!SumFunction, SumFunction

\* The movements of a level, without their history, add up to the quantities
\* of the row they replay to.
LEMMA MovedIsRow ==
  ASSUME NEW l \in Levels, NEW row \in Row \cup {NoRow}, NEW M \in SUBSET Movement,
         Replays(row, M, l), \A m, n \in M : m.key = n.key => m = n
  PROVE  Abstract!Moved({Stripped(m) : m \in M}, l) = Start(row).q
<1> DEFINE k == Start(row).ver
           q == Start(row).q
           at == [v \in 1..k |-> CHOOSE m \in M : m.level = l /\ m.ver = v]
           e == [v \in 1..k |-> Stripped(at[v])]
           on == {s \in {Stripped(m) : m \in M} : s.level = l}
<1>0. k \in Nat /\ q \in Qty
  BY QtyFacts DEF Start, Fresh, Row
<1>1. \A v \in 1..k : at[v] \in M /\ at[v].level = l /\ at[v].ver = v
  BY DEF Replays, Start, Fresh
<1>2. \A m \in M : m.level = l => m.ver \in 1..k /\ at[m.ver] = m
  <2>1. \A m \in M : m.level = l => m.ver \in 1..k
    BY DEF Replays, Start, Fresh
  <2> HIDE DEF at, k
  <2> QED BY <1>1, <2>1 DEF Replays
<1>3. /\ k = 0 => q = Zero
      /\ k # 0 => at[k].after = q
  <2>1. \A m \in M : m.level = l /\ m.ver = k => m.after = q
    BY DEF Replays, Start, Fresh
  <2>2. k = 0 => q = Zero
    BY DEF Replays, Start, Fresh
  <2> HIDE DEF at, k, q
  <2> QED BY <1>0, <1>1, <2>1, <2>2
<1> HIDE DEF at, k, q
<1>4. \A v \in 1..k : at[v].d \in Qty /\ at[v].after \in Qty
  BY <1>1, QtyFacts DEF Movement
<1>5. \A v \in 1..k : v = 1 => at[v].after = at[v].d
  BY <1>1 DEF Replays
<1>6. \A v \in 1..k : v # 1 => v - 1 \in 1..k
                              /\ at[v].after = Plus(at[v - 1].after, at[v].d)
  <2> SUFFICES ASSUME NEW v \in 1..k, v # 1
               PROVE  v - 1 \in 1..k /\ at[v].after = Plus(at[v - 1].after, at[v].d)
    OBVIOUS
  <2>1. v - 1 \in 1..k /\ v = (v - 1) + 1
    BY <1>0
  <2> QED BY <1>1, <2>1 DEF Replays
<1>7. /\ \A v \in 1..k : e[v] \in on
      /\ \A s \in on : \E v \in 1..k : s = e[v]
  BY <1>1, <1>2 DEF Stripped
<1>8. \A v, w \in 1..k : e[v] = e[w] => v = w
  BY <1>1 DEF Stripped
<1>9. \A v \in 1..k : e[v] \in on /\ e[v].d = at[v].d
  BY <1>7 DEF Stripped
<1> HIDE DEF e, on
<1>10. SumFunction([m \in on |-> m.d.oh]) = q.oh
  <2> DEFINE f == [m \in on |-> m.d.oh]
             a == [v \in 0..k |-> IF v = 0 THEN 0 ELSE at[v].after.oh]
  <2>1. ASSUME NEW v \in 1..k PROVE f[e[v]] \in Int /\ a[v] = a[v - 1] + f[e[v]]
    <3>1. f[e[v]] = at[v].d.oh /\ at[v].d.oh \in Int /\ at[v].after.oh \in Int
      BY <1>4, <1>9 DEF Qty
    <3>2. v \in 0..k /\ v - 1 \in 0..k /\ a[v] = at[v].after.oh
      BY <1>0
    <3>3. CASE v = 1
      BY <1>5, <3>1, <3>2, <3>3
    <3>4. CASE v # 1
      <4>1. a[v - 1] = at[v - 1].after.oh
        BY <3>2, <3>4
      <4>2. at[v].after = Plus(at[v - 1].after, at[v].d)
        BY <1>6, <3>4
      <4>3. at[v].after.oh = at[v - 1].after.oh + at[v].d.oh
        BY <4>2 DEF Plus
      <4> QED BY <3>1, <3>2, <4>1, <4>3
    <3> QED BY <3>3, <3>4
  <2>2. a[0] = 0 /\ a[k] = q.oh
    BY <1>0, <1>3 DEF Zero
  <2>3. DOMAIN f = on
    OBVIOUS
  <2> HIDE DEF f, a
  <2>4. RunningTotals(k, e, a, f, on)
    BY <1>7, <1>8, <2>1, <2>2 DEF RunningTotals
  <2>5. SumFunctionOnSet(f, on) = a[k]
    BY <1>0, <2>4, SumOfSteps
  <2> QED BY <2>2, <2>3, <2>5 DEF SumFunction, f
<1>11. SumFunction([m \in on |-> m.d.rs]) = q.rs
  <2> DEFINE f == [m \in on |-> m.d.rs]
             a == [v \in 0..k |-> IF v = 0 THEN 0 ELSE at[v].after.rs]
  <2>1. ASSUME NEW v \in 1..k PROVE f[e[v]] \in Int /\ a[v] = a[v - 1] + f[e[v]]
    <3>1. f[e[v]] = at[v].d.rs /\ at[v].d.rs \in Int /\ at[v].after.rs \in Int
      BY <1>4, <1>9 DEF Qty
    <3>2. v \in 0..k /\ v - 1 \in 0..k /\ a[v] = at[v].after.rs
      BY <1>0
    <3>3. CASE v = 1
      BY <1>5, <3>1, <3>2, <3>3
    <3>4. CASE v # 1
      <4>1. a[v - 1] = at[v - 1].after.rs
        BY <3>2, <3>4
      <4>2. at[v].after = Plus(at[v - 1].after, at[v].d)
        BY <1>6, <3>4
      <4>3. at[v].after.rs = at[v - 1].after.rs + at[v].d.rs
        BY <4>2 DEF Plus
      <4> QED BY <3>1, <3>2, <4>1, <4>3
    <3> QED BY <3>3, <3>4
  <2>2. a[0] = 0 /\ a[k] = q.rs
    BY <1>0, <1>3 DEF Zero
  <2>3. DOMAIN f = on
    OBVIOUS
  <2> HIDE DEF f, a
  <2>4. RunningTotals(k, e, a, f, on)
    BY <1>7, <1>8, <2>1, <2>2 DEF RunningTotals
  <2>5. SumFunctionOnSet(f, on) = a[k]
    BY <1>0, <2>4, SumOfSteps
  <2> QED BY <2>2, <2>3, <2>5 DEF SumFunction, f
<1>12. SumFunction([m \in on |-> m.d.dm]) = q.dm
  <2> DEFINE f == [m \in on |-> m.d.dm]
             a == [v \in 0..k |-> IF v = 0 THEN 0 ELSE at[v].after.dm]
  <2>1. ASSUME NEW v \in 1..k PROVE f[e[v]] \in Int /\ a[v] = a[v - 1] + f[e[v]]
    <3>1. f[e[v]] = at[v].d.dm /\ at[v].d.dm \in Int /\ at[v].after.dm \in Int
      BY <1>4, <1>9 DEF Qty
    <3>2. v \in 0..k /\ v - 1 \in 0..k /\ a[v] = at[v].after.dm
      BY <1>0
    <3>3. CASE v = 1
      BY <1>5, <3>1, <3>2, <3>3
    <3>4. CASE v # 1
      <4>1. a[v - 1] = at[v - 1].after.dm
        BY <3>2, <3>4
      <4>2. at[v].after = Plus(at[v - 1].after, at[v].d)
        BY <1>6, <3>4
      <4>3. at[v].after.dm = at[v - 1].after.dm + at[v].d.dm
        BY <4>2 DEF Plus
      <4> QED BY <3>1, <3>2, <4>1, <4>3
    <3> QED BY <3>3, <3>4
  <2>2. a[0] = 0 /\ a[k] = q.dm
    BY <1>0, <1>3 DEF Zero
  <2>3. DOMAIN f = on
    OBVIOUS
  <2> HIDE DEF f, a
  <2>4. RunningTotals(k, e, a, f, on)
    BY <1>7, <1>8, <2>1, <2>2 DEF RunningTotals
  <2>5. SumFunctionOnSet(f, on) = a[k]
    BY <1>0, <2>4, SumOfSteps
  <2> QED BY <2>2, <2>3, <2>5 DEF SumFunction, f
<1>13. Abstract!Moved({Stripped(m) : m \in M}, l) = [oh |-> q.oh, rs |-> q.rs, dm |-> q.dm]
  BY <1>10, <1>11, <1>12, AbstractSum DEF Abstract!Moved, on
<1>14. q = [oh |-> q.oh, rs |-> q.rs, dm |-> q.dm]
  BY <1>0 DEF Qty
<1> QED BY <1>13, <1>14 DEF q

\* The rows of the levels, each the replay of its movements, and the keys of
\* the movements: what makes the tables a state of AtomicStock.
Summed(lv, lg) ==
    /\ lv \in [Levels -> Row \cup {NoRow}] /\ lg \in SUBSET Movement
    /\ \A m, n \in lg : m.key = n.key => m = n
    /\ \A l \in Levels : Replays(lv[l], lg, l)

\* Such tables have as quantities the sums of their movements.
LEMMA SummedIsMoved ==
  ASSUME NEW lv, NEW lg, Summed(lv, lg), NEW l \in Levels
  PROVE  (IF lv[l] = NoRow THEN Zero ELSE lv[l].q)
           = Abstract!Moved({Stripped(m) : m \in lg}, l)
<1>1. Abstract!Moved({Stripped(m) : m \in lg}, l) = Start(lv[l]).q
  BY MovedIsRow DEF Summed
<1> QED BY <1>1 DEF Start, Fresh

\* Committed movements stay.
LEMMA LedgerGrows ==
  ASSUME TypeOK, [Next]_vars
  PROVE  ledger \subseteq ledger'
<1>1. ASSUME NEW t \in Txns, Acts(t) PROVE ledger \subseteq ledger'
  BY <1>1, ActsAlone DEF Commit
<1> QED BY <1>1 DEF Next, Acts, vars

\* Every step posts the new movements of the ledger at once, or posts nothing
\* and leaves the quantities.
LEMMA AbstractStep ==
  ASSUME TypeOK, KeysOnce, LedgerReplaysLevels, [Next]_vars,
         TypeOK', KeysOnce', LedgerReplaysLevels', LevelsStayValid'
  PROVE  [Abstract!Post]_<<[l \in Levels |-> IF level[l] = NoRow THEN Zero ELSE level[l].q],
                           {Stripped(m) : m \in ledger}>>
<1> DEFINE quantity == [l \in Levels |-> IF level[l] = NoRow THEN Zero ELSE level[l].q]
           posted == {Stripped(m) : m \in ledger}
<1>1. Summed(level, ledger)
  BY DEF Summed, TypeOK, KeysOnce, LedgerReplaysLevels
<1>2. Summed(level', ledger')
  BY DEF Summed, TypeOK, KeysOnce, LedgerReplaysLevels, Replays
<1>3. quantity = [l \in Levels |-> Abstract!Moved(posted, l)]
  BY <1>1, SummedIsMoved
<1>4. quantity' = [l \in Levels |-> Abstract!Moved(posted', l)]
  BY <1>2, SummedIsMoved
<1>5. posted \subseteq posted'
  BY LedgerGrows
<1>6. \A m, n \in posted' : m.key = n.key => m = n
  BY <1>2 DEF Summed, Stripped
<1>7. \A l \in Levels : Abstract!Sound(quantity'[l])
  BY DEF LevelsStayValid, Abstract!Sound, Zero
<1>8. CASE posted' = posted
  BY <1>3, <1>4, <1>8
<1>9. CASE posted' # posted
  <2> HIDE DEF quantity, posted
  <2> QED BY <1>4, <1>5, <1>6, <1>7, <1>9 DEF Abstract!Post, quantity, posted
<1> QED BY <1>8, <1>9

\* The ledger implements AtomicStock, for any number of requests, keys, levels
\* and call lists: requests post their movements in one step each, under fresh
\* keys, and every level is the sum of what was posted to it.
THEOREM ImplementsAtomicStock == Spec => PostsAtomically
<1>1. Init => Abstract!Init
  BY DEF Init, Abstract!Init, Abstract!Nothing, Zero
<1>2. Spec => [](TypeOK /\ KeysOnce /\ LedgerReplaysLevels /\ LevelsStayValid)
  BY TypeCorrect, KeysOnceAlways, LedgerReplaysAlways, LevelsStayValidAlways, PTL
<1>3. TypeOK /\ KeysOnce /\ LedgerReplaysLevels /\ LevelsStayValid /\ [Next]_vars
      /\ (TypeOK /\ KeysOnce /\ LedgerReplaysLevels /\ LevelsStayValid)'
        => [Abstract!Post]_<<[l \in Levels |-> IF level[l] = NoRow THEN Zero ELSE level[l].q],
                             {Stripped(m) : m \in ledger}>>
  BY AbstractStep
<1> QED BY <1>1, <1>2, <1>3, PTL DEF Spec, PostsAtomically, Abstract!Spec
=============================================================================

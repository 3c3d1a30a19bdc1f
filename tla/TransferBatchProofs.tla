------------------------- MODULE TransferBatchProofs -------------------------
(***************************************************************************)
(* Proofs about TransferBatch, for any number of branches, batches and     *)
(* requests and any line lists: type correctness whatever requests overlap *)
(* and, when requests that overlap are about different batches, that       *)
(* reserved stock is what pending batches wait to ship, that a batch       *)
(* receives what was shipped for it, and that goods are conserved.         *)
(***************************************************************************)
EXTENDS TransferBatch, SequenceTheorems, FiniteSums

USE TransferAssumption

\* The movements of one kind of a batch, and the quantities they moved.
Moves(b, kind) == {m \in movements : m.batch = b /\ m.kind = kind}

MovedLines(b, kind) == {<<m.line, m.qty>> : m \in Moves(b, kind)}

LinesOf(b) == {<<i, batch[b].lines[i]>> : i \in DOMAIN batch[b].lines}

\* What a request has loaded is still so, and its operation fits the status.
Loaded ==
    \A s \in Slots : req[s] # Idle =>
       LET r == req[s]
           b == r.batch
       IN  /\ r.loaded = batch[b]
           /\ r.op # "receive" => batch[b].status = "pending_dispatch"
           /\ r.op = "receive" => batch[b].status = "in_transit"
           /\ r.op # "update" => r.from = batch[b].from /\ r.to = batch[b].to
                                 /\ r.lines = batch[b].lines

\* The movements made for a batch follow its status.
LogOf(b) ==
    /\ batch[b].status = "new" =>
          batch[b].updates = 0 /\ \A kind \in Kinds : Moves(b, kind) = {}
    /\ batch[b].updates = 0 => Moves(b, "update_release") = {} /\ Moves(b, "update_reserve") = {}
    /\ batch[b].status \in {"new", "pending_dispatch"} =>
          Moves(b, "dispatch") = {} /\ Moves(b, "cancel_reserve") = {}
    /\ batch[b].status \in {"new", "pending_dispatch", "in_transit"} => Moves(b, "receive") = {}
    /\ batch[b].status \in {"in_transit", "received"} => MovedLines(b, "dispatch") = LinesOf(b)
    /\ batch[b].status = "received" => MovedLines(b, "receive") = LinesOf(b)

Log == \A b \in Batches : LogOf(b)

TransferInv == TypeOK /\ Loaded /\ Log /\ ReservedMatchesPending

-----------------------------------------------------------------------------
(* Types *)

\* The lines of a batch, and any of them, add up to a natural.
LEMMA TotalType ==
  ASSUME NEW lines \in Seq(Nat)
  PROVE  /\ Total(lines) \in Nat
         /\ \A b, kind : Moved(b, kind, lines) \in Nat
<1>1. /\ DOMAIN lines = 1..Len(lines) /\ Len(lines) \in Nat
      /\ \A i \in DOMAIN lines : lines[i] \in Nat
  BY LenProperties, ElementOfSeq
<1>2. IsFiniteSet(DOMAIN lines)
  BY <1>1, FS_Interval
<1>3. Total(lines) \in Nat
  BY <1>1, <1>2, SumNat DEF Total, SumFunction
<1>4. ASSUME NEW b, NEW kind PROVE Moved(b, kind, lines) \in Nat
  <2>1. Fresh(b, kind, lines) \subseteq DOMAIN lines
    BY DEF Fresh
  <2>2. IsFiniteSet(Fresh(b, kind, lines))
    BY <1>2, <2>1, FS_Subset
  <2> QED BY <1>1, <2>1, <2>2, SumNat DEF Moved
<1> QED BY <1>3, <1>4

\* New movements are movements.
LEMMA MadeType ==
  ASSUME NEW lines \in Seq(Nat), NEW b \in Batches, NEW kind \in Kinds
  PROVE  Made(b, kind, lines) \subseteq Movement
<1>1. \A i \in DOMAIN lines : i \in Nat /\ lines[i] \in Nat
  BY LenProperties, ElementOfSeq
<1> QED BY <1>1 DEF Made, Fresh, Movement

\* A level that is accepted is a level,
LEMMA LevelType ==
  ASSUME NEW level \in [oh : Nat, rs : Nat], NEW oh \in Int, NEW rs \in Int,
         Valid(Change(level, oh, rs))
  PROVE  Change(level, oh, rs) \in [oh : Nat, rs : Nat]
BY DEF Valid, Change

\* and so is one to which something is added.
LEMMA LevelAdded ==
  ASSUME NEW level \in [oh : Nat, rs : Nat], NEW oh \in Nat, NEW rs \in Nat
  PROVE  Change(level, oh, rs) \in [oh : Nat, rs : Nat]
BY DEF Change

\* A list of lines is a sequence of quantities.
LEMMA ListType == \A lines \in Lists : lines \in Seq(Nat)
<1>1. ASSUME NEW lines \in Seq(Nat \ {0}) PROVE lines \in Seq(Nat)
  BY ElementOfSeq, LenProperties, SeqDef
<1> QED BY <1>1

\* What a request has loaded, by type.
LEMMA RequestType ==
  ASSUME TypeOK, NEW s \in Slots, req[s].op # "idle"
  PROVE  /\ req[s] # Idle
         /\ req[s].op \in {"update", "dispatch", "receive", "cancel"}
         /\ req[s].batch \in Batches /\ req[s].loaded \in Batch
         /\ req[s].from \in Branches /\ req[s].to \in Branches /\ req[s].lines \in Seq(Nat)
BY DEF TypeOK, Request, Idle

\* A request that is idle is one of the types.
LEMMA DoneType ==
  ASSUME TypeOK, NEW s \in Slots, Done(s)
  PROVE  req' \in [Slots -> Request]
BY DEF TypeOK, Done, Request

\* A batch, a level of one branch and movements change.
LEMMA TypeStep ==
  ASSUME TypeOK, NEW b \in Batches, NEW x \in Branches, NEW row \in Batch,
         NEW level \in [oh : Nat, rs : Nat], batch' = [batch EXCEPT ![b] = row],
         stock' = [stock EXCEPT ![x] = level], movements' \subseteq Movement,
         req' \in [Slots -> Request]
  PROVE  TypeOK'
BY DEF TypeOK

\* A new batch is one, and reserves what is available.
LEMMA CreateType ==
  ASSUME TypeOK, NEW b \in Batches, NEW from \in Branches, NEW to \in Branches,
         NEW lines \in Seq(Nat), CreateBatch(b, from, to, lines)
  PROVE  TypeOK'
<1> DEFINE row == [status |-> "pending_dispatch", from |-> from, to |-> to,
                   lines |-> lines, updates |-> 0]
           qty == Moved(b, "reserve", lines)
           level == Change(stock[from], 0, qty)
<1>1. row \in Batch
  BY DEF Batch, Statuses
<1>2. qty \in Nat /\ stock[from] \in [oh : Nat, rs : Nat]
  BY TotalType DEF TypeOK
<1>3. level \in [oh : Nat, rs : Nat]
  <2> HIDE DEF qty
  <2> QED BY <1>2, LevelAdded
<1>4. Made(b, "reserve", lines) \subseteq Movement
  BY MadeType DEF Kinds
<1>5. /\ batch' = [batch EXCEPT ![b] = row] /\ stock' = [stock EXCEPT ![from] = level]
      /\ movements' = movements \cup Made(b, "reserve", lines) /\ UNCHANGED req
  BY DEF CreateBatch
<1> HIDE DEF row, level
<1>6. movements' \subseteq Movement /\ req' \in [Slots -> Request]
  BY <1>4, <1>5 DEF TypeOK
<1> QED BY <1>1, <1>3, <1>5, <1>6, TypeStep

\* A request that loads a batch.
LEMMA LoadType ==
  ASSUME TypeOK, NEW s \in Slots, NEW b \in Batches,
         NEW op \in {"update", "dispatch", "receive", "cancel"}, NEW status,
         NEW from \in Branches, NEW to \in Branches, NEW lines \in Seq(Nat),
         Load(s, op, b, status, from, to, lines)
  PROVE  TypeOK'
BY DEF Load, TypeOK, Request

\* An update replaces the lines, or adds its own to those of another update.
LEMMA UpdateType ==
  ASSUME TypeOK, NEW s \in Slots, CommitUpdate(s)
  PROVE  TypeOK'
<1> DEFINE r == req[s]
           b == r.batch
           old == r.loaded
           out == Moved(b, "update_release", old.lines)
           in == Moved(b, "update_reserve", r.lines)
           released == [stock EXCEPT ![old.from] = Change(@, 0, -out)]
           reserved == [released EXCEPT ![r.from] = Change(@, 0, in)]
           from == IF r.from = old.from THEN batch[b].from ELSE r.from
           to == IF r.to = old.to THEN batch[b].to ELSE r.to
           lines == IF batch[b].updates = old.updates THEN r.lines ELSE batch[b].lines \o r.lines
           row == [batch[b] EXCEPT !.from = from, !.to = to, !.lines = lines, !.updates = @ + 1]
<1>1. /\ b \in Batches /\ old \in Batch /\ r.from \in Branches /\ r.to \in Branches
      /\ r.lines \in Seq(Nat)
  BY RequestType DEF CommitUpdate
<1>2. /\ batch[b].updates < MaxUpdates
      /\ Valid(released[old.from]) /\ Valid(reserved[r.from])
      /\ stock' = reserved /\ Done(s)
      /\ movements' = movements \cup Made(b, "update_release", old.lines)
                                \cup Made(b, "update_reserve", r.lines)
  BY DEF CommitUpdate
<1>3. batch' = [batch EXCEPT ![b] = row]
  BY DEF CommitUpdate
<1>4. old.from \in Branches /\ old.lines \in Seq(Nat)
  BY <1>1 DEF Batch
<1>5. out \in Nat /\ in \in Nat
  BY <1>1, <1>4, TotalType
<1>6. row \in Batch
  <2>1. batch[b] \in Batch
    BY <1>1 DEF TypeOK
  <2>2. from \in Branches /\ to \in Branches
    BY <1>1, <2>1 DEF Batch
  <2>3. lines \in Seq(Nat)
    <3>1. batch[b].lines \in Seq(Nat)
      BY <2>1 DEF Batch
    <3>2. batch[b].lines \o r.lines \in Seq(Nat)
      BY <1>1, <3>1, ConcatProperties
    <3> QED BY <1>1, <3>2
  <2>4. batch[b].updates + 1 \in 0..MaxUpdates
    <3>1. batch[b].updates \in 0..MaxUpdates
      BY <2>1 DEF Batch
    <3>2. \A n \in 0..MaxUpdates : n < MaxUpdates => n + 1 \in 0..MaxUpdates
      BY TransferAssumption
    <3> HIDE DEF b, r
    <3> QED BY <1>2, <3>1, <3>2
  <2>5. row = [batch[b] EXCEPT !.from = from, !.to = to, !.lines = lines,
                               !.updates = batch[b].updates + 1]
    OBVIOUS
  <2> HIDE DEF from, to, lines, b, r, row
  <2>6. \A x \in Batch, f, g \in Branches, ls \in Seq(Nat), n \in 0..MaxUpdates :
           [x EXCEPT !.from = f, !.to = g, !.lines = ls, !.updates = n] \in Batch
    BY DEF Batch
  <2> QED BY <2>1, <2>2, <2>3, <2>4, <2>5, <2>6
<1>7. stock' \in [Branches -> [oh : Nat, rs : Nat]]
  <2>1. stock \in [Branches -> [oh : Nat, rs : Nat]]
    BY DEF TypeOK
  <2>2. released \in [Branches -> [oh : Nat, rs : Nat]]
    <3>1. released[old.from] = Change(stock[old.from], 0, -out)
      BY <1>4, <2>1
    <3>2. released = [stock EXCEPT ![old.from] = Change(stock[old.from], 0, -out)]
      OBVIOUS
    <3> HIDE DEF released, out, r, old
    <3>3. Change(stock[old.from], 0, -out) \in [oh : Nat, rs : Nat]
      BY <1>2, <1>4, <1>5, <2>1, <3>1, LevelType
    <3> QED BY <1>4, <2>1, <3>2, <3>3
  <2> HIDE DEF released, in, r
  <2>3. Change(released[r.from], 0, in) \in [oh : Nat, rs : Nat]
    BY <1>1, <1>5, <2>2, LevelAdded
  <2> QED BY <1>1, <1>2, <2>2, <2>3
<1>8. movements' \subseteq Movement
  <2>1. Made(b, "update_release", old.lines) \subseteq Movement
        /\ Made(b, "update_reserve", r.lines) \subseteq Movement
    BY <1>1, <1>4, MadeType DEF Kinds
  <2> HIDE DEF b, old, r
  <2> QED BY <1>2, <2>1 DEF TypeOK
<1> HIDE DEF row, b
<1> QED BY <1>1, <1>2, <1>3, <1>6, <1>7, <1>8, DoneType DEF TypeOK

\* A commit of a dispatch, a receipt or a cancellation changes one batch and
\* one branch.
LEMMA CommitType ==
  ASSUME TypeOK, NEW s \in Slots, CommitDispatch(s) \/ CommitReceive(s) \/ CommitCancel(s)
  PROVE  TypeOK'
<1> DEFINE r == req[s]
           b == r.batch
<1>1. /\ b \in Batches /\ r.from \in Branches /\ r.to \in Branches /\ r.lines \in Seq(Nat)
  BY RequestType DEF CommitDispatch, CommitReceive, CommitCancel
<1>2. \A kind \in Kinds : Moved(b, kind, r.lines) \in Nat /\ Made(b, kind, r.lines) \subseteq Movement
  BY <1>1, TotalType, MadeType
<1>3. batch[b] \in Batch
  BY <1>1 DEF TypeOK
<1>4. \A status \in Statuses : [batch[b] EXCEPT !.status = status] \in Batch
  BY <1>3 DEF Batch
<1>5. \A x \in Branches : stock[x] \in [oh : Nat, rs : Nat]
  BY DEF TypeOK
<1>6. CASE CommitDispatch(s)
  <2> DEFINE qty == Moved(b, "dispatch", r.lines)
             level == Change(stock[r.from], -qty, -qty)
             row == [batch[b] EXCEPT !.status = "in_transit"]
  <2>1. /\ Valid(level) /\ stock' = [stock EXCEPT ![r.from] = level]
        /\ batch' = [batch EXCEPT ![b] = row]
        /\ movements' = movements \cup Made(b, "dispatch", r.lines) /\ Done(s)
    BY <1>6 DEF CommitDispatch
  <2>2. qty \in Nat /\ Made(b, "dispatch", r.lines) \subseteq Movement /\ row \in Batch
    BY <1>2, <1>4 DEF Kinds, Statuses
  <2>3. level \in [oh : Nat, rs : Nat]
    <3>1. stock[r.from] \in [oh : Nat, rs : Nat] /\ -qty \in Int /\ Valid(level)
      BY <1>1, <1>5, <2>1, <2>2
    <3> HIDE DEF qty, r
    <3> QED BY <3>1, LevelType
  <2> HIDE DEF level, row, b, r
  <2> QED BY <1>1, <2>1, <2>2, <2>3, DoneType, TypeStep DEF TypeOK
<1>7. CASE CommitReceive(s)
  <2> DEFINE qty == Moved(b, "receive", r.lines)
             level == Change(stock[r.to], qty, 0)
             row == [batch[b] EXCEPT !.status = "received"]
  <2>1. /\ stock' = [stock EXCEPT ![r.to] = level]
        /\ batch' = [batch EXCEPT ![b] = row]
        /\ movements' = movements \cup Made(b, "receive", r.lines) /\ Done(s)
    BY <1>7 DEF CommitReceive
  <2>2. qty \in Nat /\ Made(b, "receive", r.lines) \subseteq Movement /\ row \in Batch
    BY <1>2, <1>4 DEF Kinds, Statuses
  <2>3. level \in [oh : Nat, rs : Nat]
    <3> HIDE DEF qty
    <3> QED BY <1>1, <1>5, <2>2, LevelAdded
  <2> HIDE DEF level, row, b, r
  <2> QED BY <1>1, <2>1, <2>2, <2>3, DoneType, TypeStep DEF TypeOK
<1>8. CASE CommitCancel(s)
  <2> DEFINE qty == Moved(b, "cancel_reserve", r.lines)
             level == Change(stock[r.from], 0, -qty)
             row == [batch[b] EXCEPT !.status = "deleted"]
  <2>1. /\ Valid(level) /\ stock' = [stock EXCEPT ![r.from] = level]
        /\ batch' = [batch EXCEPT ![b] = row]
        /\ movements' = movements \cup Made(b, "cancel_reserve", r.lines) /\ Done(s)
    BY <1>8 DEF CommitCancel
  <2>2. qty \in Nat /\ Made(b, "cancel_reserve", r.lines) \subseteq Movement /\ row \in Batch
    BY <1>2, <1>4 DEF Kinds, Statuses
  <2>3. level \in [oh : Nat, rs : Nat]
    <3>1. stock[r.from] \in [oh : Nat, rs : Nat] /\ -qty \in Int /\ Valid(level)
      BY <1>1, <1>5, <2>1, <2>2
    <3> HIDE DEF qty, r
    <3> QED BY <3>1, LevelType
  <2> HIDE DEF level, row, b, r
  <2> QED BY <1>1, <2>1, <2>2, <2>3, DoneType, TypeStep DEF TypeOK
<1> QED BY <1>6, <1>7, <1>8

\* A sale takes a unit that is free.
LEMMA SellType ==
  ASSUME TypeOK, NEW x \in Branches, Sell(x)
  PROVE  TypeOK' /\ stock'[x].oh = stock[x].oh - 1 /\ stock'[x].rs = stock[x].rs
<1> DEFINE level == Change(stock[x], -1, 0)
<1>1. stock[x] \in [oh : Nat, rs : Nat] /\ Available(stock[x]) > 0
  BY DEF TypeOK, Sell
<1>2. level \in [oh : Nat, rs : Nat] /\ level.oh = stock[x].oh - 1 /\ level.rs = stock[x].rs
  BY <1>1 DEF Change, Available
<1>3. stock' = [stock EXCEPT ![x] = level] /\ UNCHANGED <<batch, movements, req>>
  BY DEF Sell
<1> HIDE DEF level
<1> QED BY <1>2, <1>3 DEF TypeOK

\* The steps of Next, with the types of what they are given.
LEMMA NextInputs ==
  ASSUME TypeOK, Next
  PROVE  \/ \E b \in Batches, from, to \in Branches, lines \in Seq(Nat) :
               CreateBatch(b, from, to, lines)
         \/ \E s \in Slots, b \in Batches, op \in {"update", "dispatch", "receive", "cancel"},
               from, to \in Branches, lines \in Seq(Nat) :
               \E status \in {IF op = "receive" THEN "in_transit" ELSE "pending_dispatch"} :
                  /\ op # "update" => from = batch[b].from /\ to = batch[b].to
                                      /\ lines = batch[b].lines
                  /\ Load(s, op, b, status, from, to, lines)
         \/ \E s \in Slots : \/ CommitUpdate(s) \/ CommitDispatch(s) \/ CommitReceive(s)
                             \/ CommitCancel(s) \/ Fail(s)
         \/ \E x \in Branches : Sell(x)
<1>1. \A b \in Batches : batch[b].from \in Branches /\ batch[b].to \in Branches
                         /\ batch[b].lines \in Seq(Nat)
  BY DEF TypeOK, Batch
<1>2. ASSUME NEW s \in Slots, NEW b \in Batches, Begin(s, b)
      PROVE  \E op \in {"update", "dispatch", "receive", "cancel"},
               from, to \in Branches, lines \in Seq(Nat) :
               \E status \in {IF op = "receive" THEN "in_transit" ELSE "pending_dispatch"} :
                  /\ op # "update" => from = batch[b].from /\ to = batch[b].to
                                      /\ lines = batch[b].lines
                  /\ Load(s, op, b, status, from, to, lines)
  <2>1. CASE \E from, to \in Branches, lines \in Lists : LoadUpdate(s, b, from, to, lines)
    BY <2>1, ListType DEF LoadUpdate
  <2>2. CASE LoadOnly(s, "dispatch", b, "pending_dispatch")
    BY <1>1, <2>2 DEF LoadOnly
  <2>3. CASE LoadOnly(s, "receive", b, "in_transit")
    BY <1>1, <2>3 DEF LoadOnly
  <2>4. CASE LoadOnly(s, "cancel", b, "pending_dispatch")
    BY <1>1, <2>4 DEF LoadOnly
  <2> QED BY <1>2, <2>1, <2>2, <2>3, <2>4 DEF Begin
<1>3. CASE \E b \in Batches, from, to \in Branches, lines \in Lists : CreateBatch(b, from, to, lines)
  BY <1>3, ListType
<1>4. CASE \E s \in Slots, b \in Batches : Begin(s, b)
  BY <1>2, <1>4
<1>5. CASE \E s \in Slots : Finish(s)
  BY <1>5 DEF Finish
<1>6. CASE \E x \in Branches : Sell(x)
  BY <1>6
<1> QED BY <1>3, <1>4, <1>5, <1>6 DEF Next

\* At the start no batch exists.
LEMMA InitType == Init => TypeOK
<1> SUFFICES ASSUME Init PROVE TypeOK
  OBVIOUS
<1>1. PICK any \in Branches :
        batch = [b \in Batches |-> [status |-> "new", from |-> any, to |-> any,
                                    lines |-> <<>>, updates |-> 0]]
  BY DEF Init
<1>2. [status |-> "new", from |-> any, to |-> any, lines |-> <<>>, updates |-> 0] \in Batch
  BY EmptySeq DEF Batch, Statuses
<1>3. batch \in [Batches -> Batch]
  BY <1>1, <1>2
<1> QED BY <1>3 DEF Init, TypeOK, Request

\* Every step keeps the types, with any number of requests at a time.
LEMMA NextType == TypeOK /\ [Next]_vars => TypeOK'
<1> SUFFICES ASSUME TypeOK, [Next]_vars PROVE TypeOK'
  OBVIOUS
<1>1. CASE UNCHANGED vars
  BY <1>1 DEF vars, TypeOK
<1>2. ASSUME NEW s \in Slots, Fail(s) PROVE TypeOK'
  BY <1>2, DoneType DEF Fail, TypeOK
<1>3. CASE Next
  <2>1. ASSUME NEW s \in Slots, NEW b \in Batches,
               NEW op \in {"update", "dispatch", "receive", "cancel"},
               NEW from \in Branches, NEW to \in Branches, NEW lines \in Seq(Nat), NEW status,
               Load(s, op, b, status, from, to, lines)
        PROVE  TypeOK'
    BY <2>1, LoadType
  <2> QED BY <1>2, <1>3, <2>1, NextInputs, CreateType, UpdateType, CommitType, SellType
<1> QED BY <1>1, <1>3

\* Type correctness of transfers, whatever requests overlap.
THEOREM TypeCorrect == Spec => []TypeOK
<1> QED BY InitType, NextType, PTL DEF Spec

-----------------------------------------------------------------------------
(* Movements *)

\* A movement whose key is free moves the whole list.
LEMMA MovedAll ==
  ASSUME NEW b, NEW kind, NEW lines, Moves(b, kind) = {}
  PROVE  Fresh(b, kind, lines) = DOMAIN lines /\ Moved(b, kind, lines) = Total(lines)
<1>1. Fresh(b, kind, lines) = DOMAIN lines
  BY DEF Fresh, Moves
<1> QED BY <1>1 DEF Moved, Total, SumFunction

\* Movements of some kinds of one batch leave the others alone.
LEMMA MoveStep ==
  ASSUME NEW b, NEW K, movements \subseteq movements',
         \A m \in movements' : m \in movements \/ (m.batch = b /\ m.kind \in K)
  PROVE  \A c, kind : c # b \/ kind \notin K =>
            Moves(c, kind)' = Moves(c, kind) /\ MovedLines(c, kind)' = MovedLines(c, kind)
<1>1. \A c, kind : c # b \/ kind \notin K => Moves(c, kind)' = Moves(c, kind)
  BY DEF Moves
<1> QED BY <1>1 DEF MovedLines

\* What is made has its batch and its kind.
LEMMA MadeIs ==
  ASSUME NEW b, NEW kind, NEW lines
  PROVE  \A m \in Made(b, kind, lines) : m.batch = b /\ m.kind = kind
BY DEF Made

\* A step makes the movements of one kind of a batch.
Makes(b, kind, lines) == movements' = movements \cup Made(b, kind, lines)

\* A movement with a free key moves its list, line by line.
LEMMA MoveAll ==
  ASSUME NEW b, NEW kind, NEW lines, Moves(b, kind) = {}, Makes(b, kind, lines)
  PROVE  /\ MovedLines(b, kind)' = {<<i, lines[i]>> : i \in DOMAIN lines}
         /\ \A c, k : c # b \/ k # kind =>
               Moves(c, k)' = Moves(c, k) /\ MovedLines(c, k)' = MovedLines(c, k)
<1>1. Moves(b, kind)' = Made(b, kind, lines)
  BY MadeIs DEF Makes, Moves
<1>2. Made(b, kind, lines) =
        {[batch |-> b, kind |-> kind, line |-> i, qty |-> lines[i]] : i \in DOMAIN lines}
  BY MovedAll DEF Made
<1>3. MovedLines(b, kind)' = {<<m.line, m.qty>> : m \in Made(b, kind, lines)}
  BY <1>1 DEF MovedLines
<1>4. MovedLines(b, kind)' = {<<i, lines[i]>> : i \in DOMAIN lines}
  <2> DEFINE move(i) == [batch |-> b, kind |-> kind, line |-> i, qty |-> lines[i]]
  <2>1. \A i : move(i).line = i /\ move(i).qty = lines[i]
    OBVIOUS
  <2>2. Made(b, kind, lines) = {move(i) : i \in DOMAIN lines}
    BY <1>2
  <2> HIDE DEF move
  <2> QED BY <1>3, <2>1, <2>2
<1>5. \A c, k : c # b \/ k # kind => Moves(c, k)' = Moves(c, k)
  BY MadeIs DEF Makes, Moves
<1> QED BY <1>4, <1>5 DEF MovedLines

\* The log of a batch nothing happened to.
LEMMA LogKept ==
  ASSUME NEW c, LogOf(c), batch'[c] = batch[c],
         \A kind : Moves(c, kind)' = Moves(c, kind) /\ MovedLines(c, kind)' = MovedLines(c, kind)
  PROVE  LogOf(c)'
BY DEF LogOf, LinesOf

-----------------------------------------------------------------------------
(* Quantities *)

\* What batch b waits to ship from branch x, and what of it is on the way.
Waiting(b, x) ==
    IF batch[b].status = "pending_dispatch" /\ batch[b].from = x THEN Total(batch[b].lines) ELSE 0

Travelling(b) == IF batch[b].status = "in_transit" THEN Total(batch[b].lines) ELSE 0

\* They are naturals.
LEMMA ShipmentType ==
  ASSUME TypeOK
  PROVE  /\ Shipments \in [Batches -> Nat]
         /\ \A b \in Batches : Total(batch[b].lines) \in Nat /\ Travelling(b) \in Nat
                               /\ \A x : Waiting(b, x) \in Nat
<1>1. \A b \in Batches : batch[b].lines \in Seq(Nat)
  BY DEF TypeOK, Batch
<1>2. \A b \in Batches : Total(batch[b].lines) \in Nat
  BY <1>1, TotalType
<1> QED BY <1>2 DEF Shipments, Waiting, Travelling

\* When one batch changes, the sums follow what changed of it.
LEMMA UnitsStep ==
  ASSUME TypeOK, TypeOK', NEW b \in Batches, \A c \in Batches \ {b} : batch'[c] = batch[c]
  PROVE  /\ \A x : Pending(x)' = Pending(x) + Waiting(b, x)' - Waiting(b, x)
         /\ Units(With("in_transit"))' =
               Units(With("in_transit")) + Travelling(b)' - Travelling(b)
         /\ Units(With("in_transit")) \in Int
<1>1. Shipments \in [Batches -> Nat] /\ Shipments' \in [Batches -> Nat]
  <2>1. \A c \in Batches : batch'[c].lines \in Seq(Nat)
    BY DEF TypeOK, Batch
  <2>2. \A c \in Batches : Total(batch'[c].lines) \in Nat
    BY <2>1, TotalType
  <2> QED BY <2>2, ShipmentType DEF Shipments
<1>2. \A c \in Batches \ {b} : Shipments'[c] = Shipments[c]
  BY DEF Shipments
<1>3. Shipments[b] = Total(batch[b].lines) /\ Shipments'[b] = Total(batch'[b].lines)
  BY DEF Shipments
<1>4. ASSUME NEW S \in SUBSET Batches, NEW T \in SUBSET Batches, S \ {b} = T \ {b}
      PROVE  /\ SumFunctionOnSet(Shipments', T) = SumFunctionOnSet(Shipments, S)
                   + (IF b \in T THEN Shipments'[b] ELSE 0) - (IF b \in S THEN Shipments[b] ELSE 0)
             /\ SumFunctionOnSet(Shipments, S) \in Int
  <2>1. IsFiniteSet(S)
    BY FS_Subset
  <2>2. /\ \A e \in S : Shipments[e] \in Int
        /\ \A e \in T : Shipments'[e] \in Int
        /\ \A e \in S \ {b} : Shipments'[e] = Shipments[e]
    BY <1>1, <1>2
  <2> QED BY <1>4, <2>1, <2>2, SumMoves, SumType
<1>5. ASSUME NEW x PROVE Pending(x)' = Pending(x) + Waiting(b, x)' - Waiting(b, x)
  <2> DEFINE W == {c \in With("pending_dispatch") : batch[c].from = x}
  <2>1. /\ W \in SUBSET Batches /\ W' \in SUBSET Batches /\ W \ {b} = W' \ {b}
        /\ b \in W <=> batch[b].status = "pending_dispatch" /\ batch[b].from = x
        /\ b \in W' <=> batch'[b].status = "pending_dispatch" /\ batch'[b].from = x
    BY DEF With
  <2>2. Pending(x) = SumFunctionOnSet(Shipments, W) /\ Pending(x)' = SumFunctionOnSet(Shipments', W')
    BY DEF Pending, Units
  <2>3. /\ Waiting(b, x) = IF b \in W THEN Shipments[b] ELSE 0
        /\ Waiting(b, x)' = IF b \in W' THEN Shipments'[b] ELSE 0
    BY <1>3, <2>1 DEF Waiting
  <2> HIDE DEF W
  <2> QED BY <1>4, <2>1, <2>2, <2>3
<1>6. /\ Units(With("in_transit"))' =
           Units(With("in_transit")) + Travelling(b)' - Travelling(b)
      /\ Units(With("in_transit")) \in Int
  <2> DEFINE W == With("in_transit")
  <2>1. /\ W \in SUBSET Batches /\ W' \in SUBSET Batches /\ W \ {b} = W' \ {b}
        /\ b \in W <=> batch[b].status = "in_transit"
        /\ b \in W' <=> batch'[b].status = "in_transit"
    BY DEF With
  <2>2. Units(W) = SumFunctionOnSet(Shipments, W) /\ Units(W)' = SumFunctionOnSet(Shipments', W')
    BY DEF Units
  <2>3. /\ Travelling(b) = IF b \in W THEN Shipments[b] ELSE 0
        /\ Travelling(b)' = IF b \in W' THEN Shipments'[b] ELSE 0
    BY <1>3, <2>1 DEF Travelling
  <2> HIDE DEF W
  <2>4. Units(W)' = Units(W) + Travelling(b)' - Travelling(b) /\ Units(W) \in Int
    BY <1>4, <2>1, <2>2, <2>3
  <2> QED BY <2>4 DEF W
<1> QED BY <1>5, <1>6

-----------------------------------------------------------------------------
(* What a step that changes one batch has to do *)

\* Reserved stock follows the change of the batch.
LEMMA ReservedStep ==
  ASSUME TransferInv, TypeOK', NEW b \in Batches, \A c \in Batches \ {b} : batch'[c] = batch[c],
         batch'[b].updates < 2 =>
            /\ batch[b].updates < 2
            /\ \A x \in Branches : stock'[x].rs = stock[x].rs + Waiting(b, x)' - Waiting(b, x)
  PROVE  ReservedMatchesPending'
<1> SUFFICES ASSUME \A c \in Batches : batch'[c].updates < 2, NEW x \in Branches
             PROVE  stock'[x].rs = Pending(x)'
  BY DEF ReservedMatchesPending
<1>1. \A c \in Batches : batch[c].updates < 2
  OBVIOUS
<1>2. stock[x].rs = Pending(x)
  BY <1>1 DEF TransferInv, ReservedMatchesPending
<1>3. Pending(x)' = Pending(x) + Waiting(b, x)' - Waiting(b, x)
  BY UnitsStep DEF TransferInv
<1> QED BY <1>2, <1>3

\* Goods follow it too, if one branch takes or gives what travels.
LEMMA GoodsStep ==
  ASSUME TypeOK, TypeOK', NEW b \in Batches, \A c \in Batches \ {b} : batch'[c] = batch[c],
         NEW x \in Branches, \A y \in Branches \ {x} : stock'[y].oh = stock[y].oh,
         stock'[x].oh = stock[x].oh + Travelling(b) - Travelling(b)'
  PROVE  Goods' = Goods
<1> DEFINE f == [y \in Branches |-> stock[y].oh]
           g == [y \in Branches |-> stock'[y].oh]
<1>1. /\ DOMAIN f = Branches /\ DOMAIN g = Branches
      /\ \A y \in Branches : f[y] \in Nat /\ g[y] \in Nat
      /\ \A y \in Branches \ {x} : g[y] = f[y]
      /\ f[x] = stock[x].oh /\ g[x] = stock'[x].oh
  BY DEF TypeOK
<1>2. SumFunction(g) = SumFunction(f) + g[x] - f[x] /\ SumFunction(f) \in Int
  <2>1. f \in [Branches -> Int]
    BY DEF TypeOK
  <2> HIDE DEF f, g
  <2>2. \A e \in DOMAIN f : f[e] \in Int /\ g[e] \in Int
    BY <1>1
  <2>3. SumFunction(g) = SumFunction(f) + g[x] - f[x]
    BY <1>1, <2>2, FunSumChange
  <2> QED BY <2>1, <2>3, FunSumType
<1>3. Goods = SumFunction(f) + Units(With("in_transit"))
      /\ Goods' = SumFunction(g) + Units(With("in_transit"))'
  BY DEF Goods
<1>4. Travelling(b) \in Nat /\ Travelling(b)' \in Nat
  <2>1. batch'[b].lines \in Seq(Nat)
    BY DEF TypeOK, Batch
  <2> QED BY <2>1, TotalType, ShipmentType DEF Travelling
<1> HIDE DEF f, g
<1>5. /\ Units(With("in_transit"))' = Units(With("in_transit")) + Travelling(b)' - Travelling(b)
      /\ Units(With("in_transit")) \in Int
  BY UnitsStep
<1>6. g[x] = f[x] + Travelling(b) - Travelling(b)' /\ f[x] \in Nat
  BY <1>1
<1> QED BY <1>2, <1>3, <1>4, <1>5, <1>6

\* A request is done that changed no batch but its own: what the others have
\* loaded is still so.
LEMMA DoneLoaded ==
  ASSUME OnePerBatch, TypeOK, Loaded, NEW s \in Slots, ~Free(s), Done(s),
         \A c \in Batches \ {req[s].batch} : batch'[c] = batch[c]
  PROVE  Loaded'
<1> SUFFICES ASSUME NEW t \in Slots, req'[t] # Idle
             PROVE  /\ t # s /\ req'[t] = req[t]
                    /\ req[t].batch \in Batches \ {req[s].batch}
  BY DEF Loaded
<1>1. t # s /\ req'[t] = req[t]
  BY DEF TypeOK, Done
<1>2. req[t].batch # req[s].batch
  BY <1>1 DEF OnePerBatch, Free
<1>3. req[t].batch \in Batches
  BY <1>1 DEF TypeOK, Request
<1> QED BY <1>1, <1>2, <1>3

\* Only the status of a batch changes.
LEMMA StatusRow ==
  ASSUME TypeOK, NEW b \in Batches, NEW status, batch' = [batch EXCEPT ![b].status = status]
  PROVE  /\ batch'[b].status = status /\ batch'[b].lines = batch[b].lines
         /\ batch'[b].from = batch[b].from /\ batch'[b].to = batch[b].to
         /\ batch'[b].updates = batch[b].updates
         /\ \A c \in Batches \ {b} : batch'[c] = batch[c]
<1>1. batch \in [Batches -> Batch]
  BY DEF TypeOK
<1>2. batch'[b] = [batch[b] EXCEPT !.status = status]
  BY <1>1
<1> QED BY <1>1, <1>2 DEF Batch

\* The level of one branch changes.
LEMMA LevelRow ==
  ASSUME TypeOK, NEW x \in Branches, NEW oh \in Int, NEW rs \in Int,
         stock' = [stock EXCEPT ![x] = Change(@, oh, rs)]
  PROVE  /\ stock'[x].oh = stock[x].oh + oh /\ stock'[x].rs = stock[x].rs + rs
         /\ \A y \in Branches \ {x} : stock'[y] = stock[y]
<1>1. stock \in [Branches -> [oh : Nat, rs : Nat]]
  BY DEF TypeOK
<1>2. stock'[x] = Change(stock[x], oh, rs)
  BY <1>1
<1> QED BY <1>1, <1>2 DEF Change

-----------------------------------------------------------------------------
(* Step by step, one request a batch *)

\* Creating a batch reserves its lines.
LEMMA CreateStep ==
  ASSUME TransferInv, TypeOK', NEW b \in Batches, NEW from \in Branches, NEW to \in Branches,
         NEW lines \in Seq(Nat), CreateBatch(b, from, to, lines)
  PROVE  TransferInv' /\ Goods' = Goods
<1> DEFINE row == [status |-> "pending_dispatch", from |-> from, to |-> to,
                   lines |-> lines, updates |-> 0]
<1>1. LogOf(b) /\ batch[b].status = "new"
  BY DEF TransferInv, Log, CreateBatch
<1>2. Moves(b, "reserve") = {} /\ batch[b].updates = 0
  BY <1>1 DEF LogOf, Kinds
<1>3. Moved(b, "reserve", lines) = Total(lines) /\ Total(lines) \in Nat
  BY <1>2, MovedAll, TotalType
<1>4. /\ batch' = [batch EXCEPT ![b] = row]
      /\ stock' = [stock EXCEPT ![from] = Change(@, 0, Total(lines))]
      /\ Makes(b, "reserve", lines) /\ UNCHANGED req
  BY <1>3 DEF CreateBatch, Makes
<1>5. /\ batch'[b].status = "pending_dispatch" /\ batch'[b].from = from
      /\ batch'[b].lines = lines /\ batch'[b].updates = 0
      /\ \A c \in Batches \ {b} : batch'[c] = batch[c]
  BY <1>4 DEF TransferInv, TypeOK
<1>6. /\ stock'[from].oh = stock[from].oh /\ stock'[from].rs = stock[from].rs + Total(lines)
      /\ \A y \in Branches \ {from} : stock'[y] = stock[y]
  <2>1. stock \in [Branches -> [oh : Nat, rs : Nat]]
    BY DEF TransferInv, TypeOK
  <2>2. stock' = [stock EXCEPT ![from] = Change(stock[from], 0, Total(lines))]
    BY <1>4
  <2>3. stock'[from] = Change(stock[from], 0, Total(lines))
    BY <2>1, <2>2
  <2> QED BY <1>3, <2>1, <2>2, <2>3 DEF Change
<1>7. Log'
  <2>1. \A c, k : c # b \/ k # "reserve" =>
           Moves(c, k)' = Moves(c, k) /\ MovedLines(c, k)' = MovedLines(c, k)
    BY <1>2, <1>4, MoveAll
  <2>2. \A c \in Batches \ {b} : LogOf(c)'
    BY <1>5, <2>1, LogKept DEF TransferInv, Log
  <2>3. LogOf(b)'
    BY <1>1, <1>5, <2>1 DEF LogOf, Kinds
  <2> QED BY <2>2, <2>3 DEF Log
<1>8. Loaded'
  <2>1. \A s \in Slots : req[s] # Idle => req[s].batch \in Batches \ {b}
    <3>1. \A s \in Slots : req[s] # Idle => req[s].batch \in Batches
      BY DEF TransferInv, TypeOK, Request
    <3>2. \A s \in Slots : req[s] # Idle => batch[req[s].batch].status # "new"
      BY DEF TransferInv, Loaded
    <3> QED BY <1>1, <3>1, <3>2
  <2> QED BY <1>4, <1>5, <2>1 DEF TransferInv, Loaded
<1>9. ReservedMatchesPending'
  <2>1. \A x \in Branches : stock'[x].rs = stock[x].rs + Waiting(b, x)' - Waiting(b, x)
    <3>1. \A x : Waiting(b, x) = 0 /\ Waiting(b, x)' = IF x = from THEN Total(lines) ELSE 0
      BY <1>1, <1>5 DEF Waiting
    <3>2. \A x \in Branches : stock[x].rs \in Nat
      BY DEF TransferInv, TypeOK
    <3> QED BY <1>3, <1>6, <3>1, <3>2
  <2> QED BY <1>2, <1>5, <2>1, ReservedStep
<1>10. Goods' = Goods
  <2>1. Travelling(b) = 0 /\ Travelling(b)' = 0 /\ stock[from].oh \in Nat
    BY <1>1, <1>5 DEF Travelling, TransferInv, TypeOK
  <2> QED BY <1>5, <1>6, <2>1, GoodsStep DEF TransferInv
<1> QED BY <1>7, <1>8, <1>9, <1>10 DEF TransferInv

\* Loading changes no row.
LEMMA LoadStep ==
  ASSUME OnePerBatch, TransferInv, TypeOK', NEW s \in Slots, NEW b \in Batches,
         NEW op \in {"update", "dispatch", "receive", "cancel"},
         NEW from \in Branches, NEW to \in Branches, NEW lines \in Seq(Nat), NEW status,
         status = IF op = "receive" THEN "in_transit" ELSE "pending_dispatch",
         op # "update" => from = batch[b].from /\ to = batch[b].to /\ lines = batch[b].lines,
         Load(s, op, b, status, from, to, lines)
  PROVE  TransferInv' /\ Goods' = Goods
<1> DEFINE r == [op |-> op, batch |-> b, loaded |-> batch[b],
                 from |-> from, to |-> to, lines |-> lines]
<1>1. /\ req' = [req EXCEPT ![s] = r] /\ batch[b].status = status
      /\ UNCHANGED <<batch, stock, movements>>
  BY DEF Load
<1>2. req'[s] = r /\ \A t \in Slots \ {s} : req'[t] = req[t]
  BY <1>1 DEF TransferInv, TypeOK
<1>3. r.op = op /\ r.batch = b /\ r.loaded = batch[b] /\ r.from = from /\ r.to = to
      /\ r.lines = lines
  OBVIOUS
<1> HIDE DEF r
<1>4. Loaded'
  BY <1>1, <1>2, <1>3 DEF Loaded, TransferInv
<1>5. Log'
  BY <1>1 DEF TransferInv, Log, LogOf, Moves, MovedLines, LinesOf
<1>6. ReservedMatchesPending' /\ Goods' = Goods
  <2>1. Shipments' = Shipments /\ \A any : With(any)' = With(any)
    BY <1>1 DEF Shipments, With
  <2>2. Goods' = Goods
    BY <1>1, <2>1 DEF Goods, Units
  <2>3. \A x : Pending(x)' = Pending(x)
    BY <1>1, <2>1 DEF Pending, Units
  <2> QED BY <1>1, <2>2, <2>3 DEF TransferInv, ReservedMatchesPending
<1> QED BY <1>4, <1>5, <1>6 DEF TransferInv

\* What the request that commits has loaded.
LEMMA CommitFacts ==
  ASSUME TransferInv, NEW s \in Slots, req[s].op # "idle"
  PROVE  /\ ~Free(s) /\ req[s].batch \in Batches /\ req[s].loaded = batch[req[s].batch]
         /\ LogOf(req[s].batch)
         /\ batch[req[s].batch].lines \in Seq(Nat) /\ batch[req[s].batch].from \in Branches
         /\ batch[req[s].batch].to \in Branches
         /\ req[s].op # "receive" => batch[req[s].batch].status = "pending_dispatch"
         /\ req[s].op = "receive" => batch[req[s].batch].status = "in_transit"
         /\ req[s].op # "update" => /\ req[s].from = batch[req[s].batch].from
                                    /\ req[s].to = batch[req[s].batch].to
                                    /\ req[s].lines = batch[req[s].batch].lines
<1>1. req[s] # Idle /\ req[s].batch \in Batches
  BY RequestType DEF TransferInv
<1>2. batch[req[s].batch] \in Batch
  BY <1>1 DEF TransferInv, TypeOK
<1> QED BY <1>1, <1>2 DEF TransferInv, Loaded, Log, Batch, Free

\* Dispatch takes the whole reservation and the goods.
LEMMA DispatchStep ==
  ASSUME OnePerBatch, TransferInv, TypeOK', NEW s \in Slots, CommitDispatch(s)
  PROVE  TransferInv' /\ Goods' = Goods
<1>1. PICK b \in Batches : b = req[s].batch
  BY CommitFacts DEF CommitDispatch
<1>2. PICK lines, x : lines = batch[b].lines /\ x = batch[b].from
  OBVIOUS
<1>3. /\ batch[b].status = "pending_dispatch" /\ LogOf(b) /\ lines \in Seq(Nat) /\ x \in Branches
      /\ req[s].from = x /\ req[s].lines = lines
  BY <1>1, <1>2, CommitFacts DEF CommitDispatch
<1>4. Moves(b, "dispatch") = {}
  BY <1>3 DEF LogOf
<1>5. Moved(b, "dispatch", lines) = Total(lines) /\ Total(lines) \in Nat
  BY <1>3, <1>4, MovedAll, TotalType
<1>6. /\ batch' = [batch EXCEPT ![b].status = "in_transit"]
      /\ stock' = [stock EXCEPT ![x] = Change(@, -Total(lines), -Total(lines))]
      /\ Makes(b, "dispatch", lines) /\ Done(s)
  BY <1>1, <1>3, <1>5 DEF CommitDispatch, Makes
<1>7. /\ batch'[b].status = "in_transit" /\ batch'[b].lines = lines
      /\ batch'[b].updates = batch[b].updates
      /\ \A c \in Batches \ {b} : batch'[c] = batch[c]
  BY <1>2, <1>6, StatusRow DEF TransferInv
<1>8. /\ stock'[x].oh = stock[x].oh - Total(lines) /\ stock'[x].rs = stock[x].rs - Total(lines)
      /\ \A y \in Branches \ {x} : stock'[y] = stock[y]
      /\ \A y \in Branches : stock[y].oh \in Nat /\ stock[y].rs \in Nat
  <2>1. -Total(lines) \in Int
    BY <1>5
  <2>2. \A y \in Branches : stock[y].oh \in Nat /\ stock[y].rs \in Nat
    BY DEF TransferInv, TypeOK
  <2> QED BY <1>3, <1>5, <1>6, <2>1, <2>2, LevelRow DEF TransferInv
<1>9. Log'
  <2>1. /\ MovedLines(b, "dispatch")' = {<<i, lines[i]>> : i \in DOMAIN lines}
        /\ \A c, k : c # b \/ k # "dispatch" =>
              Moves(c, k)' = Moves(c, k) /\ MovedLines(c, k)' = MovedLines(c, k)
    BY <1>4, <1>6, MoveAll
  <2>2. \A c \in Batches \ {b} : LogOf(c)'
    BY <1>7, <2>1, LogKept DEF TransferInv, Log
  <2>3. /\ \A k : k # "dispatch" => /\ Moves(b, k)' = Moves(b, k)
                                  /\ MovedLines(b, k)' = MovedLines(b, k)
        /\ LinesOf(b)' = {<<i, lines[i]>> : i \in DOMAIN lines}
    BY <1>7, <2>1 DEF LinesOf
  <2>4. LogOf(b)'
    BY <1>3, <1>7, <2>1, <2>3 DEF LogOf
  <2> QED BY <2>2, <2>4 DEF Log
<1>10. Loaded'
  BY <1>1, <1>6, <1>7, CommitFacts, DoneLoaded DEF TransferInv, CommitDispatch
<1>11. ReservedMatchesPending'
  <2>1. \A y : Waiting(b, y) = (IF y = x THEN Total(lines) ELSE 0) /\ Waiting(b, y)' = 0
    BY <1>2, <1>3, <1>7 DEF Waiting
  <2>2. \A y \in Branches : stock'[y].rs = stock[y].rs + Waiting(b, y)' - Waiting(b, y)
    BY <1>5, <1>8, <2>1
  <2> QED BY <1>7, <2>2, ReservedStep
<1>12. Goods' = Goods
  <2>1. Travelling(b) = 0 /\ Travelling(b)' = Total(lines)
    BY <1>3, <1>7 DEF Travelling
  <2>2. stock'[x].oh = stock[x].oh + Travelling(b) - Travelling(b)'
    BY <1>3, <1>5, <1>8, <2>1
  <2> QED BY <1>3, <1>7, <1>8, <2>2, GoodsStep DEF TransferInv
<1> QED BY <1>9, <1>10, <1>11, <1>12 DEF TransferInv

\* A receipt adds the goods that travel.
LEMMA ReceiveStep ==
  ASSUME OnePerBatch, TransferInv, TypeOK', NEW s \in Slots, CommitReceive(s)
  PROVE  TransferInv' /\ Goods' = Goods
<1>1. PICK b \in Batches : b = req[s].batch
  BY CommitFacts DEF CommitReceive
<1>2. PICK lines, x : lines = batch[b].lines /\ x = batch[b].to
  OBVIOUS
<1>3. /\ batch[b].status = "in_transit" /\ LogOf(b) /\ lines \in Seq(Nat) /\ x \in Branches
      /\ req[s].to = x /\ req[s].lines = lines
  BY <1>1, <1>2, CommitFacts DEF CommitReceive
<1>4. Moves(b, "receive") = {}
  BY <1>3 DEF LogOf
<1>5. Moved(b, "receive", lines) = Total(lines) /\ Total(lines) \in Nat
  BY <1>3, <1>4, MovedAll, TotalType
<1>6. /\ batch' = [batch EXCEPT ![b].status = "received"]
      /\ stock' = [stock EXCEPT ![x] = Change(@, Total(lines), 0)]
      /\ Makes(b, "receive", lines) /\ Done(s)
  BY <1>1, <1>3, <1>5 DEF CommitReceive, Makes
<1>7. /\ batch'[b].status = "received" /\ batch'[b].lines = lines
      /\ batch'[b].updates = batch[b].updates
      /\ \A c \in Batches \ {b} : batch'[c] = batch[c]
  BY <1>2, <1>6, StatusRow DEF TransferInv
<1>8. /\ stock'[x].oh = stock[x].oh + Total(lines) /\ stock'[x].rs = stock[x].rs
      /\ \A y \in Branches \ {x} : stock'[y] = stock[y]
      /\ \A y \in Branches : stock[y].oh \in Nat /\ stock[y].rs \in Nat
  <2>1. stock \in [Branches -> [oh : Nat, rs : Nat]]
    BY DEF TransferInv, TypeOK
  <2>2. stock'[x] = Change(stock[x], Total(lines), 0)
    BY <1>3, <1>6, <2>1
  <2> QED BY <1>3, <1>5, <1>6, <2>1, <2>2 DEF Change
<1>9. Log'
  <2>1. /\ MovedLines(b, "receive")' = {<<i, lines[i]>> : i \in DOMAIN lines}
        /\ \A c, k : c # b \/ k # "receive" =>
              Moves(c, k)' = Moves(c, k) /\ MovedLines(c, k)' = MovedLines(c, k)
    BY <1>4, <1>6, MoveAll
  <2>2. \A c \in Batches \ {b} : LogOf(c)'
    BY <1>7, <2>1, LogKept DEF TransferInv, Log
  <2>3. LogOf(b)'
    BY <1>2, <1>3, <1>7, <2>1 DEF LogOf, LinesOf
  <2> QED BY <2>2, <2>3 DEF Log
<1>10. Loaded'
  BY <1>1, <1>6, <1>7, CommitFacts, DoneLoaded DEF TransferInv, CommitReceive
<1>11. ReservedMatchesPending'
  <2>1. \A y : Waiting(b, y) = 0 /\ Waiting(b, y)' = 0
    BY <1>3, <1>7 DEF Waiting
  <2>2. \A y \in Branches : stock'[y].rs = stock[y].rs + Waiting(b, y)' - Waiting(b, y)
    BY <1>8, <2>1
  <2> QED BY <1>7, <2>2, ReservedStep
<1>12. Goods' = Goods
  <2>1. Travelling(b) = Total(lines) /\ Travelling(b)' = 0
    BY <1>2, <1>3, <1>7 DEF Travelling
  <2>2. stock'[x].oh = stock[x].oh + Travelling(b) - Travelling(b)'
    BY <1>3, <1>5, <1>8, <2>1
  <2> QED BY <1>3, <1>7, <1>8, <2>2, GoodsStep DEF TransferInv
<1> QED BY <1>9, <1>10, <1>11, <1>12 DEF TransferInv

\* A cancellation gives the whole reservation back.
LEMMA CancelStep ==
  ASSUME OnePerBatch, TransferInv, TypeOK', NEW s \in Slots, CommitCancel(s)
  PROVE  TransferInv' /\ Goods' = Goods
<1>1. PICK b \in Batches : b = req[s].batch
  BY CommitFacts DEF CommitCancel
<1>2. PICK lines, x : lines = batch[b].lines /\ x = batch[b].from
  OBVIOUS
<1>3. /\ batch[b].status = "pending_dispatch" /\ LogOf(b) /\ lines \in Seq(Nat) /\ x \in Branches
      /\ req[s].from = x /\ req[s].lines = lines
  BY <1>1, <1>2, CommitFacts DEF CommitCancel
<1>4. Moves(b, "cancel_reserve") = {}
  BY <1>3 DEF LogOf
<1>5. Moved(b, "cancel_reserve", lines) = Total(lines) /\ Total(lines) \in Nat
  BY <1>3, <1>4, MovedAll, TotalType
<1>6. /\ batch' = [batch EXCEPT ![b].status = "deleted"]
      /\ stock' = [stock EXCEPT ![x] = Change(@, 0, -Total(lines))]
      /\ Makes(b, "cancel_reserve", lines) /\ Done(s)
  BY <1>1, <1>3, <1>5 DEF CommitCancel, Makes
<1>7. /\ batch'[b].status = "deleted" /\ batch'[b].lines = lines
      /\ batch'[b].updates = batch[b].updates
      /\ \A c \in Batches \ {b} : batch'[c] = batch[c]
  BY <1>2, <1>6, StatusRow DEF TransferInv
<1>8. /\ stock'[x].oh = stock[x].oh /\ stock'[x].rs = stock[x].rs - Total(lines)
      /\ \A y \in Branches \ {x} : stock'[y] = stock[y]
      /\ \A y \in Branches : stock[y].oh \in Nat /\ stock[y].rs \in Nat
  <2>1. stock \in [Branches -> [oh : Nat, rs : Nat]]
    BY DEF TransferInv, TypeOK
  <2>2. stock'[x] = Change(stock[x], 0, -Total(lines))
    BY <1>3, <1>6, <2>1
  <2> QED BY <1>3, <1>5, <1>6, <2>1, <2>2 DEF Change
<1>9. Log'
  <2>1. \A c, k : c # b \/ k # "cancel_reserve" =>
           Moves(c, k)' = Moves(c, k) /\ MovedLines(c, k)' = MovedLines(c, k)
    BY <1>4, <1>6, MoveAll
  <2>2. \A c \in Batches \ {b} : LogOf(c)'
    BY <1>7, <2>1, LogKept DEF TransferInv, Log
  <2>3. LogOf(b)'
    BY <1>3, <1>7, <2>1 DEF LogOf
  <2> QED BY <2>2, <2>3 DEF Log
<1>10. Loaded'
  BY <1>1, <1>6, <1>7, CommitFacts, DoneLoaded DEF TransferInv, CommitCancel
<1>11. ReservedMatchesPending'
  <2>1. \A y : Waiting(b, y) = (IF y = x THEN Total(lines) ELSE 0) /\ Waiting(b, y)' = 0
    BY <1>2, <1>3, <1>7 DEF Waiting
  <2>2. \A y \in Branches : stock'[y].rs = stock[y].rs + Waiting(b, y)' - Waiting(b, y)
    BY <1>5, <1>8, <2>1
  <2> QED BY <1>7, <2>2, ReservedStep
<1>12. Goods' = Goods
  <2>1. Travelling(b) = 0 /\ Travelling(b)' = 0
    BY <1>3, <1>7 DEF Travelling
  <2>2. stock'[x].oh = stock[x].oh + Travelling(b) - Travelling(b)'
    BY <1>3, <1>8, <2>1
  <2> QED BY <1>3, <1>7, <1>8, <2>2, GoodsStep DEF TransferInv
<1> QED BY <1>9, <1>10, <1>11, <1>12 DEF TransferInv

\* An update of a batch: with free keys it exchanges the reservation, later
\* ones may move less, and count as a second update.
LEMMA UpdateStep ==
  ASSUME OnePerBatch, TransferInv, TypeOK', NEW s \in Slots, CommitUpdate(s)
  PROVE  TransferInv' /\ Goods' = Goods
<1>1. PICK b \in Batches : b = req[s].batch
  BY CommitFacts DEF CommitUpdate
<1>2. PICK lines, x, new, y, to : /\ lines = batch[b].lines /\ x = batch[b].from
                                  /\ new = req[s].lines /\ y = req[s].from /\ to = req[s].to
  OBVIOUS
<1>3. /\ batch[b].status = "pending_dispatch" /\ LogOf(b) /\ lines \in Seq(Nat) /\ x \in Branches
      /\ req[s].loaded = batch[b] /\ new \in Seq(Nat) /\ y \in Branches
      /\ batch[b].updates \in 0..MaxUpdates
  <2>1. batch[b] \in Batch
    BY DEF TransferInv, TypeOK
  <2> QED BY <1>1, <1>2, <2>1, CommitFacts, RequestType DEF CommitUpdate, TransferInv, Batch
<1> DEFINE out == Moved(b, "update_release", lines)
           in == Moved(b, "update_reserve", new)
           row == [batch[b] EXCEPT !.from = y, !.to = to, !.lines = new, !.updates = @ + 1]
           released == [stock EXCEPT ![x] = Change(@, 0, -out)]
<1>4. /\ stock' = [released EXCEPT ![y] = Change(@, 0, in)]
      /\ movements' = movements \cup Made(b, "update_release", lines)
                                \cup Made(b, "update_reserve", new)
      /\ Done(s)
  BY <1>1, <1>2, <1>3 DEF CommitUpdate
<1>5. batch' = [batch EXCEPT ![b] = row]
  <2>1. batch' = [batch EXCEPT
              ![b].from = IF y = x THEN @ ELSE y,
              ![b].to = IF to = batch[b].to THEN @ ELSE to,
              ![b].lines = IF batch[b].updates = batch[b].updates THEN new ELSE @ \o new,
              ![b].updates = @ + 1]
    BY <1>1, <1>2, <1>3 DEF CommitUpdate
  <2> QED BY <1>2, <2>1 DEF TransferInv, TypeOK
<1>6. /\ batch'[b].status = "pending_dispatch" /\ batch'[b].from = y /\ batch'[b].lines = new
      /\ batch'[b].updates = batch[b].updates + 1
      /\ \A c \in Batches \ {b} : batch'[c] = batch[c]
  <2>1. batch \in [Batches -> Batch]
    BY DEF TransferInv, TypeOK
  <2>2. batch'[b] = row
    BY <1>5, <2>1
  <2>3. row.status = batch[b].status /\ row.from = y /\ row.lines = new
        /\ row.updates = batch[b].updates + 1
    BY <2>1 DEF Batch
  <2> HIDE DEF row
  <2> QED BY <1>3, <1>5, <2>1, <2>2, <2>3
<1> HIDE DEF row
<1>7. out \in Nat /\ in \in Nat
  BY <1>3, TotalType
<1>8. \A z \in Branches : stock'[z].oh = stock[z].oh /\ stock[z].oh \in Nat /\ stock[z].rs \in Nat
                          /\ stock'[z].rs = stock[z].rs - (IF z = x THEN out ELSE 0)
                                                        + (IF z = y THEN in ELSE 0)
  <2> HIDE DEF out, in
  <2>1. stock \in [Branches -> [oh : Nat, rs : Nat]]
    BY DEF TransferInv, TypeOK
  <2>2. \A z \in Branches : released[z].oh = stock[z].oh
                            /\ released[z].rs = stock[z].rs - (IF z = x THEN out ELSE 0)
    BY <1>3, <1>7, <2>1 DEF Change
  <2>3. DOMAIN released = Branches
    BY <2>1
  <2> HIDE DEF released
  <2>4. \A z \in Branches : stock'[z] = IF z = y THEN Change(released[z], 0, in) ELSE released[z]
    BY <1>3, <1>4, <2>3
  <2>5. ASSUME NEW z \in Branches
        PROVE  /\ stock'[z].oh = stock[z].oh
               /\ stock'[z].rs = stock[z].rs - (IF z = x THEN out ELSE 0)
                                             + (IF z = y THEN in ELSE 0)
    <3>1. stock[z].oh \in Nat /\ stock[z].rs \in Nat
      BY <2>1
    <3>2. Change(released[z], 0, in).oh = released[z].oh + 0
          /\ Change(released[z], 0, in).rs = released[z].rs + in
      BY DEF Change
    <3>3. CASE z = y
      BY <1>7, <2>2, <2>4, <3>1, <3>2, <3>3
    <3>4. CASE z # y
      BY <1>7, <2>2, <2>4, <3>1, <3>4
    <3> QED BY <3>3, <3>4
  <2> QED BY <2>1, <2>5
<1>9. Log'
  <2>1. movements \subseteq movements' /\ \A m \in movements' : m \in movements \/
           (m.batch = b /\ m.kind \in {"update_release", "update_reserve"})
    BY <1>4, MadeIs
  <2>2. \A c, k : c # b \/ k \notin {"update_release", "update_reserve"} =>
           Moves(c, k)' = Moves(c, k) /\ MovedLines(c, k)' = MovedLines(c, k)
    BY <2>1 DEF Moves, MovedLines
  <2>3. \A c \in Batches \ {b} : LogOf(c)'
    BY <1>6, <2>2, LogKept DEF TransferInv, Log
  <2>4. LogOf(b)'
    <3>1. batch'[b].updates # 0
      BY <1>3, <1>6
    <3> QED BY <1>3, <1>6, <2>2, <3>1 DEF LogOf
  <2> QED BY <2>3, <2>4 DEF Log
<1>10. Loaded'
  BY <1>1, <1>4, <1>6, CommitFacts, DoneLoaded DEF TransferInv, CommitUpdate
<1>11. ReservedMatchesPending'
  <2>1. ASSUME batch'[b].updates < 2, NEW z \in Branches
        PROVE  stock'[z].rs = stock[z].rs + Waiting(b, z)' - Waiting(b, z)
    <3>1. batch[b].updates = 0
      BY <1>3, <1>6, <2>1
    <3>2. Moves(b, "update_release") = {} /\ Moves(b, "update_reserve") = {}
      BY <1>3, <3>1 DEF LogOf
    <3>3. out = Total(lines) /\ in = Total(new)
      BY <3>2, MovedAll
    <3>4. /\ Waiting(b, z) = IF z = x THEN out ELSE 0
          /\ Waiting(b, z)' = IF z = y THEN in ELSE 0
      BY <1>2, <1>3, <1>6, <3>3 DEF Waiting
    <3> HIDE DEF out, in
    <3> QED BY <1>7, <1>8, <3>4
  <2>2. batch'[b].updates < 2 => batch[b].updates < 2
    BY <1>3, <1>6
  <2> QED BY <1>6, <2>1, <2>2, ReservedStep
<1>12. Goods' = Goods
  <2>1. Travelling(b) = 0 /\ Travelling(b)' = 0
    BY <1>3, <1>6 DEF Travelling
  <2>2. stock'[x].oh = stock[x].oh + Travelling(b) - Travelling(b)'
    BY <1>3, <1>8, <2>1
  <2> QED BY <1>3, <1>6, <1>8, <2>2, GoodsStep DEF TransferInv
<1> QED BY <1>9, <1>10, <1>11, <1>12 DEF TransferInv

\* A step that changes no batch, no movement and no reservation.
LEMMA NoBatchStep ==
  ASSUME TransferInv, TypeOK', Loaded', UNCHANGED <<batch, movements>>,
         \A x \in Branches : stock'[x].rs = stock[x].rs
  PROVE  TransferInv' /\ Units(With("in_transit"))' = Units(With("in_transit"))
<1>1. Log'
  BY DEF TransferInv, Log, LogOf, Moves, MovedLines, LinesOf
<1>2. Shipments' = Shipments /\ \A any : With(any)' = With(any)
  BY DEF Shipments, With
<1>3. \A x : Pending(x)' = Pending(x)
  BY <1>2 DEF Pending, Units
<1>4. ReservedMatchesPending'
  BY <1>3 DEF TransferInv, ReservedMatchesPending
<1>5. Units(With("in_transit"))' = Units(With("in_transit"))
  BY <1>2 DEF Units
<1> QED BY <1>1, <1>4, <1>5 DEF TransferInv

\* A request that fails leaves everything as it was.
LEMMA FailStep ==
  ASSUME OnePerBatch, TransferInv, TypeOK', NEW s \in Slots, Fail(s)
  PROVE  TransferInv' /\ Goods' = Goods
<1>1. Loaded'
  BY DoneLoaded DEF Fail, TransferInv
<1>2. TransferInv' /\ Units(With("in_transit"))' = Units(With("in_transit"))
  BY <1>1, NoBatchStep DEF Fail
<1> QED BY <1>2 DEF Goods, Fail

\* A sale takes one unit of goods and no reservation.
LEMMA SellStep ==
  ASSUME TransferInv, TypeOK', NEW x \in Branches, Sell(x)
  PROVE  TransferInv' /\ Goods' = Goods - 1 /\ UNCHANGED <<batch, movements>>
<1>1. UNCHANGED <<batch, movements, req>>
  BY DEF Sell
<1>2. Loaded'
  BY <1>1 DEF TransferInv, Loaded
<1>3. /\ stock'[x].oh = stock[x].oh - 1 /\ stock'[x].rs = stock[x].rs
      /\ \A y \in Branches \ {x} : stock'[y] = stock[y]
  BY SellType DEF Sell, TransferInv, TypeOK
<1>4. TransferInv' /\ Units(With("in_transit"))' = Units(With("in_transit"))
  BY <1>1, <1>2, <1>3, NoBatchStep
<1> DEFINE f == [y \in Branches |-> stock[y].oh]
           g == [y \in Branches |-> stock'[y].oh]
<1>5. /\ f \in [Branches -> Int] /\ DOMAIN g = Branches /\ DOMAIN f = Branches
      /\ \A y \in Branches : f[y] \in Int /\ g[y] \in Int
      /\ \A y \in Branches \ {x} : g[y] = f[y]
      /\ g[x] = f[x] - 1
  BY <1>3 DEF TransferInv, TypeOK
<1>6. Goods = SumFunction(f) + Units(With("in_transit"))
      /\ Goods' = SumFunction(g) + Units(With("in_transit"))'
  BY DEF Goods
<1>7. Units(With("in_transit")) \in Int
  <2>1. PICK S : S = With("in_transit")
    OBVIOUS
  <2>2. S \subseteq Batches /\ IsFiniteSet(S)
    BY <2>1, FS_Subset DEF With
  <2>3. \A b \in S : Shipments[b] \in Int
    BY <2>2, ShipmentType DEF TransferInv
  <2> QED BY <2>1, <2>2, <2>3, SumType DEF Units
<1> HIDE DEF f, g
<1>8. SumFunction(g) = SumFunction(f) + g[x] - f[x]
  BY <1>5, FunSumChange
<1>9. SumFunction(f) \in Int /\ f[x] \in Int
  BY <1>5, FunSumType
<1>10. Goods' = Goods - 1
  BY <1>4, <1>5, <1>6, <1>7, <1>8, <1>9
<1> QED BY <1>1, <1>4, <1>10

\* At the start no batch reserves or has moved anything.
LEMMA InitTransfer == Init => TransferInv
<1> SUFFICES ASSUME Init PROVE TransferInv
  OBVIOUS
<1>1. TypeOK
  BY InitType
<1>2. /\ \A b \in Batches : batch[b].status = "new" /\ batch[b].updates = 0
      /\ \A x \in Branches : stock[x].rs = 0
      /\ movements = {} /\ \A s \in Slots : req[s] = Idle
  BY DEF Init
<1>3. Loaded
  BY <1>2 DEF Loaded
<1>4. Log
  BY <1>2 DEF Log, LogOf, Moves
<1>5. ReservedMatchesPending
  <2>1. \A x : {b \in With("pending_dispatch") : batch[b].from = x} = {}
    BY <1>2 DEF With
  <2>2. \A x : Pending(x) = 0
    BY <2>1, SumOfNone DEF Pending, Units
  <2> QED BY <1>2, <2>2 DEF ReservedMatchesPending
<1> QED BY <1>1, <1>3, <1>4, <1>5 DEF TransferInv

\* Every step keeps the invariant and the goods, but for a sale.
LEMMA NextTransfer ==
  ASSUME OnePerBatch, TransferInv, [Next]_vars
  PROVE  /\ TransferInv'
         /\ Goods' = Goods \/ (Goods' = Goods - 1 /\ UNCHANGED <<batch, movements>>)
<1>1. TypeOK'
  BY NextType DEF TransferInv
<1>2. CASE UNCHANGED vars
  <2>1. Loaded'
    BY <1>2 DEF vars, TransferInv, Loaded
  <2>2. TransferInv' /\ Units(With("in_transit"))' = Units(With("in_transit"))
    BY <1>1, <1>2, <2>1, NoBatchStep DEF vars
  <2> QED BY <1>2, <2>2 DEF vars, Goods
<1>3. ASSUME NEW s \in Slots, NEW b \in Batches,
             NEW op \in {"update", "dispatch", "receive", "cancel"},
             NEW from \in Branches, NEW to \in Branches, NEW lines \in Seq(Nat), NEW status,
             status = IF op = "receive" THEN "in_transit" ELSE "pending_dispatch",
             op # "update" => from = batch[b].from /\ to = batch[b].to /\ lines = batch[b].lines,
             Load(s, op, b, status, from, to, lines)
      PROVE  TransferInv' /\ Goods' = Goods
  BY <1>1, <1>3, LoadStep
<1>4. CASE Next
  <2>1. TypeOK
    BY DEF TransferInv
  <2> QED BY <1>1, <1>3, <1>4, <2>1, NextInputs, CreateStep, UpdateStep, DispatchStep, ReceiveStep,
             CancelStep, FailStep, SellStep
<1> QED BY <1>2, <1>4

\* The invariant, as long as no two requests about one batch overlap.
THEOREM TransferInvariant ==
  Spec /\ []OnePerBatch => []TransferInv
<1>1. TransferInv /\ OnePerBatch /\ [Next]_vars => TransferInv'
  BY NextTransfer
<1> QED BY <1>1, InitTransfer, PTL DEF Spec

\* Reserved stock is what pending batches wait to ship, until a batch is
\* updated twice (app/services/transfer_service.py), as long as no two requests
\* about one batch overlap; requests about different batches may.
THEOREM ReservedIsPending ==
  Spec /\ []OnePerBatch => []ReservedMatchesPending
<1>1. TransferInv => ReservedMatchesPending
  BY DEF TransferInv
<1> QED BY <1>1, TransferInvariant, PTL

\* What a batch has received is, line by line, what was shipped for it.
THEOREM ReceivedWasShipped ==
  Spec /\ []OnePerBatch => []ReceivedAsShipped
<1>1. TransferInv => ReceivedAsShipped
  BY DEF TransferInv, Log, LogOf, MovedLines, Moves, LinesOf, ReceivedAsShipped, With
<1> QED BY <1>1, TransferInvariant, PTL

\* Goods are on a shelf or on the way: only a sale takes any.
THEOREM GoodsAreConserved ==
  Spec /\ []OnePerBatch => GoodsConserved
<1>1. TransferInv /\ OnePerBatch /\ [Next]_vars =>
         [Goods' = Goods \/ (Goods' = Goods - 1 /\ UNCHANGED <<batch, movements>>)]_vars
  BY NextTransfer
<1> QED BY <1>1, TransferInvariant, PTL DEF Spec, GoodsConserved
=============================================================================

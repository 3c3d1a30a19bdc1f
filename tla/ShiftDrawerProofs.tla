------------------------- MODULE ShiftDrawerProofs -------------------------
(***************************************************************************)
(* Proofs about ShiftDrawer, for any number of shifts, terminals, requests *)
(* and events: type correctness, that the expected cash of a shift is its  *)
(* float and the sum of its events, and that a shift is closed once.       *)
(***************************************************************************)
EXTENDS ShiftDrawer, FiniteSums

USE DrawerAssumption

\* The state before a shift exists is none of the others.
LEMMA ShiftCases ==
  ASSUME TypeOK, NEW x \in Shifts
  PROVE  \/ shift[x] = Absent /\ shift[x].status = "none"
         \/ /\ shift[x] \in [status : {"open"}, terminal : Terminals, float : Nat,
                             expected : Int]
            /\ shift[x].status = "open"
         \/ /\ shift[x] \in [status : {"closed"}, terminal : Terminals, float : Nat,
                             expected : Int, declared : Nat, variance : Int]
            /\ shift[x].status = "closed"
<1>1. shift[x] \in Shift
  BY DEF TypeOK
<1> QED BY <1>1 DEF Shift, Absent

\* The signed amount of an event is an integer.
LEMMA DeltaType ==
  ASSUME NEW type \in EventTypes, NEW amount \in Nat
  PROVE  Delta(type, amount) \in Int
BY DEF Delta

\* Adding to the expected cash of an existing shift leaves the rest of its row.
LEMMA RecordShift ==
  ASSUME TypeOK, NEW x \in Shifts, shift[x].status # "none", NEW d \in Int,
         shift' = [shift EXCEPT ![x].expected = @ + d]
  PROVE  /\ shift' \in [Shifts -> Shift]
         /\ \A y \in Shifts : shift'[y].status = shift[y].status
         /\ \A y \in Shifts \ {x} : shift'[y] = shift[y]
         /\ shift'[x].expected = shift[x].expected + d /\ shift'[x].float = shift[x].float
         /\ shift[x].status = "closed" =>
               /\ shift'[x].declared = shift[x].declared
               /\ shift'[x].variance = shift[x].variance
<1>1. shift \in [Shifts -> Shift]
  BY DEF TypeOK
<1>2. shift' = [shift EXCEPT ![x] = [shift[x] EXCEPT !.expected = shift[x].expected + d]]
  OBVIOUS
<1>3. CASE shift[x].status = "open"
  <2>1. shift[x] \in [status : {"open"}, terminal : Terminals, float : Nat, expected : Int]
    BY <1>3, ShiftCases
  <2>2. [shift[x] EXCEPT !.expected = shift[x].expected + d]
           \in [status : {"open"}, terminal : Terminals, float : Nat, expected : Int]
    BY <2>1
  <2> QED BY <1>1, <1>2, <1>3, <2>1, <2>2 DEF Shift
<1>4. CASE shift[x].status = "closed"
  <2>1. shift[x] \in [status : {"closed"}, terminal : Terminals, float : Nat,
                      expected : Int, declared : Nat, variance : Int]
    BY <1>4, ShiftCases
  <2>2. [shift[x] EXCEPT !.expected = shift[x].expected + d]
           \in [status : {"closed"}, terminal : Terminals, float : Nat,
                expected : Int, declared : Nat, variance : Int]
    BY <2>1
  <2> QED BY <1>1, <1>2, <1>4, <2>1, <2>2 DEF Shift
<1> QED BY <1>3, <1>4, ShiftCases

\* What a request has read, by what it does.
LEMMA RequestCases ==
  ASSUME TypeOK, NEW s \in Slots
  PROVE  /\ req[s] \in Request
         /\ req[s].op = "open" =>
               req[s] \in [op : {"open"}, shift : Shifts, terminal : Terminals, float : Nat]
         /\ req[s].op = "expense" =>
               req[s] \in [op : {"expense"}, shift : Shifts, amount : Nat, read : Int]
         /\ req[s].op = "close" =>
               req[s] \in [op : {"close"}, shift : Shifts, declared : Nat, expected : Int]
<1>1. req[s] \in Request
  BY DEF TypeOK
<1> QED BY <1>1 DEF Request, Idle

\* A finished request leaves the others.
LEMMA DoneType ==
  ASSUME TypeOK, NEW s \in Slots, Done(s)
  PROVE  /\ req' \in [Slots -> Request] /\ req'[s].op = "idle"
         /\ \A t \in Slots \ {s} : req'[t] = req[t]
BY DEF TypeOK, Done, Request, Idle

\* What is known besides the types: the events are finitely many, numbered up
\* to their number, and events and requests are of shifts that were opened.
Known ==
    /\ IsFiniteSet(events)
    /\ \A e \in events : e.id <= Cardinality(events) /\ shift[e.shift].status # "none"
    /\ \A s \in Slots :
          req[s].op \in {"expense", "close"} => shift[req[s].shift].status # "none"

\* Recording an event of an opened shift, whoever does it: the event is new,
\* and everything the invariant says of events and shifts is kept.
LEMMA RecordStep ==
  ASSUME TypeOK, Known, NEW x \in Shifts, shift[x].status # "none",
         NEW type \in EventTypes, NEW amount \in Nat, Record(x, type, amount)
  PROVE  /\ shift' \in [Shifts -> Shift] /\ events' \subseteq Event
         /\ IsFiniteSet(events')
         /\ \A e \in events' : e.id <= Cardinality(events')
         /\ \A e \in events' : shift'[e.shift].status # "none"
         /\ \A y \in Shifts : shift'[y].status = shift[y].status
         /\ DrawerAddsUp => DrawerAddsUp'
<1> DEFINE n == Cardinality(events)
           e == [id |-> n + 1, shift |-> x, type |-> type, amount |-> amount]
           d == Delta(type, amount)
<1>1. n \in Nat /\ n < MaxEvents
  BY FS_CardinalityType DEF Known, Record
<1>2. e \in Event
  BY <1>1 DEF Event
<1>3. events' = events \cup {e} /\ e \notin events
  BY <1>1 DEF Record, Known
<1>4. IsFiniteSet(events') /\ Cardinality(events') = n + 1
  BY <1>3, FS_AddElement DEF Known
<1>5. d \in Int
  BY DeltaType
<1>6. /\ shift' \in [Shifts -> Shift]
      /\ \A y \in Shifts : shift'[y].status = shift[y].status
      /\ \A y \in Shifts \ {x} : shift'[y] = shift[y]
      /\ shift'[x].expected = shift[x].expected + d /\ shift'[x].float = shift[x].float
  BY <1>5, RecordShift DEF Record
<1>7. \A g \in events : g.id \in Nat /\ g.shift \in Shifts
  BY DEF TypeOK, Event
<1>8. \A g \in events' : g.id <= Cardinality(events') /\ shift'[g.shift].status # "none"
  BY <1>1, <1>3, <1>4, <1>6, <1>7 DEF Known
<1>9. ASSUME DrawerAddsUp, NEW y \in Shifts, shift'[y].status # "none"
      PROVE  shift'[y].expected = shift'[y].float + SumFunctionOnSet(Deltas', Recorded(y)')
  <2>1. shift[y].expected = shift[y].float + SumFunctionOnSet(Deltas, Recorded(y))
    BY <1>6, <1>9 DEF DrawerAddsUp
  <2>2. \A g \in events : Deltas[g] \in Int /\ Deltas'[g] = Deltas[g]
    BY <1>3, DeltaType DEF Deltas, TypeOK, Event
  <2>3. IsFiniteSet(Recorded(y)) /\ Recorded(y) \subseteq events
    BY FS_Subset DEF Known, Recorded
  <2>4. SumFunctionOnSet(Deltas', Recorded(y)) = SumFunctionOnSet(Deltas, Recorded(y))
    BY <2>2, <2>3, SumSame
  <2>5. SumFunctionOnSet(Deltas, Recorded(y)) \in Int
    BY <2>2, <2>3, SumType
  <2>6. CASE y = x
    <3>1. Recorded(x)' = Recorded(x) \cup {e} /\ e \notin Recorded(x)
      BY <1>3 DEF Recorded
    <3>2. Deltas'[e] = d
      BY <1>3 DEF Deltas
    <3>3. \A g \in Recorded(x) \cup {e} : Deltas'[g] \in Int
      BY <1>5, <2>2, <2>3, <2>6, <3>2
    <3>4. SumFunctionOnSet(Deltas', Recorded(x)') = SumFunctionOnSet(Deltas', Recorded(x)) + d
      BY <2>3, <2>6, <3>1, <3>2, <3>3, SumIn
    <3>5. shift[x].expected \in Int /\ shift[x].float \in Int
      BY ShiftCases
    <3> QED BY <1>5, <1>6, <2>1, <2>4, <2>5, <2>6, <3>4, <3>5
  <2>7. CASE y # x
    <3>1. Recorded(y)' = Recorded(y)
      BY <1>3, <2>7 DEF Recorded
    <3> QED BY <1>6, <2>1, <2>4, <2>7, <3>1
  <2> QED BY <2>6, <2>7
<1> QED BY <1>2, <1>3, <1>4, <1>6, <1>8, <1>9 DEF TypeOK, DrawerAddsUp

-----------------------------------------------------------------------------
DrawerInv == TypeOK /\ Known /\ DrawerAddsUp

\* A shift whose row appears or changes, without an event, keeps the drawer
\* adding up when its float and expected cash stay, or it had no event.
LEMMA NoEventStep ==
  ASSUME DrawerInv, UNCHANGED events,
         \A x \in Shifts :
            \/ /\ shift'[x].status # "none" <=> shift[x].status # "none"
               /\ shift[x].status # "none" =>
                     /\ shift'[x].expected = shift[x].expected
                     /\ shift'[x].float = shift[x].float
            \/ /\ shift[x].status = "none" /\ shift'[x].status # "none"
               /\ shift'[x].expected = shift'[x].float /\ shift'[x].float \in Int
  PROVE  DrawerAddsUp' /\ \A e \in events' : shift'[e.shift].status # "none"
<1>1. Deltas' = Deltas /\ \A x \in Shifts : Recorded(x)' = Recorded(x)
  BY DEF Deltas, Recorded
<1>2. ASSUME NEW x \in Shifts, shift'[x].status # "none"
      PROVE  shift'[x].expected = shift'[x].float + SumFunctionOnSet(Deltas, Recorded(x))
  <2>1. CASE shift[x].status # "none"
    BY <1>2, <2>1 DEF DrawerInv, DrawerAddsUp
  <2>2. CASE shift[x].status = "none"
    <3>1. Recorded(x) = {}
      BY <2>2 DEF DrawerInv, Known, Recorded
    <3>2. SumFunctionOnSet(Deltas, Recorded(x)) = 0
      BY <3>1, SumOfNone
    <3>3. shift'[x].expected = shift'[x].float /\ shift'[x].float \in Int
      BY <1>2, <2>2
    <3> QED BY <3>2, <3>3
  <2> QED BY <2>1, <2>2
<1>3. \A e \in events : e.shift \in Shifts
  BY DEF DrawerInv, TypeOK, Event
<1> QED BY <1>1, <1>2, <1>3 DEF DrawerAddsUp, DrawerInv, Known

\* Reading, in any of the three requests, keeps the invariant.
LEMMA BeginStep ==
  ASSUME DrawerInv, NEW s \in Slots, Begin(s)
  PROVE  DrawerInv'
<1>1. UNCHANGED <<shift, events, reports>>
  BY DEF Begin, BeginOpen, BeginExpense, BeginClose, Read
<1>2. DrawerAddsUp' /\ \A e \in events' : shift'[e.shift].status # "none"
  BY <1>1, NoEventStep
<1>3. PICK x \in Shifts, r \in Request :
         /\ req' = [req EXCEPT ![s] = r]
         /\ r.op \in {"expense", "close"} => r.shift = x /\ shift[x].status # "none"
  <2>1. ASSUME NEW x \in Shifts, NEW t \in Terminals, NEW f \in Floats, BeginOpen(s, x, t, f)
        PROVE  \E r \in Request : req' = [req EXCEPT ![s] = r] /\ r.op = "open"
    <3> DEFINE r == [op |-> "open", shift |-> x, terminal |-> t, float |-> f]
    <3>1. r \in Request /\ r.op = "open"
      BY DEF Request
    <3>2. req' = [req EXCEPT ![s] = r]
      BY <2>1 DEF BeginOpen, Read
    <3> HIDE DEF r
    <3> QED BY <3>1, <3>2
  <2>2. ASSUME NEW x \in Shifts, NEW a \in Amounts, BeginExpense(s, x, a)
        PROVE  \E r \in Request : /\ req' = [req EXCEPT ![s] = r]
                                  /\ r.shift = x /\ shift[x].status # "none"
    <3>1. shift[x].expected \in Int
      BY <2>2, ShiftCases DEF DrawerInv, BeginExpense
    <3> DEFINE r == [op |-> "expense", shift |-> x, amount |-> a, read |-> shift[x].expected]
    <3>2. r \in Request /\ r.shift = x
      BY <3>1 DEF Request
    <3>3. req' = [req EXCEPT ![s] = r] /\ shift[x].status # "none"
      BY <2>2 DEF BeginExpense, Read
    <3> HIDE DEF r
    <3> QED BY <3>2, <3>3
  <2>3. ASSUME NEW x \in Shifts, NEW d \in Counts, BeginClose(s, x, d)
        PROVE  \E r \in Request : /\ req' = [req EXCEPT ![s] = r]
                                  /\ r.shift = x /\ shift[x].status # "none"
    <3>1. shift[x].expected \in Int
      BY <2>3, ShiftCases DEF DrawerInv, BeginClose
    <3> DEFINE r == [op |-> "close", shift |-> x, declared |-> d,
                     expected |-> shift[x].expected]
    <3>2. r \in Request /\ r.shift = x
      BY <3>1 DEF Request
    <3>3. req' = [req EXCEPT ![s] = r] /\ shift[x].status # "none"
      BY <2>3 DEF BeginClose, Read
    <3> HIDE DEF r
    <3> QED BY <3>2, <3>3
  <2> QED BY <2>1, <2>2, <2>3 DEF Begin
<1> QED BY <1>1, <1>2, <1>3 DEF DrawerInv, TypeOK, Known

\* Opening a shift starts its sum.
LEMMA CommitOpenStep ==
  ASSUME DrawerInv, NEW s \in Slots, CommitOpen(s)
  PROVE  DrawerInv'
<1> DEFINE r == req[s]
           row == [status |-> "open", terminal |-> r.terminal, float |-> r.float,
                   expected |-> r.float]
<1>1. r \in [op : {"open"}, shift : Shifts, terminal : Terminals, float : Nat]
  BY RequestCases DEF DrawerInv, CommitOpen
<1>2. /\ shift' = [shift EXCEPT ![r.shift] = row] /\ UNCHANGED <<events, reports>>
      /\ shift[r.shift] = Absent
  BY DEF CommitOpen
<1>3. row \in Shift /\ row.status = "open" /\ row.expected = row.float /\ row.float \in Int
  BY <1>1 DEF Shift
<1>4. DrawerAddsUp' /\ \A e \in events' : shift'[e.shift].status # "none"
  BY <1>1, <1>2, <1>3, NoEventStep DEF DrawerInv, TypeOK, Absent
<1>5. /\ req' \in [Slots -> Request] /\ req'[s].op = "idle"
      /\ \A t \in Slots \ {s} : req'[t] = req[t]
  BY DoneType DEF DrawerInv, CommitOpen
<1>6. TypeOK'
  BY <1>1, <1>2, <1>3, <1>5 DEF DrawerInv, TypeOK
<1>7. ASSUME NEW t \in Slots, req'[t].op \in {"expense", "close"}
      PROVE  shift'[req'[t].shift].status # "none"
  <2>1. t # s /\ req'[t] = req[t]
    BY <1>5, <1>7
  <2>2. shift[req[t].shift].status # "none" /\ req[t].shift \in Shifts
    BY <1>7, <2>1, RequestCases DEF DrawerInv, Known
  <2> QED BY <1>1, <1>2, <1>3, <2>1, <2>2 DEF DrawerInv, TypeOK
<1> QED BY <1>2, <1>4, <1>6, <1>7 DEF DrawerInv, Known

\* An expense of a shift that was open is one event more.
LEMMA CommitExpenseStep ==
  ASSUME DrawerInv, NEW s \in Slots, CommitExpense(s)
  PROVE  DrawerInv'
<1> DEFINE r == req[s]
<1>1. r \in [op : {"expense"}, shift : Shifts, amount : Nat, read : Int]
  BY RequestCases DEF DrawerInv, CommitExpense
<1>2. shift[r.shift].status # "none" /\ Record(r.shift, "payout", r.amount)
  BY DEF DrawerInv, Known, CommitExpense
<1>3. "payout" \in EventTypes
  BY DEF EventTypes
<1>4. /\ shift' \in [Shifts -> Shift] /\ events' \subseteq Event
      /\ IsFiniteSet(events')
      /\ \A e \in events' : e.id <= Cardinality(events')
      /\ \A e \in events' : shift'[e.shift].status # "none"
      /\ \A y \in Shifts : shift'[y].status = shift[y].status
      /\ DrawerAddsUp'
  <2> HIDE DEF r
  <2> QED BY <1>1, <1>2, <1>3, RecordStep DEF DrawerInv
<1>5. /\ req' \in [Slots -> Request] /\ req'[s].op = "idle"
      /\ \A t \in Slots \ {s} : req'[t] = req[t]
  BY DoneType DEF DrawerInv, CommitExpense
<1>6. UNCHANGED reports
  BY DEF CommitExpense
<1>7. ASSUME NEW t \in Slots, req'[t].op \in {"expense", "close"}
      PROVE  shift'[req'[t].shift].status # "none"
  <2>1. t # s /\ req'[t] = req[t]
    BY <1>5, <1>7
  <2>2. shift[req[t].shift].status # "none" /\ req[t].shift \in Shifts
    BY <1>7, <2>1, RequestCases DEF DrawerInv, Known
  <2> QED BY <1>4, <2>1, <2>2
<1> QED BY <1>4, <1>5, <1>6, <1>7 DEF DrawerInv, TypeOK, Known

\* So is an event of an open shift.
LEMMA AddCashEventStep ==
  ASSUME DrawerInv, NEW x \in Shifts, NEW type \in Types, NEW amount \in Amounts,
         AddCashEvent(x, type, amount)
  PROVE  DrawerInv'
<1>1. type \in EventTypes /\ amount \in Nat /\ shift[x].status # "none"
  BY DEF AddCashEvent
<1>2. /\ shift' \in [Shifts -> Shift] /\ events' \subseteq Event
      /\ IsFiniteSet(events')
      /\ \A e \in events' : e.id <= Cardinality(events')
      /\ \A e \in events' : shift'[e.shift].status # "none"
      /\ \A y \in Shifts : shift'[y].status = shift[y].status
      /\ DrawerAddsUp'
  BY <1>1, RecordStep DEF DrawerInv, AddCashEvent
<1>3. UNCHANGED <<reports, req>>
  BY DEF AddCashEvent
<1>4. ASSUME NEW t \in Slots, req[t].op \in {"expense", "close"}
      PROVE  shift'[req[t].shift].status # "none"
  BY <1>2, <1>4, RequestCases DEF DrawerInv, Known
<1> QED BY <1>2, <1>3, <1>4 DEF DrawerInv, TypeOK, Known

\* The row of a closed shift keeps its float and its expected cash.
LEMMA ClosedRow ==
  ASSUME TypeOK, NEW x \in Shifts, shift[x].status # "none",
         NEW r \in [op : {"close"}, shift : Shifts, declared : Nat, expected : Int]
  PROVE  /\ Closed(shift[x], r) \in Shift /\ Closed(shift[x], r).status = "closed"
         /\ Closed(shift[x], r).expected = shift[x].expected
         /\ Closed(shift[x], r).float = shift[x].float
         /\ Closed(shift[x], r).declared = r.declared
         /\ Closed(shift[x], r).variance = r.declared - r.expected
<1>1. /\ shift[x].terminal \in Terminals /\ shift[x].float \in Nat
      /\ shift[x].expected \in Int /\ r.declared \in Nat /\ r.declared - r.expected \in Int
  BY ShiftCases
<1> QED BY <1>1 DEF Closed, Shift

\* Closing a shift posts no event.
LEMMA CommitCloseStep ==
  ASSUME DrawerInv, NEW s \in Slots, CommitClose(s)
  PROVE  DrawerInv'
<1> DEFINE r == req[s]
           row == Closed(shift[r.shift], r)
<1>1. r \in [op : {"close"}, shift : Shifts, declared : Nat, expected : Int]
  BY RequestCases DEF DrawerInv, CommitClose
<1>2. /\ shift' = [shift EXCEPT ![r.shift] = row] /\ UNCHANGED events
      /\ reports' = reports \cup {ReportOf(s, r)}
  BY DEF CommitClose
<1>3. shift[r.shift].status # "none"
  BY DEF DrawerInv, Known, CommitClose
<1>4. /\ row \in Shift /\ row.status = "closed"
      /\ row.expected = shift[r.shift].expected /\ row.float = shift[r.shift].float
  BY <1>1, <1>3, ClosedRow DEF DrawerInv
<1>5. DrawerAddsUp' /\ \A e \in events' : shift'[e.shift].status # "none"
  <2> HIDE DEF row
  <2> QED BY <1>1, <1>2, <1>3, <1>4, NoEventStep DEF DrawerInv, TypeOK
<1>6. /\ req' \in [Slots -> Request] /\ req'[s].op = "idle"
      /\ \A t \in Slots \ {s} : req'[t] = req[t]
  BY DoneType DEF DrawerInv, CommitClose
<1>7. ReportOf(s, r) \in Report
  BY <1>1 DEF ReportOf, Report
<1>8. TypeOK'
  BY <1>1, <1>2, <1>4, <1>6, <1>7 DEF DrawerInv, TypeOK
<1>9. ASSUME NEW t \in Slots, req'[t].op \in {"expense", "close"}
      PROVE  shift'[req'[t].shift].status # "none"
  <2>1. t # s /\ req'[t] = req[t]
    BY <1>6, <1>9
  <2>2. shift[req[t].shift].status # "none" /\ req[t].shift \in Shifts
    BY <1>9, <2>1, RequestCases DEF DrawerInv, Known
  <2> QED BY <1>1, <1>2, <1>4, <2>1, <2>2 DEF DrawerInv, TypeOK
<1> QED BY <1>2, <1>5, <1>8, <1>9 DEF DrawerInv, Known

\* A rolled back request leaves nothing.
LEMMA FailStep ==
  ASSUME DrawerInv, NEW s \in Slots, Fail(s)
  PROVE  DrawerInv'
<1>1. UNCHANGED <<shift, events, reports>>
  BY DEF Fail
<1>2. DrawerAddsUp' /\ \A e \in events' : shift'[e.shift].status # "none"
  BY <1>1, NoEventStep
<1>3. /\ req' \in [Slots -> Request] /\ req'[s].op = "idle"
      /\ \A t \in Slots \ {s} : req'[t] = req[t]
  BY DoneType DEF DrawerInv, Fail
<1> QED BY <1>1, <1>2, <1>3 DEF DrawerInv, TypeOK, Known

\* The types, and that the drawer adds up, hold in every reachable state.
LEMMA DrawerInvariant == Spec => []DrawerInv
<1>1. Init => DrawerInv
  <2> SUFFICES ASSUME Init PROVE DrawerInv
    OBVIOUS
  <2>1. IsFiniteSet({})
    BY FS_EmptySet
  <2> QED BY <2>1 DEF Init, DrawerInv, TypeOK, Known, DrawerAddsUp, Shift, Absent, Request, Idle
<1>2. DrawerInv /\ [Next]_vars => DrawerInv'
  <2> SUFFICES ASSUME DrawerInv, [Next]_vars PROVE DrawerInv'
    OBVIOUS
  <2>1. ASSUME NEW s \in Slots, Begin(s) \/ Finish(s) PROVE DrawerInv'
    BY <2>1, BeginStep, CommitOpenStep, CommitExpenseStep, CommitCloseStep, FailStep DEF Finish
  <2>2. ASSUME NEW x \in Shifts, NEW type \in Types, NEW amount \in Amounts,
               AddCashEvent(x, type, amount)
        PROVE  DrawerInv'
    BY <2>2, AddCashEventStep
  <2>3. CASE UNCHANGED vars
    BY <2>3 DEF vars, DrawerInv, TypeOK, Known, DrawerAddsUp, Deltas, Recorded
  <2> QED BY <2>1, <2>2, <2>3 DEF Next
<1> QED BY <1>1, <1>2, PTL DEF Spec

\* Type correctness of the shifts, the events, the reports and the requests.
THEOREM TypeCorrect == Spec => []TypeOK
<1>1. DrawerInv => TypeOK
  BY DEF DrawerInv
<1> QED BY <1>1, DrawerInvariant, PTL

\* The expected cash of a shift is its float and the sum of its events.
THEOREM ExpectedIsSumOfEvents == Spec => []DrawerAddsUp
<1>1. DrawerInv => DrawerAddsUp
  BY DEF DrawerInv
<1> QED BY <1>1, DrawerInvariant, PTL

-----------------------------------------------------------------------------
\* A step that leaves status, declared cash and variance of the shifts, and the
\* reports, leaves what the reports say.
LEMMA SameReports ==
  ASSUME ReportsAgree, UNCHANGED reports,
         \A x \in Shifts :
            /\ shift'[x].status = "closed" <=> shift[x].status = "closed"
            /\ shift[x].status = "closed" =>
                  /\ shift'[x].declared = shift[x].declared
                  /\ shift'[x].variance = shift[x].variance
  PROVE  ReportsAgree'
BY DEF ReportsAgree

\* Closing leaves one report of the shift, with what is stored in its row.
LEMMA CloseReports ==
  ASSUME DrawerInv, ReportsAgree, NEW s \in Slots, CommitClose(s)
  PROVE  ReportsAgree'
<1> DEFINE r == req[s]
           row == Closed(shift[r.shift], r)
           z == ReportOf(s, r)
<1>1. r \in [op : {"close"}, shift : Shifts, declared : Nat, expected : Int]
  BY RequestCases DEF DrawerInv, CommitClose
<1>2. /\ shift' = [shift EXCEPT ![r.shift] = row] /\ reports' = reports \cup {z}
      /\ ~\E y \in reports : y.shift = r.shift
  BY DEF CommitClose
<1>3. row.status = "closed" /\ row.declared = z.declared /\ row.variance = z.variance
  BY <1>1, ClosedRow DEF DrawerInv, Known, CommitClose, ReportOf
<1>4. z.shift = r.shift
  BY DEF ReportOf
<1> SUFFICES ASSUME NEW x \in Shifts
             PROVE  LET own == {y \in reports' : y.shift = x} IN
                    IF shift'[x].status # "closed" THEN own = {}
                    ELSE /\ Cardinality(own) = 1
                         /\ \A y \in own : /\ y.declared = shift'[x].declared
                                           /\ y.variance = shift'[x].variance
  BY DEF ReportsAgree
<1> HIDE DEF z, row, r
<1>5. CASE x = r.shift
  <2>1. {y \in reports' : y.shift = x} = {z}
    BY <1>2, <1>4, <1>5
  <2>2. Cardinality({z}) = 1
    BY FS_Singleton
  <2>3. shift'[x] = row
    BY <1>2, <1>5 DEF DrawerInv, TypeOK
  <2> QED BY <1>3, <2>1, <2>2, <2>3
<1>6. CASE x # r.shift
  <2>1. {y \in reports' : y.shift = x} = {y \in reports : y.shift = x}
    BY <1>2, <1>4, <1>6
  <2>2. shift'[x] = shift[x]
    BY <1>2, <1>6 DEF DrawerInv, TypeOK
  <2> QED BY <2>1, <2>2 DEF ReportsAgree
<1> QED BY <1>5, <1>6

\* A shift is closed by one request, and its row agrees with the report.
THEOREM ClosedOnce == Spec => []ReportsAgree
<1>1. Init => ReportsAgree
  BY DEF Init, ReportsAgree, Absent
<1>2. DrawerInv /\ ReportsAgree /\ [Next]_vars => ReportsAgree'
  <2> SUFFICES ASSUME DrawerInv, ReportsAgree, [Next]_vars PROVE ReportsAgree'
    OBVIOUS
  <2>1. ASSUME NEW s \in Slots, Begin(s) \/ Fail(s) PROVE ReportsAgree'
    BY <2>1, SameReports DEF Begin, BeginOpen, BeginExpense, BeginClose, Read, Fail
  <2>2. ASSUME NEW s \in Slots, CommitOpen(s) PROVE ReportsAgree'
    <3>1. /\ req[s].shift \in Shifts /\ shift[req[s].shift].status # "closed"
          /\ shift'[req[s].shift].status # "closed" /\ UNCHANGED reports
          /\ \A x \in Shifts \ {req[s].shift} : shift'[x] = shift[x]
      BY <2>2, RequestCases DEF CommitOpen, DrawerInv, TypeOK, Absent
    <3> QED BY <3>1, SameReports
  <2>3. ASSUME NEW x \in Shifts, NEW type \in EventTypes, NEW amount \in Nat,
               shift[x].status # "none", Record(x, type, amount), UNCHANGED reports
        PROVE  ReportsAgree'
    BY <2>3, RecordShift, DeltaType, SameReports DEF Record, DrawerInv
  <2>4. ASSUME NEW s \in Slots, CommitExpense(s) PROVE ReportsAgree'
    <3>1. req[s].shift \in Shifts /\ req[s].amount \in Nat /\ shift[req[s].shift].status # "none"
      BY <2>4, RequestCases DEF CommitExpense, DrawerInv, Known
    <3> QED BY <2>3, <2>4, <3>1 DEF CommitExpense, EventTypes
  <2>5. ASSUME NEW x \in Shifts, NEW type \in Types, NEW amount \in Amounts,
               AddCashEvent(x, type, amount)
        PROVE  ReportsAgree'
    BY <2>3, <2>5 DEF AddCashEvent
  <2>6. CASE UNCHANGED vars
    BY <2>6, SameReports DEF vars
  <2> QED BY <2>1, <2>2, <2>4, <2>5, <2>6, CloseReports DEF Next, Finish
<1> QED BY <1>1, <1>2, DrawerInvariant, PTL DEF Spec
=============================================================================

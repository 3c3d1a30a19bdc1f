----------------------------- MODULE ShiftDrawer -----------------------------
(***************************************************************************)
(* The cash drawer of a POS shift: app/services/shift_service.py, and the  *)
(* callers of add_cash_event (a sale at finalize, a refund of a return, an *)
(* expense of pos_expense_service.py).                                     *)
(*                                                                         *)
(* add_cash_event holds the row of the shift (SELECT ... FOR UPDATE) until *)
(* its request commits, so it is one step. Opening, closing and recording  *)
(* an expense read the shift without a lock: their request (Slots) reads   *)
(* in one step and commits in another.                                     *)
(***************************************************************************)
EXTENDS Integers, FiniteSets, Functions

CONSTANTS Shifts, Terminals, Slots,
          Types,     \* the event types that are posted
          Amounts,   \* amounts of an event, in cents
          Floats,    \* opening floats
          Counts,    \* declared cash at a close
          MaxEvents  \* bound: rows of pos_cash_events

EventTypes == {"sale", "adjust_in", "refund", "payout", "adjust_out"}

ASSUME DrawerAssumption ==
    /\ Types \subseteq EventTypes /\ Amounts \subseteq Nat
    /\ Floats \subseteq Nat /\ Counts \subseteq Nat /\ MaxEvents \in Nat

VARIABLES shift,   \* pos_shifts
          events,  \* pos_cash_events
          reports, \* z_reports
          req      \* what each request has read

vars == <<shift, events, reports, req>>

Absent == [status |-> "none"]

\* declared and variance are NULL until the shift is closed.
Shift == {Absent} \cup
    [status : {"open"}, terminal : Terminals, float : Nat, expected : Int] \cup
    [status : {"closed"}, terminal : Terminals, float : Nat, expected : Int,
     declared : Nat, variance : Int]

Event == [id : 1..MaxEvents, shift : Shifts, type : EventTypes, amount : Nat]

\* The id tells the reports of one shift apart.
Report == [shift : Shifts, by : Slots, expected : Int, declared : Nat, variance : Int]

Idle == [op |-> "idle"]

Request == {Idle} \cup
    [op : {"open"}, shift : Shifts, terminal : Terminals, float : Nat] \cup
    [op : {"expense"}, shift : Shifts, amount : Nat, read : Int] \cup
    [op : {"close"}, shift : Shifts, declared : Nat, expected : Int]

TypeOK ==
    /\ shift \in [Shifts -> Shift]
    /\ events \subseteq Event
    /\ reports \subseteq Report
    /\ req \in [Slots -> Request]

-----------------------------------------------------------------------------

Delta(type, amount) == IF type \in {"sale", "adjust_in"} THEN amount ELSE -amount

Open(terminal) == {x \in Shifts : shift[x].status = "open" /\ shift[x].terminal = terminal}

Free(s) == req[s] = Idle

Done(s) == req' = [req EXCEPT ![s] = Idle]

Read(s, request) ==
    /\ Free(s) /\ req' = [req EXCEPT ![s] = request]
    /\ UNCHANGED <<shift, events, reports>>

\* open_shift: refused when the terminal has an open shift.
BeginOpen(s, x, terminal, float) ==
    /\ shift[x] = Absent /\ Open(terminal) = {}
    /\ Read(s, [op |-> "open", shift |-> x, terminal |-> terminal, float |-> float])

\* The index refuses a second open shift of the terminal.
CommitOpen(s) ==
    LET r == req[s] IN
    /\ r.op = "open" /\ shift[r.shift] = Absent /\ Open(r.terminal) = {}
    /\ shift' = [shift EXCEPT ![r.shift] = [status |-> "open", terminal |-> r.terminal,
                                            float |-> r.float, expected |-> r.float]]
    /\ Done(s) /\ UNCHANGED <<events, reports>>

\* Insert the event and add it to expected_cash in the database.
Record(x, type, amount) ==
    /\ Cardinality(events) < MaxEvents
    /\ events' = events \cup {[id |-> Cardinality(events) + 1, shift |-> x,
                               type |-> type, amount |-> amount]}
    /\ shift' = [shift EXCEPT ![x].expected = @ + Delta(type, amount)]

\* add_cash_event in a request that has not read the shift before.
AddCashEvent(x, type, amount) ==
    /\ shift[x].status = "open"
    /\ Record(x, type, amount) /\ UNCHANGED <<reports, req>>

\* record_pos_expense reads the shift, which must be open.
BeginExpense(s, x, amount) ==
    /\ shift[x].status = "open"
    /\ Read(s, [op |-> "expense", shift |-> x, amount |-> amount, read |-> shift[x].expected])

\* Variant: expected_cash is computed from the value read before.
CommitExpenseOverwrites(s) ==
    LET r == req[s] IN
    /\ r.op = "expense" /\ Cardinality(events) < MaxEvents
    /\ events' = events \cup {[id |-> Cardinality(events) + 1, shift |-> r.shift,
                               type |-> "payout", amount |-> r.amount]}
    /\ shift' = [shift EXCEPT ![r.shift].expected = r.read + Delta("payout", r.amount)]
    /\ Done(s) /\ UNCHANGED reports

\* Then add_cash_event locks the row; the session keeps the object it has, with
\* the status it read, so that a shift closed meanwhile still takes the payout.
CommitExpense(s) ==
    LET r == req[s] IN
    /\ r.op = "expense"
    /\ Record(r.shift, "payout", r.amount)
    /\ Done(s) /\ UNCHANGED reports

\* close_shift reads status and expected_cash.
BeginClose(s, x, declared) ==
    /\ shift[x].status = "open"
    /\ Read(s, [op |-> "close", shift |-> x, declared |-> declared,
                expected |-> shift[x].expected])

Closed(row, r) ==
    [status |-> "closed", terminal |-> row.terminal, float |-> row.float,
     expected |-> row.expected, declared |-> r.declared, variance |-> r.declared - r.expected]

ReportOf(s, r) ==
    [shift |-> r.shift, by |-> s, expected |-> r.expected, declared |-> r.declared,
     variance |-> r.declared - r.expected]

\* Variant: z_reports.shift_id is not unique.
CommitCloseAgain(s) ==
    LET r == req[s] IN
    /\ r.op = "close"
    /\ shift' = [shift EXCEPT ![r.shift] = Closed(@, r)]
    /\ reports' = reports \cup {ReportOf(s, r)}
    /\ Done(s) /\ UNCHANGED events

\* Variant: the declared cash is left out of the update.
CommitCloseUndeclared(s) ==
    LET r == req[s] IN
    /\ r.op = "close" /\ ~\E z \in reports : z.shift = r.shift
    /\ shift' = [shift EXCEPT ![r.shift].status = "closed"]
    /\ reports' = reports \cup {ReportOf(s, r)}
    /\ Done(s) /\ UNCHANGED events

\* The columns written do not include expected_cash, which the events keep. A
\* second report of the shift is refused by its unique key.
CommitClose(s) ==
    LET r == req[s] IN
    /\ r.op = "close" /\ ~\E z \in reports : z.shift = r.shift
    /\ shift' = [shift EXCEPT ![r.shift] = Closed(@, r)]
    /\ reports' = reports \cup {ReportOf(s, r)}
    /\ Done(s) /\ UNCHANGED events

\* A request fails, at a unique key or in a posting, and is rolled back.
Fail(s) == ~Free(s) /\ Done(s) /\ UNCHANGED <<shift, events, reports>>

-----------------------------------------------------------------------------

Init ==
    /\ shift = [x \in Shifts |-> Absent]
    /\ events = {} /\ reports = {}
    /\ req = [s \in Slots |-> Idle]

Begin(s) ==
    \E x \in Shifts :
       \/ \E terminal \in Terminals, float \in Floats : BeginOpen(s, x, terminal, float)
       \/ \E amount \in Amounts : BeginExpense(s, x, amount)
       \/ \E declared \in Counts : BeginClose(s, x, declared)

Finish(s) == CommitOpen(s) \/ CommitExpense(s) \/ CommitClose(s) \/ Fail(s)

Next ==
    \/ \E s \in Slots : Begin(s) \/ Finish(s)
    \/ \E x \in Shifts, type \in Types, amount \in Amounts : AddCashEvent(x, type, amount)

Spec == Init /\ [][Next]_vars

-----------------------------------------------------------------------------

Recorded(x) == {e \in events : e.shift = x}

Deltas == [e \in events |-> Delta(e.type, e.amount)]

\* The expected cash of a shift, open or closed, is its float and the sum of
\* its events, whatever closes and expenses ran between them: add_cash_event
\* adds in the database, and close_shift does not write the column.
DrawerAddsUp ==
    \A x \in Shifts : shift[x].status # "none" =>
       shift[x].expected = shift[x].float + SumFunctionOnSet(Deltas, Recorded(x))

\* A shift is closed by one request: it has one Z report, and the cash declared
\* and the variance stored with the shift are those of the report, although two
\* requests may have read the open shift and closed it.
ReportsAgree ==
    \A x \in Shifts :
       LET own == {z \in reports : z.shift = x} IN
       IF shift[x].status # "closed" THEN own = {}
       ELSE /\ Cardinality(own) = 1
            /\ \A z \in own : z.declared = shift[x].declared /\ z.variance = shift[x].variance
=============================================================================

SPECIFICATION Spec
CONSTANTS
  l1 = l1
  Invoices = {1, 2}
  Lines = {l1}
  Requests = {r1, r2}
  Sold <- MCSold
  Price <- MCPrice
  Due <- MCDue
  MaxReturns = 2
  MaxPayments = 2
  None = None
INVARIANTS TypeOK BooksFollow SettledInTurn
SYMMETRY Symmetry
CHECK_DEADLOCK FALSE

SPECIFICATION Spec
CONSTANTS
  Invoice = {i1}
  Product = {responses, funds, seats}
  Responses = responses
  Delivery = {d1, d2, d3}
SYMMETRY Symmetry
INVARIANTS
  TypeOK ProcessedWasGranted PaymentSeesTargets
  RepeatedCallbackGrantsNothing
PROPERTY ImplementsLedger
CHECK_DEADLOCK FALSE

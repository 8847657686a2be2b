SPECIFICATION Spec
CONSTANTS
  Invoice = {i1}
  Product = {responses, funds}
  Responses = responses
  Delivery = {d1, d2}
SYMMETRY Symmetry
INVARIANT TargetGrantedOnce
CHECK_DEADLOCK FALSE

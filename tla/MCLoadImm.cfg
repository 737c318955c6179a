SPECIFICATION Spec
CONSTANTS
  Half = 16
  Operands <- MCOperands
INVARIANTS
  TypeOK
  ExpansionFillsReservation
  RegisterGetsOperand
\* An operand is assembled and executed once.
CHECK_DEADLOCK FALSE

CONSTANTS
  Octet = 4
  Word = 6
  Unseen <- UnseenFrom20
  Bad = Bad
  Absent = Absent
  Names <- SameVersionNames
  Exchange <- ExchangeNamed
SPECIFICATION Spec
INVARIANT AdditionsDelivered
CHECK_DEADLOCK FALSE

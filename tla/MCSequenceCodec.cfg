CONSTANTS
  Octet = 4
  Word = 6
  Unseen <- UnseenFrom20
  Bad = Bad
  Absent = Absent
  Names <- AllNames
  Exchange <- ExchangeNamed
SPECIFICATION Spec
INVARIANTS DecodedInType MembersInStep RootIntact
PROPERTY TransferSpec
CHECK_DEADLOCK FALSE

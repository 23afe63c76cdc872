CONSTANTS
  Fields <- SomeFields
  Skips <- SomeSkips
  MaxBits = 24
  MaxFields = 5
  Allocate <- DoublingFromOneOctet
SPECIFICATION Spec
INVARIANTS BufferCoversOffset MessageIntact
PROPERTY ChannelSpec

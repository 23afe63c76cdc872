CONSTANTS
  Types <- AllTypes
  Values <- AllValues
  Keywords <- OneKeyword
SPECIFICATION Spec
INVARIANTS KeptByJson OmissionIsLocal SchemaIsTrue
CHECK_DEADLOCK FALSE

SPECIFICATION Spec
CONSTANTS
  Requests <- MCRequests
  Schema <- MCSchema
  Units <- MCUnits
  Wide = 512
INVARIANTS
  DecodesExactly
  MaskExact
  CallFaithful

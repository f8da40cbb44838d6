CONSTANTS
  MDO_BITS = 6
  WordBits = 8
  HalfBits = 7
  Inputs <- MCInputs
SPECIFICATION Spec
INVARIANTS TypeOK RoundTrip PrefixTruncates EndsAtMark FieldsAreFresh

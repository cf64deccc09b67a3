SPECIFICATION Spec
CONSTANTS
  CHANNELS = 2
  Class <- ClassBits
  MAPPING <- AdapterMapping
INVARIANT PacketsPreserved

\* One connection, three requests, a buffer of four bytes, bodies of three.
SPECIFICATION FairSpec
CONSTANTS
  Scripts <- SentScripts
  Cap = 4
  BodyLimit = 3
INVARIANTS TypeOK InOrder RefusalsDeserved WaitsOnlyForClient BegunIsFinished
PROPERTIES ServedOrClosed DrainEnds

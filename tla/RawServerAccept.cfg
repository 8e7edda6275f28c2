\* The accept loop runs out of file descriptors.
SPECIFICATION Spec
CONSTANTS
  Scripts <- SentScripts
  Cap = 4
  BodyLimit = 3
INVARIANTS TransientSurvived

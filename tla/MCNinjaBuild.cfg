SPECIFICATION Spec
CONSTANTS
  ManifestEdges <- MCEdges
  Manifests <- MCManifests
  Parallelism = 2
INVARIANTS
  EachEdgeOnce
  InputsAreThere
  SuccessIsComplete
  NoOutputLeft
PROPERTIES
  BuildReturns

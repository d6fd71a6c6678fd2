SPECIFICATION Spec
CONSTANTS
  Ami = {a1, a2}
  Away = {a2}
  Nobody = Nobody
  m1 = m1
  m2 = m2
  bad = bad
  Manifest <- Manifests
  Malformed = {bad}
  Request = {r1}
  None = None
  MaxProbes = 1
  HostFaults = {"helper", "unlink", "rmtree"}
  Trees <- BakedTrees
INVARIANTS
  ServingIsMeasured
  FilesConfined
PROPERTY
  LeftoversReported

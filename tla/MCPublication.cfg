SPECIFICATION Spec
CONSTANTS
  topic = topic
  article = article
  t1 = t1
  a1 = a1
  a2 = a2
  tag = tag
  v1 = v1
  v2 = v2
  None = None
  Items <- MCItems
  Revisions <- MCRevisions
  Shared <- MCShared
  SharedValues <- MCSharedValues
  RevisionsOf <- MCRevisionsOf
  UsesOf <- MCUsesOf
  TargetsOf <- MCTargetsOf
  MaxGen = 3
  MaxAttempts = 2
  LatePuts = FALSE
SYMMETRY Symmetry
INVARIANTS
  StoredBytesNeverConflict
  PipelineInv
PROPERTIES
  KeepsPromise

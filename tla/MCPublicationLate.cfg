SPECIFICATION Spec
CONSTANTS
  topic = topic
  article = article
  t1 = t1
  a1 = a1
  None = None
  Items <- MCItems
  Revisions <- MCRevisions
  Shared <- MCShared
  SharedValues <- MCSharedValues
  RevisionsOf <- MCRevisionsOf
  UsesOf <- MCUsesOf
  TargetsOf <- MCTargetsOf
  MaxGen = 3
  MaxAttempts = 2
  LatePuts = TRUE
INVARIANTS
  LatestResolves

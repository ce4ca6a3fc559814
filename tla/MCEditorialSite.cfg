SPECIFICATION Spec
CONSTANTS
  ada = ada
  topic = topic
  first = first
  second = second
  s1 = s1
  s2 = s2
  None = None
  Users <- MCUsers
  Careers <- MCCareers
  Contents <- MCContents
  KindOf <- MCKindOf
  Slugs <- MCSlugs
  Forms <- MCForms
  MaxRevisions = 3
  MaxVersion = 4
CONSTRAINT InScope
INVARIANTS
  OneCanonicalPath
PROPERTIES
  RoutesArePermanent
  TopicsGoPublicWhole

SPECIFICATION Spec
CONSTANTS
  ada = ada
  rex = rex
  ed = ed
  post = post
  s1 = s1
  s2 = s2
  None = None
  Users <- MCUsers
  Careers <- MCCareers
  Contents <- MCContents
  KindOf <- MCKindOf
  Slugs <- MCSlugs
  Forms <- MCForms
  MaxRevisions = 2
  MaxVersion = 4
INVARIANTS
  ChecksHold
  SyncedIsPublished
  PublicIsVetted
PROPERTIES
  FeaturedIsAdmins
  RevisionsLiveOnce

SPECIFICATION AccessSpec
CONSTANTS
  Texts <- MCTexts
  Beginnings <- MCBeginnings
  Paths = {"a", "b"}
  Logins <- MCLogins
  Entries <- MCEntries
  InitialFiles <- MCInitialFiles
  Documents <- MCDocuments
  Targets <- MCTargets
  Parameters <- MCParameters
  DocRoot <- MCDocRoot
  Images <- MCImages
  GroupsIn <- MCGroupsIn
  Nobody = Nobody
ACTION_CONSTRAINT MCStopsFirst
INVARIANTS
  TypeOK
  SavedAsEdited
PROPERTIES
  TruncationLosesOnlyDeleted
  StartedAsEdited
  PagesComplete
  

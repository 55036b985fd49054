SPECIFICATION LibrarySpec
CONSTANTS
  Uploads = {u1, u2}
  Outputs = {}
  Holders = {r1}
  OwnerOf <- MCOwner
  Paths <- MCPaths
  OldFolders <- MCOld
  Quota = 3
  MaxEdits = 0
  NoDocument = NoDocument
INVARIANT FileAndFolderApart
CHECK_DEADLOCK FALSE

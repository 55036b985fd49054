--------------------------- MODULE MCLibraryPaths ---------------------------
(* Two uploads to paths of which one is the folder of the other.             *)
EXTENDS ProjectDocuments, TLC
MCOwner == <<>>
MCPaths == {<<"a">>, <<"a", "a">>}
MCOld == {}
=============================================================================

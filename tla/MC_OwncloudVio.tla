--------------------------- MODULE MC_OwncloudVio ---------------------------
(* Small instances of OwncloudVio for TLC: two names, a tree two levels   *)
(* deep in which the name 2 is both a top-level file and a file inside   *)
(* directory 1, one-byte files.                                           *)
EXTENDS OwncloudVio

MCNames == {1, 2}
MCRootName == 0
MCPaths == {<<>>, <<1>>, <<2>>, <<1, 2>>}
MCInitTree ==
    [p \in MCPaths |->
        CASE p = <<>>     -> DirNode
          [] p = <<1>>    -> DirNode
          [] p = <<2>>    -> FileNode(<<"x">>)
          [] p = <<1, 2>> -> FileNode(<<>>)
          [] OTHER        -> NoNode]
=============================================================================

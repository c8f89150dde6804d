------------------------------ MODULE MCCommand ------------------------------
(***************************************************************************)
(* A directory with a manifest of two documents, a nested directory and a  *)
(* file that is no manifest; a file that cannot be read and one without    *)
(* any document beside it; and a directory with one that cannot be listed. *)
(***************************************************************************)
EXTENDS FileSearch

MCNode == {"top", "top/a.yaml", "top/notes.txt", "top/sub", "top/sub/b.json",
           "locked.yaml", "void.yaml", "gone", "outer", "closed"}

MCKindOf ==
  [n \in MCNode |->
    CASE n \in {"top", "top/sub", "outer"} -> "dir"
      [] n = "top/notes.txt" -> "file"
      [] n = "gone" -> "missing"
      [] n = "closed" -> "unreadable"
      [] OTHER -> "manifest"]

MCChildren ==
  [n \in MCNode |->
    CASE n = "top" -> <<"top/a.yaml", "top/notes.txt", "top/sub">>
      [] n = "top/sub" -> <<"top/sub/b.json">>
      [] n = "outer" -> <<"void.yaml", "closed">>
      [] OTHER -> <<>>]

Content(readable, documents) == [readable |-> readable, documents |-> documents]

MCDocuments ==
  [n \in MCNode |->
    CASE n = "top/a.yaml" -> Content(TRUE, <<"object", "empty">>)
      [] n = "locked.yaml" -> Content(FALSE, <<>>)
      [] n = "void.yaml" -> Content(TRUE, <<>>)
      [] OTHER -> Content(TRUE, <<"object">>)]

MCArgs ==
  {<<>>, <<"top">>, <<"top/a.yaml", "top/a.yaml">>, <<"locked.yaml", "top/sub">>,
   <<"void.yaml", "top/notes.txt">>, <<"locked.yaml", "void.yaml">>, <<"top/a.yaml", "gone">>,
   <<"top", "outer">>}
=============================================================================

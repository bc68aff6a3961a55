-------------------------- MODULE MCDirectoryTree ---------------------------
(* Instances of DirectoryTree for TLC. *)
EXTENDS DirectoryTree

\* Three names, and one of them also in upper case.
LowerRdns == {"cn=a", "cn=b", "cn=c"}
MCRdns  == LowerRdns \cup {"cn=A"}
MCLower == [r \in Rdns |-> IF r = "cn=A" THEN "cn=a" ELSE r]
MCNames == {"a", "A", "b", "c"}
MCNameOf ==
  [r \in Rdns |-> CASE r = "cn=a" -> "a" [] r = "cn=A" -> "A"
                    [] r = "cn=b" -> "b" [] r = "cn=c" -> "c"]
a == "cn=a"
AA == "cn=A"
b == "cn=b"
c == "cn=c"

MCRow(up, path) ==
  [parent |-> up, name |-> MCNameOf[Last(path)], path |-> path,
   depth |-> Len(path)]

\* a, with b below it and c below b.
MCChain ==
  [i \in Ids |-> CASE i = 1 -> MCRow(NoParent, <<a>>)
                   [] i = 2 -> MCRow(1, <<a, b>>)
                   [] i = 3 -> MCRow(2, <<a, b, c>>)
                   [] OTHER -> Free]

\* The same with the top entry written A.
MCMixed ==
  [i \in Ids |-> CASE i = 1 -> MCRow(NoParent, <<AA>>)
                   [] i = 2 -> MCRow(1, <<AA, b>>)
                   [] OTHER -> Free]

LowerDns == {<<a>>, <<b>>, <<a, b>>, <<a, c>>, <<b, c>>, <<a, b, c>>, <<a, c, b>>,
             <<c, b, a>>, <<c>>, <<c, b>>}
AddedDns == {<<b>>, <<a, c>>, <<c, b>>, <<c, b, a>>}
MixedDns == {<<a>>, <<AA>>, <<AA, b>>, <<a, b>>, <<a, c>>}

\* Renames of entries at every level, and moves within a level.
MCRenames ==
  {<<d, r, NoSuperior>> : d \in {<<a>>, <<a, b>>, <<b>>, <<c, b>>, <<a, b, c>>},
                          r \in {b, c}}
  \cup {<<d, b, <<b>>>> : d \in {<<a, b>>, <<a, c>>, <<c, b>>}}
  \cup {<<<<b>>, c, BaseDn>>}
\* Renames and moves to the base, below another entry and below itself.
MCMoves ==
  {<<d, c, s>> : d \in {<<a>>, <<a, b>>, <<c>>},
                 s \in {NoSuperior, BaseDn, <<a, b>>}}
CrashAdds == {<<a, c>>, <<c, b>>}
CrashDeletes == {<<a>>, <<a, b>>, <<c>>}
MCMoveA == {<<<<AA>>, c, NoSuperior>>}

\* Requests differ only in what they begin with.
RequestSymmetry == Permutations(Requests)
=============================================================================

-------------------------------- MODULE MCSepol --------------------------------
(* Instances of Sepol: two types, a third that statements create, one      *)
(* class with a permission of its own and one from its common.             *)
EXTENDS Sepol

MCName == {"a", "b", "new", "newX", "Bad"}
MCCut == [n \in MCName |-> CASE n = "newX" -> "new" [] n = "Bad" -> "" [] OTHER -> n]
MCCutPerm == [x \in {"open", "read", "openX", "X", "*"} |->
                CASE x = "openX" -> "open" [] x = "X" -> "" [] OTHER -> x]
MCClass == {"file"}
MCOwn == [c \in MCClass |-> [p \in {"open"} |-> 1]]
MCCommon == [c \in MCClass |-> [p \in {"read"} |-> 0]]

Base ==
  [types |-> [n \in {"a", "b"} |-> IF n = "a" THEN 1 ELSE 2], nprim |-> 2,
   av |-> [k \in {<<1, 2, "file">>} |-> {0}], permissive |-> {1},
   roles |-> {1, 2}, attrs |-> <<{1}, {2}>>]

(* A longer policy, for the file.                                          *)
Longer ==
  [bxxt_sepol_create_domain(Base, "new") EXCEPT
     !.av = Insert(Insert(@, <<2, 1, "file">>, {1}), <<3, 3, "file">>, {0, 1})]

MCPolicies == {Base}
MCFiles == {<< >>, policydb_write(Longer), <<[k |-> "avtab", nel |-> 0]>>}

Stmt(op, src, tgt, perm) == [op |-> op, src |-> src, tgt |-> tgt, cls |-> "file", perm |-> perm]

(* A rule that exists and one that does not; a domain that does not exist  *)
(* until it is created; names that are cut, and one that does not scan.     *)
LiveStatements ==
  {Stmt("allow", "a", "b", "openX"), Stmt("disallow", "a", "b", "*"),
   Stmt("allow", "a", "new", "read"), Stmt("create", "newX", "a", "open"),
   Stmt("permissive", "new", "a", "open"), Stmt("enforce", "a", "a", "open"),
   Stmt("allow", "newX", "a", "open")}

Cmd(input, save, reload, stmt) ==
  [input |-> input, save |-> save, reload |-> reload, stmt |-> stmt]

(* Live commands; a file edited in place; the kernel's policy edited,      *)
(* saved and loaded; a file edited and loaded; the kernel's policy saved.  *)
MCCommands ==
  {Cmd("kernel", FALSE, TRUE, stmt) : stmt \in LiveStatements}
  \union {Cmd("file", TRUE, FALSE, Stmt("disallow", "b", "a", "read")),
          Cmd("kernel", TRUE, TRUE, Stmt("allow", "a", "b", "read")),
          Cmd("file", FALSE, TRUE, Stmt("permissive", "b", "a", "open")),
          Cmd("kernel", TRUE, FALSE, Stmt("create", "Bad", "a", "open"))}

(* Processes are interchangeable.                                          *)
ProcSymmetry == Permutations(Proc)

=============================================================================

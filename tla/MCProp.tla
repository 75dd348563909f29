--------------------------------- MODULE MCProp ---------------------------------
(* Instances of Prop: a read-only property and one the service updates, in *)
(* areas whose mappings touch each other and the one before.               *)
EXTENDS Prop

MCMaps ==
  <<[start |-> 1, end |-> 4, file |-> "libc"],
    [start |-> 4, end |-> 8, file |-> "u:debug"],
    [start |-> 8, end |-> 12, file |-> "u:default"]>>

MCAddr == [n \in {"debuggable", "sys"} |-> IF n = "debuggable" THEN 5 ELSE 9]

Set(tool, name, value) == [tool |-> tool, name |-> name, value |-> value]

(* A longer value, one of the maximal length and one more; a name that     *)
(* does not exist.                                                         *)
MCCommands ==
  {Set("setprop", "sys", <<2, 2>>), Set("setprop", "none", <<2>>),
   Set("setprop", "debuggable", <<2, 2, 2>>), Set("setprop", "debuggable", <<2, 2, 2, 2>>),
   Set("setdebuggable", "debuggable", <<2, 2>>)}

(* Readers and the service, or system_server and other processes.          *)
MCBudgets ==
  {[runs |-> 2, reads |-> 1, updates |-> 1, exits |-> 0, others |-> 0, faults |-> 0],
   [runs |-> 1, reads |-> 1, updates |-> 1, exits |-> 0, others |-> 0, faults |-> 1],
   [runs |-> 2, reads |-> 0, updates |-> 0, exits |-> 1, others |-> 1, faults |-> 1]}

MCNewValue == <<3>>

=============================================================================

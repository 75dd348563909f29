--------------------------------- MODULE Sepol ---------------------------------
(***************************************************************************)
(* `bxxt sepol': a policy is read from a file or from the kernel, one      *)
(* statement edits it, and it is written to a file, loaded into the        *)
(* kernel, or both.                                                        *)
(*                                                                         *)
(* Several commands may run at a time; one action per step of sepol_main   *)
(* that touches what they share.  A process may be killed between two      *)
(* steps, and each access to a file or to the kernel may fail.  A file is  *)
(* mapped, not copied: a load sees what others write while it parses.      *)
(***************************************************************************)
EXTENDS Integers, FiniteSets, SequencesExt

CONSTANTS
  Proc,        (* processes                                                *)
  Name,        (* names of types, as a statement may spell them            *)
  Cut, CutPerm,  (* what the scan sets leave of a name, of a permission    *)
  Class,       (* the classes of the policy                                *)
  OwnPerms, CommonPerms,  (* per class: permission -> bit                  *)
  Bits,        (* the bits of avtab_datum_t.data                           *)
  Command,     (* the command lines that may be given                      *)
  Policies,    (* the kernel's policy at boot                              *)
  Files,       (* what may lie at the path of the policy file              *)
  MaxRuns, MaxFaults   (* bounds: commands, failures                       *)

VARIABLES
  kernel,   (* the policy the kernel enforces                              *)
  file,     (* the policy file; an absent one is empty                     *)
  proc,     (* the processes                                               *)
  seen,     (* per process: what its mapping has held since it was opened  *)
  used,     (* commands and failures so far                                *)
  hist      (* history variable: only the properties read it               *)

vars == <<kernel, file, proc, seen, used, hist>>

-----------------------------------------------------------------------------
(* policydb_t, as far as sepol.c touches it.  types: the symbol table,     *)
(* name -> value; nprim: the last value given out; av: te_avtab, the       *)
(* allow rules, (source, target, class) -> permission bits; permissive:    *)
(* permissive_map; roles: the types every role may take; attrs:            *)
(* type_attr_map, indexed by value.                                        *)

Value == Nat \ {0}
Key == Value \X Value \X Class

(* A table of finitely many entries.                                       *)
IsTable(table, keys) ==
  /\ table = [x \in DOMAIN table |-> table[x]]
  /\ DOMAIN table \subseteq keys /\ IsFiniteSet(DOMAIN table)

IsPolicy(pol) ==
  /\ pol = [types |-> pol.types, nprim |-> pol.nprim, av |-> pol.av,
            permissive |-> pol.permissive, roles |-> pol.roles, attrs |-> pol.attrs]
  /\ IsTable(pol.types, Name) /\ \A n \in DOMAIN pol.types : pol.types[n] \in Value
  /\ IsTable(pol.av, Key) /\ \A k \in DOMAIN pol.av : pol.av[k] \subseteq Bits
  /\ pol.nprim \in Value /\ pol.permissive \subseteq Value /\ pol.roles \subseteq Value
  /\ pol.attrs \in Seq(SUBSET Value)

(* What the statements of sepol.c keep: each type has a value of its own,  *)
(* within nprim, its attributes and its roles, and rules and the           *)
(* permissive map speak of existing types only.                            *)
Consistent(pol) ==
  LET values == {pol.types[n] : n \in DOMAIN pol.types}
  IN  /\ Cardinality(values) = Cardinality(DOMAIN pol.types)
      /\ values = 1..pol.nprim /\ Len(pol.attrs) = pol.nprim
      /\ pol.permissive \subseteq values
      /\ \A v \in values : v \in pol.attrs[v] /\ v \in pol.roles
      /\ \A k \in DOMAIN pol.av : k[1] \in values /\ k[2] \in values

NoPolicy ==
  [types |-> << >>, nprim |-> 0, av |-> << >>, permissive |-> {},
   roles |-> {}, attrs |-> << >>]

(* hashtab_insert and avtab_insert: one more entry.                        *)
Insert(table, k, datum) ==
  [x \in DOMAIN table \union {k} |-> IF x = k THEN datum ELSE table[x]]

(* policydb_write: bitmaps and roles, the types, the rules, the attributes *)
(* of each type.  Tables carry their length, hash order is arbitrary.      *)
policydb_write(pol) ==
  LET rules == SetToSeq(DOMAIN pol.av)
      names == SetToSeq(DOMAIN pol.types)
  IN  <<[k |-> "head", permissive |-> pol.permissive, roles |-> pol.roles],
        [k |-> "types", nprim |-> pol.nprim, nel |-> Len(names)]>>
      \o [i \in 1..Len(names) |-> [k |-> "type", name |-> names[i], value |-> pol.types[names[i]]]]
      \o <<[k |-> "avtab", nel |-> Len(rules)]>>
      \o [i \in 1..Len(rules) |-> [k |-> "rule", key |-> rules[i], data |-> pol.av[rules[i]]]]
      \o [i \in 1..Len(pol.attrs) |-> [k |-> "attr", types |-> pol.attrs[i]]]

(* policydb_read: it stops after the last table, whatever follows, and     *)
(* takes no table without a rule.  Aliases of types are left out.          *)
AllOf(f, from, n, kind) ==
  from + n <= Len(f) /\ \A i \in (from + 1)..(from + n) : f[i].k = kind

DistinctIn(f, from, n, field) ==
  Cardinality({f[i][field] : i \in (from + 1)..(from + n)}) = n

IsImage(f) ==
  /\ AllOf(f, 0, 1, "head") /\ AllOf(f, 1, 1, "types")
  /\ LET n == f[2].nel IN
       /\ AllOf(f, 2, n, "type")
       /\ DistinctIn(f, 2, n, "name")
       /\ DistinctIn(f, 2, n, "value")
       /\ \A i \in 3..(n + 2) : f[i].value \in 1..f[2].nprim
       /\ AllOf(f, n + 2, 1, "avtab")
       /\ LET m == f[n + 3].nel IN
            /\ m # 0
            /\ AllOf(f, n + 3, m, "rule")
            /\ DistinctIn(f, n + 3, m, "key")
            /\ AllOf(f, n + m + 3, f[2].nprim, "attr")

policydb_read(f) ==
  LET n == f[2].nel
      m == f[n + 3].nel
      At(x) == CHOOSE c \in {f[i] : i \in 3..(n + 2)} : c.name = x
      Rule(x) == CHOOSE c \in {f[i] : i \in (n + 4)..(n + m + 3)} : c.key = x
  IN  [types |-> [x \in {f[i].name : i \in 3..(n + 2)} |-> At(x).value],
       nprim |-> f[2].nprim,
       av |-> [x \in {f[i].key : i \in (n + 4)..(n + m + 3)} |-> Rule(x).data],
       permissive |-> f[1].permissive, roles |-> f[1].roles,
       attrs |-> [i \in 1..f[2].nprim |-> f[n + m + 3 + i].types]]

(* The records of a file, and what a device may start with: the policy     *)
(* compiler wrote what the kernel enforces at boot and any image that lies *)
(* in the file.                                                            *)
Record ==
  [k : {"head"}, permissive : SUBSET Value, roles : SUBSET Value]
  \union [k : {"types"}, nprim : Value, nel : Nat]
  \union [k : {"type"}, name : Name, value : Value]
  \union [k : {"avtab"}, nel : Nat]
  \union [k : {"rule"}, key : Key, data : SUBSET Bits]
  \union [k : {"attr"}, types : SUBSET Value]

ASSUME DeviceAssumption ==
  /\ \A pol \in Policies : IsPolicy(pol) /\ Consistent(pol)
  /\ \A f \in Files : f \in Seq(Record) /\ (IsImage(f) => Consistent(policydb_read(f)))

(* A name is cut to a name or to nothing, and permissions are bits.        *)
ASSUME StatementAssumption ==
  /\ \A n \in Name : Cut[n] = "" \/ Cut[n] \in Name
  /\ \A cls \in Class :
       /\ \A perm \in DOMAIN OwnPerms[cls] : OwnPerms[cls][perm] \in Bits
       /\ \A perm \in DOMAIN CommonPerms[cls] : CommonPerms[cls][perm] \in Bits
  /\ \A cmd \in Command : cmd.stmt.src \in Name
  /\ MaxRuns \in Nat /\ MaxFaults \in Nat

(* The policy of a process: "init" after policydb_init, "freed" after a    *)
(* failed policydb_from_image has called policydb_destroy.                 *)
PdbState == {"init", "loaded", "freed"}
NoPdb == [st |-> "init", pol |-> NoPolicy]

(* Mutant: an empty policy is written too.                                 *)
Mut_policydb_to_image(pdb) == TRUE

(* policydb_to_image succeeds: policydb_write knows the policy's version,  *)
(* and its output reads back.                                              *)
policydb_to_image(pdb) == pdb.st = "loaded" /\ IsImage(policydb_write(pdb.pol))

-----------------------------------------------------------------------------
(* Statements.                                                             *)

BXXT_SUCCESS == 0
BXXT_FAILED == -25

Result(pol, r) == [pol |-> pol, r |-> r]

(* hashtab_search in the class's permissions, then in its common's.        *)
HasPerm(cls, perm) == perm \in DOMAIN OwnPerms[cls] \union DOMAIN CommonPerms[cls]

PermMask(cls, perm) ==
  IF perm = "*" THEN Bits
  ELSE {IF perm \in DOMAIN OwnPerms[cls] THEN OwnPerms[cls][perm] ELSE CommonPerms[cls][perm]}

(* Mutant: the rule is replaced, not extended.                             *)
Mut_NewData(old, mask, disallow) == IF disallow THEN {} ELSE mask

NewData(old, mask, disallow) == IF disallow THEN old \ mask ELSE old \union mask

(* bxxt_sepol_allow_ext.  A new rule copies a malloc'd datum nobody set.   *)
bxxt_sepol_allow_ext(pol, src, tgt, cls, perm, disallow) ==
  IF /\ cls \in Class /\ {src, tgt} \subseteq DOMAIN pol.types
     /\ perm = "*" \/ HasPerm(cls, perm)
  THEN LET k == <<pol.types[src], pol.types[tgt], cls>>
       IN  {Result([pol EXCEPT !.av = Insert(@, k, NewData(old, PermMask(cls, perm), disallow))],
                   BXXT_SUCCESS)
              : old \in IF k \in DOMAIN pol.av THEN {pol.av[k]} ELSE SUBSET Bits}
  ELSE {Result(pol, BXXT_FAILED)}

(* Mutant: the new type gets the last value again.                         *)
Mut_symtab_insert(pol, name) ==
  [pol EXCEPT !.types = Insert(@, name, pol.nprim)]

(* symtab_insert: the next value.                                          *)
symtab_insert(pol, name) ==
  [pol EXCEPT !.nprim = @ + 1, !.types = Insert(@, name, pol.nprim + 1)]

(* bxxt_sepol_create_domain.                                               *)
bxxt_sepol_create_domain(pol, domain) ==
  IF domain \in DOMAIN pol.types THEN pol
  ELSE LET value == pol.nprim + 1
       IN  [symtab_insert(pol, domain) EXCEPT !.attrs = Append(@, {value}),
                                              !.roles = @ \union {value}]

(* bxxt_sepol_set_permissive: creates a domain that is missing.            *)
bxxt_sepol_set_permissive(pol, domain, permissive) ==
  LET new == bxxt_sepol_create_domain(pol, domain)
      bit == new.types[domain]
  IN  [new EXCEPT !.permissive = IF permissive THEN @ \union {bit} ELSE @ \ {bit}]

(* The sscanf patterns of bxxt_sepol_execute_stmt: allow and disallow need *)
(* their first three names whole; what ends a pattern, a permission or a   *)
(* domain, may be cut.                                                     *)
Whole(n) == Cut[n] = n /\ n # ""

Scans(stmt) ==
  CASE stmt.op \in {"allow", "disallow"} ->
         Whole(stmt.src) /\ Whole(stmt.tgt) /\ CutPerm[stmt.perm] # ""
    [] stmt.op \in {"permissive", "enforce", "create"} -> Cut[stmt.src] # ""
    [] OTHER -> FALSE

(* bxxt_sepol_execute_stmt on a loaded policy.                             *)
bxxt_sepol_execute_stmt(pol, stmt) ==
  IF ~Scans(stmt) THEN {Result(pol, -1)}
  ELSE CASE stmt.op \in {"allow", "disallow"} ->
              bxxt_sepol_allow_ext(pol, stmt.src, stmt.tgt, stmt.cls, CutPerm[stmt.perm],
                                   stmt.op = "disallow")
         [] stmt.op = "create" ->
              {Result(bxxt_sepol_create_domain(pol, Cut[stmt.src]), BXXT_SUCCESS)}
         [] OTHER ->
              {Result(bxxt_sepol_set_permissive(pol, Cut[stmt.src], stmt.op = "permissive"),
                      BXXT_SUCCESS)}

-----------------------------------------------------------------------------
(* The command.                                                            *)

Idle == [pc |-> "idle"]

(* What statements that reached the kernel ask of it, by names: access     *)
(* that must be granted or denied, domains that must be permissive or      *)
(* enforced, domains that must exist.                                      *)
NoWant == [granted |-> {}, denied |-> {}, permissive |-> {}, enforced |-> {}, exist |-> {}]

(* saved: the policy of the last complete save; clean: nothing was written *)
(* after it; torn: a save was cut short, or a load took parts of several   *)
(* contents.  raced: a live command started from a policy that was no      *)
(* longer the kernel's when it wrote its own.                              *)
NoHist == [want |-> NoWant, raced |-> FALSE, torn |-> FALSE,
           clean |-> FALSE, saved |-> NoPolicy]

Init ==
  /\ kernel \in Policies /\ file \in Files
  /\ proc = [p \in Proc |-> Idle]
  /\ seen = [p \in Proc |-> {}]
  /\ used = [runs |-> 0, faults |-> 0]
  /\ hist = NoHist

Fault ==
  /\ used.faults < MaxFaults
  /\ used' = [used EXCEPT !.faults = @ + 1]

Goto(p, label) == proc' = [proc EXCEPT ![p].pc = label]
Exit(p) == proc' = [proc EXCEPT ![p] = Idle]

(* The next step that the options ask for.                                 *)
AfterExec(cmd) == IF cmd.save THEN "save" ELSE IF cmd.reload THEN "reload" ELSE "exit"
AfterSave(cmd) == IF cmd.reload THEN "reload" ELSE "exit"

(* main, bxxt_sepol_new and getopt.  base: the policy as it was loaded, for *)
(* the properties only.                                                    *)
Start(p, cmd) ==
  /\ proc[p].pc = "idle" /\ used.runs < MaxRuns
  /\ used' = [used EXCEPT !.runs = @ + 1]
  /\ proc' = [proc EXCEPT ![p] =
       [pc |-> "load", cmd |-> cmd, pdb |-> NoPdb, r |-> BXXT_SUCCESS, base |-> NoPolicy]]
  /\ UNCHANGED <<kernel, file, seen, hist>>

(* The first half of bxxt_sepol_load_policy_file: open and map.  The       *)
(* kernel's policy is copied when it is opened, and the open fails while   *)
(* another has it open; a file is shared with whoever writes it.           *)
Open(p) ==
  /\ proc[p].pc = "load"
  /\ \/ /\ seen' = [seen EXCEPT ![p] =
               {IF proc[p].cmd.input = "kernel" THEN policydb_write(kernel) ELSE file}]
        /\ Goto(p, "parse")
        /\ UNCHANGED used
     \/ Fault /\ Goto(p, "exec") /\ UNCHANGED seen
  /\ UNCHANGED <<kernel, file, hist>>

(* What a mapping may show that held these contents while it was parsed:   *)
(* its size is one that the file had, and each record is read by itself,   *)
(* before or after it was written.  pick: where the contents differ, the   *)
(* one that was seen.                                                      *)
Sizes(contents) ==
  {n \in UNION {0..Len(f) : f \in contents} : \E f \in contents : Len(f) <= n}

Holds(contents, i) == {f[i] : f \in {g \in contents : i <= Len(g)}}

Picks(contents, n) ==
  LET changed == {i \in 1..n : Cardinality(Holds(contents, i)) > 1}
  IN  {pick \in [changed -> contents] : \A i \in changed : i <= Len(pick[i])}

View(contents, n, pick) ==
  [i \in 1..n |-> IF i \in DOMAIN pick THEN pick[i][i] ELSE CHOOSE x \in Holds(contents, i) : TRUE]

(* Mutant: whatever is in the file is taken for a policy.                  *)
Mut_Loaded(image) ==
  [st |-> "loaded", pol |-> IF IsImage(image) THEN policydb_read(image) ELSE NoPolicy]

(* policydb_from_image.                                                    *)
Loaded(image) ==
  IF IsImage(image) THEN [st |-> "loaded", pol |-> policydb_read(image)]
  ELSE [st |-> "freed", pol |-> NoPolicy]

(* The second half, whose result is ignored: an empty file was not mapped. *)
Load(p) ==
  /\ proc[p].pc = "parse"
  /\ \E n \in Sizes(seen[p]) : \E pick \in Picks(seen[p], n) :
       LET image == View(seen[p], n, pick)
           pdb == Loaded(image)
           pieced == pdb.st = "loaded" /\ image \notin seen[p]
       IN  \/ /\ n # 0
              /\ proc' = [proc EXCEPT ![p].pc = "exec", ![p].pdb = pdb, ![p].base = pdb.pol]
              /\ hist' = [hist EXCEPT !.torn = @ \/ pieced]
           \/ n = 0 /\ Goto(p, "exec") /\ UNCHANGED hist
  /\ seen' = [seen EXCEPT ![p] = {}]
  /\ UNCHANGED <<kernel, file, used>>

(* bxxt_sepol_execute_stmt.  A policy that was never loaded has no name,   *)
(* and no role_val_to_struct: creating a domain in it ends in a null       *)
(* dereference.  The tables of a freed one are searched all the same: the  *)
(* process dies or finds nothing.                                          *)
Execute(p) ==
  /\ proc[p].pc = "exec"
  /\ LET pdb == proc[p].pdb
         cmd == proc[p].cmd
         after == AfterExec(cmd)
         creates == Scans(cmd.stmt) /\ cmd.stmt.op \notin {"allow", "disallow"}
     IN  \/ /\ pdb.st = "loaded"
            /\ \E res \in bxxt_sepol_execute_stmt(pdb.pol, cmd.stmt) :
                 proc' = [proc EXCEPT ![p].pc = after, ![p].pdb.pol = res.pol, ![p].r = res.r]
         \/ /\ pdb.st # "loaded" /\ ~creates
            /\ proc' = [proc EXCEPT ![p].pc = after, ![p].r = BXXT_FAILED]
         \/ pdb.st = "freed" /\ Exit(p)
         \/ pdb.st = "init" /\ creates /\ Exit(p)
  /\ UNCHANGED <<kernel, file, seen, used, hist>>

(* Mutant: the new policy is appended.                                     *)
Mut_WriteOver(old, new) == old \o new

(* A file opened without O_TRUNC keeps what lies beyond the new content.   *)
WriteOver(old, new) == new \o SubSeq(old, Len(new) + 1, Len(old))

(* bxxt_sepol_save_policy_file: nothing when there is no image; the open   *)
(* may fail; the write may stop early, which nobody looks at.  Whoever has *)
(* the file mapped sees it change.                                         *)
Save(p) ==
  /\ proc[p].pc = "save"
  /\ LET pdb == proc[p].pdb
         image == policydb_write(pdb.pol)
         Write(n) == file' = WriteOver(file, SubSeq(image, 1, n))
     IN  \/ /\ policydb_to_image(pdb)
            /\ Write(Len(image))
            /\ hist' = [hist EXCEPT !.clean = TRUE, !.saved = pdb.pol]
            /\ UNCHANGED used
         \/ /\ policydb_to_image(pdb) /\ Fault
            /\ \E n \in 0..(Len(image) - 1) :
                 /\ Write(n)
                 /\ hist' = [hist EXCEPT !.clean = @ /\ n = 0, !.torn = @ \/ n # 0]
         \/ ~policydb_to_image(pdb) /\ UNCHANGED <<file, used, hist>>
  /\ seen' = [q \in Proc |-> IF proc[q].pc = "parse" /\ proc[q].cmd.input = "file"
                              THEN seen[q] \union {file'} ELSE seen[q]]
  /\ Goto(p, AfterSave(proc[p].cmd))
  /\ UNCHANGED kernel

(* What a statement that succeeded asks of the kernel from now on.         *)
Wanted(want, stmt) ==
  LET n == Cut[stmt.src]
      access == {<<stmt.src, stmt.tgt, stmt.cls, bit>> :
                   bit \in IF stmt.cls \in Class THEN PermMask(stmt.cls, CutPerm[stmt.perm]) ELSE {}}
  IN  CASE stmt.op = "allow" ->
             [want EXCEPT !.granted = @ \union access, !.denied = @ \ access]
        [] stmt.op = "disallow" ->
             [want EXCEPT !.denied = @ \union access, !.granted = @ \ access]
        [] stmt.op = "permissive" ->
             [want EXCEPT !.permissive = @ \union {n}, !.enforced = @ \ {n}, !.exist = @ \union {n}]
        [] stmt.op = "enforce" ->
             [want EXCEPT !.enforced = @ \union {n}, !.permissive = @ \ {n}, !.exist = @ \union {n}]
        [] OTHER -> [want EXCEPT !.exist = @ \union {n}]

(* bxxt_sepol_reload_kernel_policy: one write, which the kernel takes      *)
(* whole or refuses; without an image it is empty, and refused.            *)
Reload(p) ==
  /\ proc[p].pc = "reload"
  /\ LET pdb == proc[p].pdb
         cmd == proc[p].cmd
         base == IF cmd.input = "kernel" THEN hist.want ELSE NoWant
     IN  \/ /\ policydb_to_image(pdb)
            /\ kernel' = pdb.pol
            /\ hist' = [hist EXCEPT
                 !.want = IF proc[p].r = BXXT_SUCCESS THEN Wanted(base, cmd.stmt) ELSE base,
                 !.raced = @ \/ (cmd.input = "kernel" /\ proc[p].base \notin {kernel, NoPolicy})]
            /\ Goto(p, "exit")
            /\ UNCHANGED used
         \/ /\ ~policydb_to_image(pdb)
            /\ Goto(p, "exit")
            /\ UNCHANGED <<kernel, used, hist>>
         \/ policydb_to_image(pdb) /\ Fault /\ Goto(p, "exit") /\ UNCHANGED <<kernel, hist>>
  /\ UNCHANGED <<file, seen>>

(* bxxt_sepol_free and return 0, whatever happened.                        *)
Return(p) ==
  /\ proc[p].pc = "exit"
  /\ Exit(p)
  /\ UNCHANGED <<kernel, file, seen, used, hist>>

Kill(p) ==
  /\ proc[p].pc # "idle" /\ Fault /\ Exit(p)
  /\ seen' = [seen EXCEPT ![p] = {}]
  /\ UNCHANGED <<kernel, file, hist>>

Next ==
  \E p \in Proc :
    \/ \E cmd \in Command : Start(p, cmd)
    \/ Open(p) \/ Load(p) \/ Execute(p) \/ Save(p) \/ Reload(p) \/ Return(p) \/ Kill(p)

Spec == Init /\ [][Next]_vars

-----------------------------------------------------------------------------
(* Properties.                                                             *)

Loadable == {kernel} \union {proc[p].pdb.pol : p \in {q \in Proc :
              proc[q].pc # "idle" /\ proc[q].pdb.st = "loaded"}}

(* Every variable has its type: what the kernel enforces, and what a       *)
(* process holds as loaded, is a policy.                                   *)
TypeOK ==
  /\ \A pol \in Loadable : IsPolicy(pol) /\ pol # NoPolicy
  /\ \A i \in DOMAIN file : file[i].k \in {"head", "types", "type", "avtab", "rule", "attr"}
  /\ \A p \in Proc : proc[p].pc \in {"idle", "load", "parse", "exec", "save", "reload", "exit"}
  /\ \A p \in Proc : proc[p].pc # "idle" =>
       proc[p].cmd \in Command /\ proc[p].r \in Int /\ proc[p].pdb.st \in PdbState
  /\ used.runs \in 0..MaxRuns /\ used.faults \in 0..MaxFaults

(* Unless a save was cut short, or a load ran while the file was written   *)
(* and took parts of both contents, every policy in the kernel or in       *)
(* memory is consistent: whatever statements create or edit, types keep    *)
(* values of their own, and nothing speaks of a type that does not exist.  *)
PolicySound ==
  ~hist.torn => \A pol \in Loadable : Consistent(pol)

(* The rule of exactly this source, target and class has the bit; rules    *)
(* that reach the types through an attribute are not looked at.            *)
Allows(pol, a) ==
  /\ {a[1], a[2]} \subseteq DOMAIN pol.types
  /\ LET k == <<pol.types[a[1]], pol.types[a[2]], a[3]>>
     IN  k \in DOMAIN pol.av /\ a[4] \in pol.av[k]

(* No lost update: everything that live statements asked of the kernel,    *)
(* and no later one took back, is in the kernel's policy (the rule has the *)
(* bit or lacks it, the domain exists and has its mode), whatever commands *)
(* were killed or failed in between, unless two live commands raced        *)
(* between line 302 and line 308 of sepol_main.                            *)
LiveEffects ==
  ~hist.raced =>
    /\ \A a \in hist.want.granted : Allows(kernel, a)
    /\ \A a \in hist.want.denied : ~Allows(kernel, a)
    /\ hist.want.exist \subseteq DOMAIN kernel.types
    /\ \A n \in hist.want.permissive : kernel.types[n] \in kernel.permissive
    /\ \A n \in hist.want.enforced : kernel.types[n] \notin kernel.permissive

Differ(x, y) == (x \ y) \union (y \ x)

(* What a live command may change in the kernel's policy: nothing when it  *)
(* failed; otherwise one domain, one rule, or one bit, and never the value *)
(* of a type that other rules refer to.                                    *)
OnlyNamedChanged(old, new, stmt) ==
  /\ \A n \in DOMAIN old.types : n \in DOMAIN new.types /\ new.types[n] = old.types[n]
  /\ DOMAIN new.types \ DOMAIN old.types \subseteq {Cut[stmt.src]}
  /\ \A v \in Differ(old.permissive, new.permissive) : v = new.types[Cut[stmt.src]]
  /\ DOMAIN old.av \subseteq DOMAIN new.av
  /\ \A k \in DOMAIN new.av :
       (k \notin DOMAIN old.av \/ new.av[k] # old.av[k]) =>
         /\ stmt.op \in {"allow", "disallow"}
         /\ k = <<new.types[stmt.src], new.types[stmt.tgt], stmt.cls>>
         /\ k \in DOMAIN old.av =>
              Differ(old.av[k], new.av[k]) \subseteq PermMask(stmt.cls, CutPerm[stmt.perm])

(* A live command changes the kernel's policy in what its statement names  *)
(* and in nothing else, and not at all when the statement or the load      *)
(* failed, although sepol_main goes on to write the policy in either case. *)
LiveExact ==
  [][\A p \in Proc :
       (/\ proc[p].pc = "reload" /\ proc'[p].pc = "exit"
        /\ proc[p].cmd.input = "kernel" /\ ~hist'.raced)
       => /\ OnlyNamedChanged(kernel, kernel', proc[p].cmd.stmt)
          /\ proc[p].r # BXXT_SUCCESS => kernel' = kernel]_vars

(* A file that was saved to its end loads as exactly the policy that was   *)
(* saved, although it is not truncated and may have been longer, and       *)
(* although input and output may be the same file.                         *)
FileLoadsBack ==
  hist.clean => IsImage(file) /\ policydb_read(file) = hist.saved

-----------------------------------------------------------------------------
(* What the documentation says and the code does not do.                   *)

(* README.md: `allow aaaa bbbb:file open' allows only open.                *)
OnlyAllowed ==
  \A p \in Proc :
    (/\ proc[p].pc = "exit" /\ proc[p].pdb.st = "loaded"
     /\ proc[p].cmd.stmt.op = "allow" /\ proc[p].r = BXXT_SUCCESS)
    => LET stmt == proc[p].cmd.stmt
       IN  \A bit \in Bits \ PermMask(stmt.cls, CutPerm[stmt.perm]) :
             LET a == <<stmt.src, stmt.tgt, stmt.cls, bit>>
             IN  Allows(proc[p].pdb.pol, a) => Allows(proc[p].base, a)

=============================================================================

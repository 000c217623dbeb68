-------------------------------- MODULE Rules --------------------------------
(***************************************************************************)
(* What a rule file means, three times over: the parser reads its lines    *)
(* into rules, the compiler turns rules into the tables of the kernel      *)
(* programs, and the engine matches rules with records. These are          *)
(* functions without state; KernelFilter puts them around a system call.   *)
(*                                                                         *)
(* An optional field is a set of at most one value. A path is the sequence *)
(* of its components, so that two spellings of a path are the same path;   *)
(* where the spelling matters it is kept beside it. A system call is       *)
(* represented by a few of every class of the coverage contract.           *)
(***************************************************************************)
EXTENDS Naturals, Sequences, FiniteSets, SequencesExt

Arches == {"b64", "b32"}
Permissions == {"r", "w", "x", "a"}

\* The classes of permission_coverage: how a call takes its paths, and what it
\* does to them. The permission of an open depends on its access mode.
DynamicOpen == {"openat", "openat2"}
FdCalls == {"fgetxattr", "ftruncate", "fchmod"}
DualPath == {"rename", "link"}

Exercise ==
  DynamicOpen \X {"r", "w"}
    \cup {"readlink", "fgetxattr"} \X {"r"}
    \cup {"creat", "unlink", "mkdir", "ftruncate", "rename"} \X {"w"}
    \cup {"link"} \X {"w", "a"}
    \cup {"execve"} \X {"x"}
    \cup {"chmod", "fchmod"} \X {"a"}

\* maintenance_syscalls
Maintenance == {"close", "dup2", "chdir", "mount"}

\* The table of system calls. A number of one ABI may be another call of the other.
Number == [
  b64 |-> [openat |-> 257, openat2 |-> 437, creat |-> 85, readlink |-> 89, fgetxattr |-> 193,
           unlink |-> 87, mkdir |-> 83, ftruncate |-> 77, rename |-> 82, link |-> 86,
           execve |-> 59, chmod |-> 90, fchmod |-> 91, close |-> 3, dup2 |-> 33,
           chdir |-> 80, mount |-> 165, getpid |-> 39],
  b32 |-> [openat |-> 295, openat2 |-> 437, creat |-> 8, readlink |-> 85, fgetxattr |-> 231,
           unlink |-> 10, mkdir |-> 39, ftruncate |-> 93, rename |-> 38, link |-> 9,
           execve |-> 11, chmod |-> 15, fchmod |-> 94, close |-> 6, dup2 |-> 63,
           chdir |-> 12, mount |-> 21, getpid |-> 20]]

Names == DOMAIN Number["b64"]

\* A name or a number after -S.
Named(name) == [name |-> name, number |-> 0]
Numbered(number) == [name |-> "", number |-> number]

\* Mutant: the bound of the tables is off by one.
SyscallNumberInclusive(arch, token) ==
  IF token.name = "" THEN {token.number} \cap 0 .. 512
  ELSE {Number[arch][name] : name \in {token.name} \cap Names}

SyscallNumber(arch, token) ==
  IF token.name = "" THEN {token.number} \cap 0 .. 511
  ELSE {Number[arch][name] : name \in {token.name} \cap Names}

SyscallName(arch, number) == {name \in Names : Number[arch][name] = number}

-----------------------------------------------------------------------------
(* The parser. A line is its action, its path if it is a watch, and the     *)
(* options that follow, each with its value.                                *)

Blank == [kind |-> "syscall", arch |-> {}, syscalls |-> {}, path |-> {}, dir |-> {},
          perms |-> {}, uid |-> {}, success |-> {}, key |-> "", keys |-> 0,
          permissionOptions |-> 0, valid |-> TRUE]

Fails(rule) == [rule EXCEPT !.valid = FALSE]

\* Absolute, without wildcards and without . or .., but perhaps not normal:
\* with doubled slashes, or one at the end.
ValidPath(path) == path.spelling \in {"plain", "doubled"}

ValidPermissions(letters) ==
  /\ letters # <<>>
  /\ Range(letters) \subseteq Permissions
  /\ Cardinality(Range(letters)) = Len(letters)

WithPath(rule, path) ==
  IF ValidPath(path) THEN [rule EXCEPT !.path = {path}] ELSE Fails(rule)

WithPermissions(rule, letters) ==
  IF ValidPermissions(letters) THEN [rule EXCEPT !.perms = Range(letters)] ELSE Fails(rule)

\* One option of a line. A path, a key or permissions given twice replace the first.
Option(rule, o) ==
  CASE o.name = "-S" /\ rule.kind = "syscall" -> [rule EXCEPT !.syscalls = @ \cup o.value]
    [] o.name \in {"-k", "key="} -> [rule EXCEPT !.keys = @ + 1, !.key = o.value]
    [] o.name = "-p" /\ rule.kind = "watch" ->
         WithPermissions([rule EXCEPT !.permissionOptions = @ + 1], o.value)
    [] o.name = "arch=" /\ o.value \in Arches -> [rule EXCEPT !.arch = {o.value}]
    [] o.name = "path=" -> WithPath(rule, o.value)
    [] o.name = "dir=" /\ ValidPath(o.value) -> [rule EXCEPT !.dir = {o.value}]
    [] o.name = "perm=" -> WithPermissions(rule, o.value)
    [] o.name = "uid=" -> [rule EXCEPT !.uid = {o.value}]
    [] o.name = "success=" -> [rule EXCEPT !.success = {o.value}]
    [] OTHER -> Fails(rule)

\* The checks at the end of a line.
Complete(rule) ==
  /\ rule.valid
  /\ rule.keys = 1 /\ rule.key \notin {"", "32 bytes or more"}
  /\ rule.kind = "syscall" => rule.syscalls # {}
  /\ rule.kind = "watch" => rule.permissionOptions = 1

ParseLine(line) ==
  LET start == IF line.action = "-w" THEN WithPath([Blank EXCEPT !.kind = "watch"], line.path)
               ELSE IF line.action = "-a always,exit" THEN Blank
               ELSE Fails(Blank)
      after[n \in 0 .. Len(line.options)] ==
        IF n = 0 THEN start ELSE Option(after[n - 1], line.options[n])
  IN after[Len(line.options)]

\* parse_rules: one bad line makes the file bad.
ParseRules(file) == [i \in DOMAIN file |-> ParseLine(file[i])]
ParseAccepts(file) == \A i \in DOMAIN file : Complete(ParseLine(file[i]))

-----------------------------------------------------------------------------
(* The compiler. The tables of one generation are relations: of an ABI and  *)
(* a number in the bitmaps, and of a permission in the masks.               *)

PermissionCoverage(arch, requested) ==
  {<<Number[arch][e[1]], e[2]>> : e \in {x \in Exercise : x[2] \in requested}}

\* Mutant: a watch is compiled for the ABI of the machine only.
CompiledArchesNative(rule) == IF rule.arch = {} THEN {"b64"} ELSE rule.arch

\* A watch is compiled for both ABIs, whatever its arch; another rule for its arch or b64.
CompiledArches(rule) ==
  IF rule.kind = "watch" THEN Arches
  ELSE IF rule.arch = {} THEN {"b64"} ELSE rule.arch

Explicit(rule, arch) == UNION {SyscallNumber(arch, token) : token \in rule.syscalls}

Selected(rule, arch) ==
  {entry \in PermissionCoverage(arch, rule.perms) :
     rule.kind = "watch" \/ entry[1] \in Explicit(rule, arch)}

CompileAccepts(rule) ==
  \A arch \in CompiledArches(rule) :
    /\ \A token \in rule.syscalls : SyscallNumber(arch, token) # {}
    /\ rule.kind = "watch" => rule.perms # {}
    /\ rule.perms # {} => Explicit(rule, arch) \subseteq {e[1] : e \in Selected(rule, arch)}
    /\ rule.perms \subseteq {e[2] : e \in Selected(rule, arch)}

NeedsPath(rule) == rule.path # {} \/ rule.dir # {}

\* coverage of a rule with permissions: ABI, number and permission.
Coverage(rule) ==
  UNION {{<<arch, e[1], e[2]>> : e \in Selected(rule, arch)} : arch \in CompiledArches(rule)}

\* What a rule names after -S: ABI and number.
ListedNumbers(rule) ==
  UNION {{arch} \X Explicit(rule, arch) : arch \in CompiledArches(rule)}

MaintenanceNumbers == {<<arch, Number[arch][name]>> : arch \in Arches, name \in Maintenance}

Numbers(coverage) == {<<entry[1], entry[2]>> : entry \in coverage}

Compile(rules) ==
  LET coverage == [i \in DOMAIN rules |-> Coverage(rules[i])]
      explicit == UNION {ListedNumbers(rules[i]) : i \in DOMAIN rules}
      masks == UNION Range(coverage)
      maintenance == IF \E i \in DOMAIN rules : NeedsPath(rules[i])
                     THEN MaintenanceNumbers ELSE {}
  IN [rules |-> rules,
      bitmap |-> explicit \cup Numbers(masks) \cup maintenance,
      masks |-> masks,
      maintenance |-> maintenance,
      effective |-> [i \in DOMAIN rules |-> Numbers(coverage[i])]]

-----------------------------------------------------------------------------
(* The engine. An event is what a record says, with its permissions; the    *)
(* paths are those its names resolve to. Rules are given by their index.    *)

\* rule_covers_syscall: a list of calls is compared by name, a watch by number.
RuleCoversSyscall(plan, i, arch, name) ==
  IF plan.rules[i].kind = "syscall" THEN Named(name) \in plan.rules[i].syscalls
  ELSE name \in Names /\ <<arch, Number[arch][name]>> \in plan.effective[i]

RuleOfCall(plan, i, arch, name) ==
  /\ plan.rules[i].arch = {} \/ arch \in plan.rules[i].arch
  /\ RuleCoversSyscall(plan, i, arch, name)

RequiresResolvedPath(plan, arch, name) ==
  \E i \in DOMAIN plan.rules : NeedsPath(plan.rules[i]) /\ RuleOfCall(plan, i, arch, name)

RequiresPermission(plan, arch, name) ==
  \E i \in DOMAIN plan.rules : plan.rules[i].perms # {} /\ RuleOfCall(plan, i, arch, name)

IsWatchCandidate(plan, arch, name) ==
  \E i \in DOMAIN plan.rules : plan.rules[i].kind = "watch" /\ RuleOfCall(plan, i, arch, name)

MatchesIdentity(rule, event) ==
  /\ rule.uid = {} \/ event.uid \in rule.uid
  /\ rule.success = {} \/ event.success \in rule.success

MatchesPath(rule, path) ==
  /\ \A p \in rule.path : path = p.place
  /\ \A d \in rule.dir : IsPrefix(d.place, path)

\* matches_rule, on the paths a rule that needs one may choose from.
Matches(plan, i, event, paths) ==
  LET rule == plan.rules[i] IN
  /\ RuleOfCall(plan, i, event.arch, event.name)
  /\ MatchesIdentity(rule, event)
  /\ rule.perms = {} \/ rule.perms \cap event.permissions # {}
  /\ NeedsPath(rule) => \E path \in Range(paths) : MatchesPath(rule, path)

The(set) == CHOOSE x \in set : TRUE
First(ids) == {i \in ids : \A k \in ids : i <= k}

\* Mutant: paths first, rules second.
EvaluatePathsPathFirst(plan, event, paths) ==
  LET Of(taken) == {i \in DOMAIN plan.rules : Matches(plan, i, event, taken)}
      Hit == {j \in DOMAIN paths : Of(<<paths[j]>>) # {}}
  IN IF Hit = {} THEN First(Of(<<>>)) ELSE First(UNION {Of(<<paths[j]>>) : j \in First(Hit)})

\* evaluate_paths: the first rule that matches, whichever path it matches.
EvaluatePaths(plan, event, paths) ==
  First({i \in DOMAIN plan.rules : Matches(plan, i, event, paths)})

=============================================================================

-------------------------- MODULE KernelFilterProofs --------------------------
(***************************************************************************)
(* Proofs about KernelFilter, for any rule files, calls and number of      *)
(* paths the kernel filters by.                                            *)
(***************************************************************************)
EXTENDS KernelFilter, Integers, WellFoundedInduction, TLAPS

-----------------------------------------------------------------------------
(* The table of system calls.                                               *)

LEMMA NamesAre ==
  Names = {"openat", "openat2", "creat", "readlink", "fgetxattr", "unlink", "mkdir",
           "ftruncate", "rename", "link", "execve", "chmod", "fchmod", "close", "dup2",
           "chdir", "mount", "getpid"}
  BY DEF Names, Number

LEMMA NumbersAre ==
  \A arch \in Arches, name \in Names : Number[arch][name] \in 0 .. 511
  BY NamesAre DEF Number, Arches

LEMMA NumberInjective ==
  ASSUME NEW arch \in Arches, NEW a \in Names, NEW b \in Names, Number[arch][a] = Number[arch][b]
  PROVE  a = b
  <1>1. CASE arch = "b64"
    BY <1>1, NamesAre DEF Number
  <1>2. CASE arch = "b32"
    BY <1>2, NamesAre DEF Number
  <1> QED BY <1>1, <1>2 DEF Arches

LEMMA NameOfNumber ==
  ASSUME NEW arch \in Arches, NEW name \in Names
  PROVE  NameOf(arch, Number[arch][name]) = name
  <1>1. SyscallName(arch, Number[arch][name]) = {name}
    BY NumberInjective DEF SyscallName
  <1> QED BY <1>1 DEF NameOf

-----------------------------------------------------------------------------
(* Natural numbers.                                                         *)

LEMMA LeastElement ==
  ASSUME NEW S, S \subseteq Nat, S # {}
  PROVE  \E x \in S : \A y \in S : x <= y
  <1> DEFINE Less == {p \in Nat \X Nat : p[1] < p[2]}
  <1>1. IsWellFoundedOn(Less, Nat)
    BY NatLessThanWellFounded DEF OpToRel
  <1>2. PICK x \in S : \A y \in S : <<y, x>> \notin Less
    BY <1>1, WFMin
  <1>3. \A y \in S : x <= y
    <2> TAKE y \in S
    <2>1. <<y, x>> \notin Less /\ x \in Nat /\ y \in Nat
      BY <1>2
    <2> QED
      BY <2>1
  <1> QED
    BY <1>2, <1>3

\* Induction, for a property that is given by the set of numbers that have it.
LEMMA SetInduction ==
  ASSUME NEW S, 0 \in S, \A n \in Nat : n \in S => n + 1 \in S
  PROVE  Nat \subseteq S
  <1>1. SUFFICES ASSUME Nat \ S # {} PROVE FALSE
    OBVIOUS
  <1>2. PICK x \in Nat \ S : \A y \in Nat \ S : x <= y
    BY <1>1, LeastElement
  <1>3. x # 0 /\ x - 1 \in Nat
    BY <1>2
  <1>4. x - 1 \notin Nat \ S
    BY <1>2, <1>3
  <1> QED
    BY <1>2, <1>3, <1>4

-----------------------------------------------------------------------------
(* The parser.                                                              *)

\* What every rule is, as far as the tables and the engine depend on it.
IsRule(r) ==
  /\ DOMAIN r = {"kind", "arch", "syscalls", "path", "dir", "perms", "uid", "success", "key",
                 "keys", "permissionOptions", "valid"}
  /\ r.kind \in {"watch", "syscall"}
  /\ r.arch \subseteq Arches /\ r.perms \subseteq Permissions
  /\ \A p \in r.path : ValidPath(p)

LEMMA BlankIsRule == IsRule(Blank) /\ IsRule([Blank EXCEPT !.kind = "watch"])
  BY DEF IsRule, Blank

LEMMA FieldsKeepRules ==
  ASSUME NEW r, IsRule(r), NEW x
  PROVE  /\ IsRule([r EXCEPT !.syscalls = x])
         /\ IsRule([r EXCEPT !.keys = @ + 1, !.key = x])
         /\ IsRule([r EXCEPT !.permissionOptions = @ + 1])
         /\ IsRule([r EXCEPT !.dir = {x}])
         /\ IsRule([r EXCEPT !.uid = {x}])
         /\ IsRule([r EXCEPT !.success = {x}])
         /\ x \in Arches => IsRule([r EXCEPT !.arch = {x}])
         /\ IsRule(Fails(r))
         /\ IsRule(WithPath(r, x))
         /\ IsRule(WithPermissions(r, x))
  <1>1. IsRule([r EXCEPT !.syscalls = x])
    BY DEF IsRule
  <1>2. IsRule([r EXCEPT !.keys = @ + 1, !.key = x])
    BY DEF IsRule
  <1>3. IsRule([r EXCEPT !.permissionOptions = @ + 1])
    BY DEF IsRule
  <1>4. IsRule([r EXCEPT !.dir = {x}]) /\ IsRule([r EXCEPT !.uid = {x}])
        /\ IsRule([r EXCEPT !.success = {x}])
    BY DEF IsRule
  <1>5. x \in Arches => IsRule([r EXCEPT !.arch = {x}])
    BY DEF IsRule
  <1>6. IsRule(Fails(r))
    BY DEF IsRule, Fails
  <1>7. IsRule(WithPath(r, x))
    <2>1. ValidPath(x) => IsRule([r EXCEPT !.path = {x}])
      BY DEF IsRule
    <2> QED
      BY <2>1, <1>6 DEF WithPath
  <1>8. IsRule(WithPermissions(r, x))
    <2>1. Range(x) \subseteq Permissions => IsRule([r EXCEPT !.perms = Range(x)])
      BY DEF IsRule
    <2> QED
      BY <2>1, <1>6 DEF WithPermissions, ValidPermissions
  <1> QED
    BY <1>1, <1>2, <1>3, <1>4, <1>5, <1>6, <1>7, <1>8

LEMMA OptionKeepsRules ==
  ASSUME NEW r, IsRule(r), NEW o
  PROVE  IsRule(Option(r, o))
  <1>1. IsRule([r EXCEPT !.syscalls = @ \cup o.value])
    <2>1. [r EXCEPT !.syscalls = @ \cup o.value] = [r EXCEPT !.syscalls = r.syscalls \cup o.value]
      OBVIOUS
    <2> QED
      BY <2>1, FieldsKeepRules
  <1>2. IsRule([r EXCEPT !.keys = @ + 1, !.key = o.value])
    BY FieldsKeepRules
  <1>3. IsRule(WithPermissions([r EXCEPT !.permissionOptions = @ + 1], o.value))
    <2>1. IsRule([r EXCEPT !.permissionOptions = @ + 1])
      BY FieldsKeepRules
    <2> QED
      BY <2>1, FieldsKeepRules
  <1>4. o.value \in Arches => IsRule([r EXCEPT !.arch = {o.value}])
    BY FieldsKeepRules
  <1>5. /\ IsRule(WithPath(r, o.value)) /\ IsRule(WithPermissions(r, o.value))
        /\ IsRule([r EXCEPT !.dir = {o.value}]) /\ IsRule([r EXCEPT !.uid = {o.value}])
        /\ IsRule([r EXCEPT !.success = {o.value}]) /\ IsRule(Fails(r))
    BY FieldsKeepRules
  <1> QED
    BY <1>1, <1>2, <1>3, <1>4, <1>5 DEF Option

\* f[k] is what has become of a line after k options.
Reads(f, start, options, n) ==
  f = [k \in 0 .. n |-> IF k = 0 THEN start ELSE Option(f[k - 1], options[k])]

\* That there is such a reading, and that it keeps what every rule is, are inductions
\* over the options read.
LEMMA Reading ==
  ASSUME NEW start, NEW options, NEW n \in Nat
  PROVE  \E f : Reads(f, start, options, n)
  <1> DEFINE Read(m, f) ==
               f = [k \in 0 .. m |-> IF k = 0 THEN start ELSE Option(f[k - 1], options[k])]
             S == {m \in Nat : \E f : Read(m, f)}
  <1>1. 0 \in S
    <2>1. Read(0, [k \in 0 .. 0 |-> start])
      OBVIOUS
    <2> QED
      BY <2>1
  <1>2. ASSUME NEW m \in Nat, m \in S
        PROVE  m + 1 \in S
    <2>1. PICK f : Read(m, f)
      BY <1>2
    <2> DEFINE g == [k \in 0 .. m + 1 |->
                       IF k = m + 1 THEN Option(f[m], options[m + 1]) ELSE f[k]]
    <2>2. ASSUME NEW k \in 0 .. m + 1
          PROVE  g[k] = IF k = 0 THEN start ELSE Option(g[k - 1], options[k])
      <3>1. CASE k = m + 1
        BY <3>1
      <3>2. CASE k # m + 1
        <4>1. k \in 0 .. m /\ g[k] = f[k]
          BY <3>2
        <4>2. f[k] = IF k = 0 THEN start ELSE Option(f[k - 1], options[k])
          BY <4>1, <2>1
        <4>3. k # 0 => k - 1 \in 0 .. m + 1 /\ k - 1 # m + 1 /\ g[k - 1] = f[k - 1]
          BY <4>1
        <4> QED
          BY <4>1, <4>2, <4>3
      <3> QED
        BY <3>1, <3>2
    <2>3. \E h : Read(m + 1, h)
      <3> HIDE DEF g
      <3>1. g = [k \in 0 .. m + 1 |-> g[k]]
        BY DEF g
      <3> QED
        BY <3>1, <2>2
    <2> QED
      BY <2>3
  <1> HIDE DEF S
  <1>3. Nat \subseteq S
    BY <1>1, <1>2, SetInduction
  <1> QED
    BY <1>3 DEF S, Reads

LEMMA ReadingIsRule ==
  ASSUME NEW start, IsRule(start), NEW options, NEW n \in Nat, NEW f,
         Reads(f, start, options, n)
  PROVE  IsRule(f[n])
  <1> DEFINE S == {m \in Nat : m <= n => IsRule(f[m])}
  <1>1. 0 \in S
    <2>1. f[0] = start
      BY DEF Reads
    <2> QED
      BY <2>1
  <1>2. ASSUME NEW m \in Nat, m \in S
        PROVE  m + 1 \in S
    <2>1. m + 1 <= n => f[m + 1] = Option(f[m], options[m + 1])
      BY DEF Reads
    <2>2. m + 1 <= n => IsRule(f[m])
      BY <1>2
    <2> QED
      BY <2>1, <2>2, OptionKeepsRules
  <1> HIDE DEF S
  <1>3. Nat \subseteq S
    BY <1>1, <1>2, SetInduction
  <1> QED
    BY <1>3 DEF S

LEMMA ParseLineIsRule ==
  ASSUME NEW line, Len(line.options) \in Nat
  PROVE  IsRule(ParseLine(line))
  <1> DEFINE start == IF line.action = "-w"
                        THEN WithPath([Blank EXCEPT !.kind = "watch"], line.path)
                      ELSE IF line.action = "-a always,exit" THEN Blank
                      ELSE Fails(Blank)
             after == CHOOSE f : f = [k \in 0 .. Len(line.options) |->
                        IF k = 0 THEN start ELSE Option(f[k - 1], line.options[k])]
  <1>1. IsRule(start)
    BY BlankIsRule, FieldsKeepRules
  <1>2. ParseLine(line) = after[Len(line.options)]
    BY DEF ParseLine
  <1> HIDE DEF start
  <1>3. Reads(after, start, line.options, Len(line.options))
    BY Reading DEF Reads
  <1> HIDE DEF after
  <1>4. IsRule(after[Len(line.options)])
    BY <1>1, <1>3, ReadingIsRule
  <1> QED
    BY <1>2, <1>4

-----------------------------------------------------------------------------
(* The compiler.                                                            *)

\* The rule selects the call for this permission.
Selects(rule, arch, name, p) ==
  /\ arch \in CompiledArches(rule)
  /\ <<name, p>> \in Exercise /\ p \in rule.perms
  /\ rule.kind = "watch" \/ Number[arch][name] \in Explicit(rule, arch)

LEMMA ExerciseType == Exercise \subseteq Names \X Permissions
  BY NamesAre DEF Exercise, Permissions, DynamicOpen

LEMMA SelectedAre ==
  ASSUME NEW rule, IsRule(rule), NEW arch \in Arches, NEW e
  PROVE  e \in Selected(rule, arch) <=>
           \E name \in Names, p \in Permissions :
             /\ e = <<Number[arch][name], p>>
             /\ <<name, p>> \in Exercise /\ p \in rule.perms
             /\ rule.kind = "watch" \/ Number[arch][name] \in Explicit(rule, arch)
  <1>1. e \in PermissionCoverage(arch, rule.perms) <=>
          \E x \in Exercise : x[2] \in rule.perms /\ e = <<Number[arch][x[1]], x[2]>>
    BY DEF PermissionCoverage
  <1>2. ASSUME e \in Selected(rule, arch)
        PROVE  \E name \in Names, p \in Permissions :
                 /\ e = <<Number[arch][name], p>>
                 /\ <<name, p>> \in Exercise /\ p \in rule.perms
                 /\ rule.kind = "watch" \/ Number[arch][name] \in Explicit(rule, arch)
    <2>1. e \in PermissionCoverage(arch, rule.perms)
      BY <1>2 DEF Selected
    <2>2. rule.kind = "watch" \/ e[1] \in Explicit(rule, arch)
      BY <1>2 DEF Selected
    <2>3. PICK x \in Exercise : x[2] \in rule.perms /\ e = <<Number[arch][x[1]], x[2]>>
      BY <1>1, <2>1
    <2>4. PICK name \in Names, p \in Permissions : x = <<name, p>>
      BY ExerciseType
    <2>5. x[1] = name /\ x[2] = p
      BY <2>4
    <2>6. e = <<Number[arch][name], p>> /\ e[1] = Number[arch][name]
      BY <2>3, <2>5
    <2> QED
      BY <2>2, <2>3, <2>4, <2>5, <2>6
  <1>3. ASSUME NEW name \in Names, NEW p \in Permissions, e = <<Number[arch][name], p>>,
               <<name, p>> \in Exercise, p \in rule.perms,
               rule.kind = "watch" \/ Number[arch][name] \in Explicit(rule, arch)
        PROVE  e \in Selected(rule, arch)
    <2> DEFINE x == <<name, p>>
    <2>1. x \in Exercise /\ x[2] \in rule.perms /\ e = <<Number[arch][x[1]], x[2]>>
      BY <1>3
    <2>2. e \in PermissionCoverage(arch, rule.perms) /\ e[1] = Number[arch][name]
      BY <1>1, <1>3, <2>1
    <2> QED
      BY <1>3, <2>2 DEF Selected
  <1> QED
    BY <1>2, <1>3

LEMMA CoverageIs ==
  ASSUME NEW rule, IsRule(rule), NEW entry
  PROVE  entry \in Coverage(rule) <=>
           \E arch \in Arches, name \in Names, p \in Permissions :
             entry = <<arch, Number[arch][name], p>> /\ Selects(rule, arch, name, p)
  <1>1. CompiledArches(rule) \subseteq Arches
    BY DEF CompiledArches, Arches, IsRule
  <1>2. entry \in Coverage(rule) <=>
          \E arch \in CompiledArches(rule) : \E e \in Selected(rule, arch) :
            entry = <<arch, e[1], e[2]>>
    BY DEF Coverage
  <1>3. ASSUME entry \in Coverage(rule)
        PROVE  \E arch \in Arches, name \in Names, p \in Permissions :
                 entry = <<arch, Number[arch][name], p>> /\ Selects(rule, arch, name, p)
    <2>1. PICK arch \in CompiledArches(rule) :
            \E e \in Selected(rule, arch) : entry = <<arch, e[1], e[2]>>
      BY <1>2, <1>3
    <2>2. arch \in Arches
      BY <1>1
    <2> PICK e \in Selected(rule, arch) : entry = <<arch, e[1], e[2]>>
      BY <2>1
    <2>3. PICK name \in Names, p \in Permissions :
             /\ e = <<Number[arch][name], p>>
             /\ <<name, p>> \in Exercise /\ p \in rule.perms
             /\ rule.kind = "watch" \/ Number[arch][name] \in Explicit(rule, arch)
      BY <2>1, <2>2, SelectedAre
    <2>4. entry = <<arch, Number[arch][name], p>>
      BY <2>1, <2>3
    <2> QED
      BY <2>1, <2>2, <2>3, <2>4 DEF Selects
  <1>4. ASSUME NEW arch \in Arches, NEW name \in Names, NEW p \in Permissions,
               entry = <<arch, Number[arch][name], p>>, Selects(rule, arch, name, p)
        PROVE  entry \in Coverage(rule)
    <2> DEFINE e == <<Number[arch][name], p>>
    <2>1. e \in Selected(rule, arch) /\ arch \in CompiledArches(rule)
      BY <1>4, SelectedAre DEF Selects
    <2>2. entry = <<arch, e[1], e[2]>>
      BY <1>4
    <2> QED
      BY <1>2, <2>1, <2>2
  <1> QED
    BY <1>3, <1>4

LEMMA CoverageOf ==
  ASSUME NEW rule, IsRule(rule), NEW arch \in Arches, NEW name \in Names, NEW p
  PROVE  <<arch, Number[arch][name], p>> \in Coverage(rule) <=> Selects(rule, arch, name, p)
  <1>1. Selects(rule, arch, name, p) => p \in Permissions
    BY ExerciseType DEF Selects
  <1>2. ASSUME <<arch, Number[arch][name], p>> \in Coverage(rule)
        PROVE  Selects(rule, arch, name, p)
    <2>1. PICK a \in Arches, n \in Names, q \in Permissions :
             /\ <<arch, Number[arch][name], p>> = <<a, Number[a][n], q>>
             /\ Selects(rule, a, n, q)
      BY <1>2, CoverageIs
    <2>2. a = arch /\ q = p /\ Number[arch][name] = Number[arch][n]
      BY <2>1
    <2>3. n = name
      BY <2>2, NumberInjective
    <2> QED
      BY <2>1, <2>2, <2>3
  <1> QED
    BY <1>1, <1>2, CoverageIs

-----------------------------------------------------------------------------
(* The plan: the compiled form of rules that the compiler takes.            *)

PlanInv ==
  /\ \E n \in Nat : DOMAIN plan.rules = 1 .. n
  /\ \A i \in DOMAIN plan.rules : IsRule(plan.rules[i]) /\ CompileAccepts(plan.rules[i])
  /\ plan = Compile(plan.rules)

Maintained(rules) ==
  IF \E i \in DOMAIN rules : NeedsPath(rules[i]) THEN MaintenanceNumbers ELSE {}

LEMMA CompileTables ==
  ASSUME NEW rules
  PROVE  /\ Compile(rules).masks = UNION {Coverage(rules[i]) : i \in DOMAIN rules}
         /\ Compile(rules).maintenance = Maintained(rules)
         /\ Compile(rules).bitmap =
              (UNION {ListedNumbers(rules[i]) : i \in DOMAIN rules})
                \cup Numbers(Compile(rules).masks) \cup Maintained(rules)
         /\ Compile(rules).rules = rules
         /\ \A i \in DOMAIN rules : Compile(rules).effective[i] = Numbers(Coverage(rules[i]))
  <1> DEFINE coverage == [i \in DOMAIN rules |-> Coverage(rules[i])]
             masks == UNION Range(coverage)
             maintenance == Maintained(rules)
             listed == UNION {ListedNumbers(rules[i]) : i \in DOMAIN rules}
             bitmap == listed \cup Numbers(masks) \cup maintenance
             effective == [i \in DOMAIN rules |-> Numbers(coverage[i])]
  <1>1. Compile(rules) = [rules |-> rules, bitmap |-> bitmap, masks |-> masks,
                          maintenance |-> maintenance, effective |-> effective]
    BY Zenon DEF Compile, Maintained
  <1>2. Range(coverage) = {Coverage(rules[i]) : i \in DOMAIN rules}
    BY DEF Range
  <1>3. \A i \in DOMAIN rules : effective[i] = Numbers(Coverage(rules[i]))
    OBVIOUS
  <1> HIDE DEF coverage, maintenance, bitmap, effective
  <1>4. /\ Compile(rules).masks = masks /\ Compile(rules).maintenance = maintenance
        /\ Compile(rules).bitmap = bitmap /\ Compile(rules).effective = effective
        /\ Compile(rules).rules = rules
    BY <1>1
  <1> QED
    BY <1>2, <1>3, <1>4 DEF maintenance, bitmap

LEMMA PlanTables ==
  ASSUME PlanInv
  PROVE  /\ plan.masks = UNION {Coverage(plan.rules[i]) : i \in DOMAIN plan.rules}
         /\ plan.maintenance = Maintained(plan.rules)
         /\ plan.bitmap =
              (UNION {ListedNumbers(plan.rules[i]) : i \in DOMAIN plan.rules})
                \cup Numbers(plan.masks) \cup Maintained(plan.rules)
         /\ \A i \in DOMAIN plan.rules : plan.effective[i] = Numbers(Coverage(plan.rules[i]))
  <1>1. plan = Compile(plan.rules)
    BY DEF PlanInv
  <1> QED
    BY <1>1, CompileTables

LEMMA MaskIs ==
  ASSUME PlanInv, NEW arch \in Arches, NEW name \in Names, NEW p
  PROVE  p \in Mask(arch, Number[arch][name]) <=>
           \E i \in DOMAIN plan.rules : Selects(plan.rules[i], arch, name, p)
  <1>1. \A entry \in plan.masks : \E a \in Arches, n \in Names, q \in Permissions :
           entry = <<a, Number[a][n], q>>
    BY PlanTables, CoverageIs DEF PlanInv
  <1>2. p \in Mask(arch, Number[arch][name]) <=> <<arch, Number[arch][name], p>> \in plan.masks
    BY <1>1 DEF Mask
  <1> QED
    BY <1>2, PlanTables, CoverageOf DEF PlanInv

LEMMA EffectiveIs ==
  ASSUME PlanInv, NEW i \in DOMAIN plan.rules, NEW arch \in Arches, NEW name \in Names
  PROVE  <<arch, Number[arch][name]>> \in plan.effective[i] <=>
           \E p \in Permissions : Selects(plan.rules[i], arch, name, p)
  <1>1. plan.effective[i] = Numbers(Coverage(plan.rules[i])) /\ IsRule(plan.rules[i])
    BY PlanTables DEF PlanInv
  <1>2. ASSUME <<arch, Number[arch][name]>> \in plan.effective[i]
        PROVE  \E p \in Permissions : Selects(plan.rules[i], arch, name, p)
    <2>1. PICK entry \in Coverage(plan.rules[i]) :
             <<arch, Number[arch][name]>> = <<entry[1], entry[2]>>
      BY <1>1, <1>2 DEF Numbers
    <2>2. PICK a \in Arches, n \in Names, p \in Permissions :
             entry = <<a, Number[a][n], p>> /\ Selects(plan.rules[i], a, n, p)
      BY <1>1, <2>1, CoverageIs
    <2>3. a = arch /\ Number[arch][name] = Number[arch][n]
      BY <2>1, <2>2
    <2>4. n = name
      BY <2>3, NumberInjective
    <2> QED
      BY <2>2, <2>3, <2>4
  <1>3. ASSUME NEW p \in Permissions, Selects(plan.rules[i], arch, name, p)
        PROVE  <<arch, Number[arch][name]>> \in plan.effective[i]
    <2> DEFINE entry == <<arch, Number[arch][name], p>>
    <2>1. entry \in Coverage(plan.rules[i])
      BY <1>1, <1>3, CoverageOf
    <2>2. <<entry[1], entry[2]>> \in Numbers(Coverage(plan.rules[i]))
      BY <2>1 DEF Numbers
    <2> QED
      BY <1>1, <2>2
  <1> QED
    BY <1>2, <1>3

-----------------------------------------------------------------------------
(* The inductive invariant: the rules of the plan and the tables come from   *)
(* one file, and what became of the call follows from them.                  *)

CallInv ==
  /\ pc \in {"start", "loaded", "dropped", "saved", "judged"}
  /\ IF pc \in {"start", "loaded"} THEN call = NoCall ELSE call \in Calls
  /\ pc = "dropped" => \A arch \in SelectArch(call) : ~Passes(call, arch)
  /\ IF pc \in {"saved", "judged"}
       THEN \E arch \in SelectArch(call) : Passes(call, arch) /\ record = Record(call, arch)
       ELSE record = NoRecord
  /\ verdict = IF pc = "judged" THEN Judgement ELSE NoVerdict

IInv == PlanInv /\ CallInv

\* What the filter and the collector make of a call depends on the plan, the call
\* and the record only.
LEMMA FilterStays ==
  ASSUME plan' = plan, NEW c, NEW arch
  PROVE  /\ SelectArch(c)' = SelectArch(c)
         /\ Passes(c, arch)' = Passes(c, arch)
         /\ Record(c, arch)' = Record(c, arch)
  <1>1. SelectArch(c)' = SelectArch(c)
    BY DEF SelectArch, Hint
  <1>2. ASSUME NEW a, NEW n PROVE Mask(a, n)' = Mask(a, n)
    BY DEF Mask
  <1>3. FilterOn' = FilterOn /\ WatchedPaths' = WatchedPaths
    BY DEF FilterOn, WatchedPaths
  <1>4. ASSUME NEW n PROVE NameCandidate(n)' = NameCandidate(n)
    BY <1>3 DEF NameCandidate
  <1>5. ASSUME NEW names PROVE WatchPathCandidate(names)' = WatchPathCandidate(names)
    BY <1>3, <1>4 DEF WatchPathCandidate
  <1>6. ASSUME NEW name, NEW mask, NEW maintenance
        PROVE  PassesMask(c, arch, name, mask, maintenance)'
                 = PassesMask(c, arch, name, mask, maintenance)
    BY <1>5 DEF PassesMask
  <1>7. Passes(c, arch)' = Passes(c, arch)
    BY <1>2, <1>6 DEF Passes
  <1>8. EventPermissions(c, arch)' = EventPermissions(c, arch)
    BY <1>2 DEF EventPermissions
  <1>9. Record(c, arch)' = Record(c, arch)
    BY <1>8 DEF Record
  <1> QED
    BY <1>1, <1>7, <1>9

LEMMA JudgementStays ==
  ASSUME plan' = plan, call' = call, record' = record
  PROVE  Judgement' = Judgement
  <1>1. Requests' = Requests
    BY DEF Requests
  <1>2. ASSUME NEW n PROVE Resolvable(n)' = Resolvable(n)
    BY DEF Resolvable
  <1>3. Resolve' = Resolve
    BY <1>1, <1>2 DEF Resolve
  <1>4. ASSUME NEW permissions PROVE Event(permissions)' = Event(permissions)
    BY DEF Event
  <1>5. /\ Event(Permissions)' = Event(Permissions)
        /\ Event(record.permissions)' = Event(record.permissions)
    BY <1>4 DEF Event
  <1> QED
    BY <1>3, <1>5 DEF Judgement

LEMMA InitInv == Init => IInv
  <1> SUFFICES ASSUME Init PROVE IInv
    OBVIOUS
  <1>1. plan = Compile(<<>>) /\ plan.rules = <<>>
    BY CompileTables DEF Init
  <1>2. PlanInv
    <2>1. DOMAIN plan.rules = 1 .. 0
      BY <1>1
    <2> QED
      BY <1>1, <2>1 DEF PlanInv
  <1>3. CallInv
    BY DEF Init, CallInv
  <1> QED
    BY <1>2, <1>3 DEF IInv

LEMMA LoadPreserves ==
  ASSUME IInv, NEW file \in Files, Load(file)
  PROVE  IInv'
  <1>1. plan' = Compile(ParseRules(file)) /\ plan'.rules = ParseRules(file)
    BY CompileTables DEF Load
  <1>2. DOMAIN file = 1 .. Len(file) /\ Len(file) \in Nat
    BY FilterAssumption
  <1>3. ASSUME NEW i \in DOMAIN file
        PROVE  IsRule(ParseLine(file[i])) /\ CompileAccepts(ParseLine(file[i]))
    <2>1. Len(file[i].options) \in Nat
      BY FilterAssumption
    <2> QED
      BY <2>1, ParseLineIsRule DEF Load, Accepts
  <1>4. PlanInv'
    <2>1. DOMAIN plan'.rules = DOMAIN file /\ \A i \in DOMAIN file : plan'.rules[i] = ParseLine(file[i])
      BY <1>1 DEF ParseRules
    <2> QED
      BY <1>1, <1>2, <1>3, <2>1 DEF PlanInv
  <1>5. CallInv'
    BY DEF IInv, CallInv, Load
  <1> QED
    BY <1>4, <1>5 DEF IInv

LEMMA PlanStays ==
  ASSUME PlanInv, plan' = plan
  PROVE  PlanInv'
  BY DEF PlanInv

LEMMA EnterPreserves ==
  ASSUME IInv, NEW c \in Calls, Enter(c)
  PROVE  IInv'
  <1>1. PlanInv'
    BY PlanStays DEF IInv, Enter
  <1>2. plan' = plan /\ call' = c /\ verdict' = NoVerdict /\ record = NoRecord
    BY DEF IInv, CallInv, Enter
  <1>3. CASE pc' = "saved"
    <2>1. PICK arch \in SelectArch(c) : Passes(c, arch) /\ record' = Record(c, arch)
      BY <1>3 DEF Enter
    <2>2. /\ SelectArch(c)' = SelectArch(c)
          /\ Passes(c, arch)' = Passes(c, arch) /\ Record(c, arch)' = Record(c, arch)
      BY <1>2, FilterStays
    <2>3. /\ arch \in SelectArch(call)'
          /\ Passes(call, arch)' /\ (record = Record(call, arch))'
      BY <1>2, <2>1, <2>2
    <2>4. CallInv'
      BY <1>2, <1>3, <2>3 DEF CallInv
    <2> QED
      BY <1>1, <2>4 DEF IInv
  <1>4. CASE pc' = "dropped"
    <2>1. \A arch \in SelectArch(c) : ~Passes(c, arch)
      BY <1>4 DEF Enter
    <2>2. record' = NoRecord
      BY <1>2, <1>4 DEF Enter
    <2>3. \A arch : /\ SelectArch(c)' = SelectArch(c) /\ Passes(c, arch)' = Passes(c, arch)
      BY <1>2, FilterStays
    <2>4. (\A arch \in SelectArch(call) : ~Passes(call, arch))'
      BY <1>2, <2>1, <2>3
    <2>5. CallInv'
      BY <1>2, <1>4, <2>2, <2>4 DEF CallInv
    <2> QED
      BY <1>1, <2>5 DEF IInv
  <1> QED
    BY <1>3, <1>4 DEF Enter

LEMMA SavedStays ==
  ASSUME CallInv, plan' = plan, call' = call, record' = record,
         IF pc \in {"saved", "judged"} THEN pc' \in {"saved", "judged"} ELSE pc' = pc,
         verdict' = IF pc' = "judged" THEN Judgement ELSE NoVerdict
  PROVE  CallInv'
  <1>1. \A arch : /\ SelectArch(call)' = SelectArch(call)
                  /\ Passes(call, arch)' = Passes(call, arch)
                  /\ Record(call, arch)' = Record(call, arch)
    <2>1. \A c, arch : /\ SelectArch(c)' = SelectArch(c) /\ Passes(c, arch)' = Passes(c, arch)
                       /\ Record(c, arch)' = Record(c, arch)
      BY FilterStays
    <2> QED
      BY <2>1
  <1>2. Judgement' = Judgement
    BY JudgementStays
  <1> QED
    BY <1>1, <1>2 DEF CallInv

LEMMA StepPreserves == IInv /\ [Next]_vars => IInv'
  <1> SUFFICES ASSUME IInv, [Next]_vars PROVE IInv'
    OBVIOUS
  <1>1. ASSUME NEW file \in Files, Load(file) PROVE IInv'
    BY <1>1, LoadPreserves
  <1>2. ASSUME NEW c \in Calls, Enter(c) PROVE IInv'
    BY <1>2, EnterPreserves
  <1>3. CASE Judge
    <2>1. PlanInv'
      BY <1>3, PlanStays DEF IInv, Judge
    <2>2. CallInv'
      BY <1>3, SavedStays DEF IInv, Judge
    <2> QED
      BY <2>1, <2>2 DEF IInv
  <1>4. CASE UNCHANGED vars
    <2>1. PlanInv'
      BY <1>4, PlanStays DEF IInv, vars
    <2>2. verdict = IF pc = "judged" THEN Judgement ELSE NoVerdict
      BY DEF IInv, CallInv
    <2>3. CallInv'
      BY <1>4, <2>2, SavedStays DEF IInv, vars
    <2> QED
      BY <2>1, <2>3 DEF IInv
  <1> QED
    BY <1>1, <1>2, <1>3, <1>4 DEF Next

\* What the plan, the call and the record are at every moment.
THEOREM Invariance == Spec => []IInv
  BY InitInv, StepPreserves, PTL DEF Spec

-----------------------------------------------------------------------------
(* Calls and rules.                                                         *)

LEMMA CallType ==
  ASSUME NEW c \in Calls
  PROVE  /\ c.name \in Names /\ c.arch \in Arches /\ c.mode \in DOMAIN AccessMode
         /\ Captured(c.arch, c.name) > 0 => DOMAIN c.names = 1 .. Captured(c.arch, c.name)
         /\ c.name \in FdCalls => c.names = <<>>
         /\ c.target => c.name = "dup2"
         /\ NameOf(c.arch, NumberOf(c)) = c.name
         /\ Captured(c.arch, c.name) \in Nat
  <1>1. c.name \in Names /\ c.arch \in Arches /\ c.mode \in DOMAIN AccessMode
    BY FilterAssumption
  <1>2. NameOf(c.arch, NumberOf(c)) = c.name
    BY <1>1, NameOfNumber DEF NumberOf
  <1>3. Captured(c.arch, c.name) \in Nat
    BY DEF Captured
  <1> QED
    BY <1>1, <1>2, <1>3, FilterAssumption

LEMMA AccessModeType ==
  ASSUME NEW mode \in DOMAIN AccessMode
  PROVE  AccessMode[mode] \subseteq {"r", "w"}
  BY DEF AccessMode

LEMMA DoesIsExercised ==
  ASSUME NEW c \in Calls, NEW p \in Does(c)
  PROVE  <<c.name, p>> \in Exercise
  <1>1. CASE c.name \in DynamicOpen
    <2>1. p \in {"r", "w"}
      BY <1>1, CallType, AccessModeType DEF Does
    <2> QED
      BY <1>1, <2>1 DEF Exercise
  <1>2. CASE c.name \notin DynamicOpen
    BY <1>2 DEF Does
  <1> QED
    BY <1>1, <1>2

LEMMA MaskIsExercised ==
  ASSUME PlanInv, NEW c \in Calls, NEW p \in Mask(c.arch, NumberOf(c))
  PROVE  <<c.name, p>> \in Exercise /\ p \in Permissions
  BY CallType, MaskIs, ExerciseType DEF Selects, NumberOf

\* A rule about the call puts it into the tables, with a permission that the call exercises.
LEMMA AboutIsCompiled ==
  ASSUME PlanInv, NEW i \in DOMAIN plan.rules, NEW c \in Calls,
         IsAbout(plan.rules[i], c), ~OtherAbi(plan.rules[i], c)
  PROVE  /\ <<c.arch, NumberOf(c)>> \in plan.bitmap
         /\ plan.rules[i].perms # {} =>
              \E p \in plan.rules[i].perms \cap Does(c) :
                Selects(plan.rules[i], c.arch, c.name, p) /\ p \in Mask(c.arch, NumberOf(c))
  <1> DEFINE rule == plan.rules[i]
  <1>1. IsRule(rule) /\ CompileAccepts(rule) /\ rule.kind \in {"watch", "syscall"}
    BY DEF PlanInv, IsRule
  <1>2. c.arch \in Arches /\ c.name \in Names /\ NumberOf(c) = Number[c.arch][c.name]
    BY CallType DEF NumberOf
  <1>3. c.arch \in CompiledArches(rule)
    <2>1. CASE rule.kind = "watch"
      BY <1>2, <2>1 DEF CompiledArches
    <2>2. CASE rule.kind # "watch" /\ rule.arch = {}
      BY <1>1, <1>2, <2>2 DEF CompiledArches, OtherAbi, Arches
    <2>3. CASE rule.kind # "watch" /\ rule.arch # {}
      BY <2>3 DEF CompiledArches, IsAbout
    <2> QED
      BY <2>1, <2>2, <2>3
  <1>4. rule.kind = "syscall" => NumberOf(c) \in Explicit(rule, c.arch)
    BY DEF IsAbout
  <1>5. rule.kind = "watch" => rule.perms # {}
    BY <1>1, <1>3 DEF CompileAccepts
  <1>6. ASSUME rule.perms # {}
        PROVE  \E p \in rule.perms \cap Does(c) :
                 Selects(rule, c.arch, c.name, p) /\ p \in Mask(c.arch, NumberOf(c))
    <2>1. PICK p \in rule.perms \cap Does(c) : TRUE
      BY <1>6 DEF IsAbout
    <2>2. Selects(rule, c.arch, c.name, p)
      BY <1>1, <1>2, <1>3, <1>4, <2>1, DoesIsExercised DEF Selects
    <2>3. p \in Mask(c.arch, NumberOf(c))
      BY <1>2, <2>2, MaskIs
    <2> QED
      BY <2>1, <2>2, <2>3
  <1>7. <<c.arch, NumberOf(c)>> \in plan.bitmap
    <2>1. CASE rule.kind = "syscall"
      <3>1. <<c.arch, NumberOf(c)>> \in {c.arch} \X Explicit(rule, c.arch)
        BY <1>4, <2>1
      <3>2. <<c.arch, NumberOf(c)>> \in ListedNumbers(rule)
        BY <1>3, <3>1 DEF ListedNumbers
      <3> QED
        BY <3>2, PlanTables
    <2>2. CASE rule.kind = "watch"
      <3>1. PICK p : Selects(rule, c.arch, c.name, p)
        BY <1>5, <1>6, <2>2
      <3> DEFINE entry == <<c.arch, NumberOf(c), p>>
      <3>2. entry \in Coverage(rule)
        BY <1>1, <1>2, <3>1, CoverageOf
      <3>3. entry \in plan.masks
        BY <3>2, PlanTables
      <3>4. <<entry[1], entry[2]>> \in Numbers(plan.masks)
        BY <3>3 DEF Numbers
      <3> QED
        BY <3>4, PlanTables
    <2> QED
      BY <1>1, <2>1, <2>2
  <1> QED
    BY <1>6, <1>7

LEMMA SelectedArch ==
  ASSUME NEW c \in Calls, ~Misjudged(c), <<c.arch, NumberOf(c)>> \in plan.bitmap
  PROVE  c.arch \in SelectArch(c)
  BY CallType DEF SelectArch, Hint, Misjudged, Arches

-----------------------------------------------------------------------------
(* What the kernel drops.                                                   *)

LEMMA CoveredPasses ==
  ASSUME PlanInv, NEW i \in DOMAIN plan.rules, NEW c \in Calls,
         Covers(plan.rules[i], c), ~OtherAbi(plan.rules[i], c), ~OddlyNamed(plan.rules[i], c),
         ~Unfollowed(c), ~Shadowed(plan.rules[i], c)
  PROVE  Passes(c, c.arch)
  <1> DEFINE rule == plan.rules[i]
             mask == Mask(c.arch, NumberOf(c))
             maintenance == <<c.arch, NumberOf(c)>> \in plan.maintenance
  <1>1. NameOf(c.arch, NumberOf(c)) = c.name
    BY CallType
  <1>2. IsAbout(rule, c)
    BY DEF Covers
  <1>3. CASE mask # {}
    <2>1. WantsPermission(c)
      BY <1>3 DEF WantsPermission
    <2>2. ASSUME Captured(c.arch, c.name) = 0
          PROVE  c.followed
      <3>1. PICK p : <<c.name, p>> \in Exercise
        BY <1>3, MaskIsExercised
      <3>2. c.name \in FdCalls
        BY <2>2, <3>1 DEF Exercise, Captured, FdCalls, DynamicOpen, DualPath
      <3>3. ~c.target
        BY <3>2, CallType DEF FdCalls
      <3> QED
        BY <2>1, <3>2, <3>3 DEF Unfollowed
    <2>3. ASSUME Captured(c.arch, c.name) # 0
          PROVE  WatchPathCandidate(SeenNames(c, c.arch))
      <3> SUFFICES ASSUME FilterOn PROVE \E j \in DOMAIN SeenNames(c, c.arch) :
                                           NameCandidate(SeenNames(c, c.arch)[j])
        BY DEF WatchPathCandidate
      <3>1. PICK j \in DOMAIN c.names, p \in rule.path :
               /\ c.names[j].place = p.place
               /\ \/ c.names[j].form = p.spelling
                  \/ c.names[j].form \in {"suffix", "climbing"} /\ p.spelling = "plain"
        BY DEF OddlyNamed
      <3>2. p.spelling \in {"plain", "doubled"}
        BY DEF PlanInv, IsRule, ValidPath
      <3>3. p \in WatchedPaths
        BY DEF WatchedPaths
      <3>4. NameCandidate(c.names[j])
        BY <3>1, <3>2, <3>3 DEF NameCandidate
      <3>5. DOMAIN c.names = 1 .. Captured(c.arch, c.name)
        BY <2>3, CallType
      <3>6. SeenNames(c, c.arch) = [n \in 1 .. Captured(c.arch, c.name) |-> c.names[n]]
        BY <1>1 DEF SeenNames
      <3>7. j \in DOMAIN SeenNames(c, c.arch) /\ SeenNames(c, c.arch)[j] = c.names[j]
        BY <3>5, <3>6
      <3> QED
        BY <3>4, <3>7
    <2>4. maintenance \/ Actual(c, c.name, mask) = {} \/ Actual(c, c.name, mask) \cap mask # {}
      <3>1. CASE c.name \notin DynamicOpen
        BY <1>3, <3>1 DEF Actual
      <3>2. CASE c.name \in DynamicOpen
        <4>1. rule.perms # {}
          BY <2>1, <3>2 DEF Shadowed
        <4>2. PICK p \in rule.perms \cap Does(c) : p \in mask
          BY <1>2, <4>1, AboutIsCompiled
        <4>3. Actual(c, c.name, mask) = {} \/ p \in Actual(c, c.name, mask)
          BY <3>2, <4>2 DEF Actual, Does
        <4> QED
          BY <4>2, <4>3
      <3> QED
        BY <3>1, <3>2
    <2>5. PassesMask(c, c.arch, c.name, mask, maintenance)
      BY <2>2, <2>3, <2>4 DEF PassesMask
    <2> QED
      BY <1>1, <1>3, <2>5 DEF Passes
  <1>4. CASE mask = {}
    <2>1. ASSUME maintenance PROVE MaintenanceFdCandidate(c, c.name)
      <3>1. plan.maintenance # {}
        BY <2>1
      <3>2. c.name \in {"close", "dup2"} => c.followed \/ c.target
        BY <3>1 DEF Unfollowed
      <3>3. c.target => c.name = "dup2"
        BY CallType
      <3> QED
        BY <3>2, <3>3 DEF MaintenanceFdCandidate
    <2> QED
      BY <1>1, <1>4, <2>1 DEF Passes
  <1> QED
    BY <1>3, <1>4

LEMMA InvSaved == IInv => SavedIfCovered
  <1> SUFFICES ASSUME IInv, pc = "dropped", NEW i \in DOMAIN plan.rules,
                      Covers(plan.rules[i], call),
                      ~Misjudged(call), ~OtherAbi(plan.rules[i], call),
                      ~OddlyNamed(plan.rules[i], call), ~Unfollowed(call),
                      ~Shadowed(plan.rules[i], call)
               PROVE  FALSE
    BY DEF SavedIfCovered
  <1>1. PlanInv /\ call \in Calls /\ \A arch \in SelectArch(call) : ~Passes(call, arch)
    BY DEF IInv, CallInv
  <1>2. Passes(call, call.arch)
    BY <1>1, CoveredPasses
  <1>3. <<call.arch, NumberOf(call)>> \in plan.bitmap
    BY <1>1, AboutIsCompiled DEF Covers
  <1>4. call.arch \in SelectArch(call)
    BY <1>1, <1>3, SelectedArch
  <1> QED
    BY <1>1, <1>2, <1>4

-----------------------------------------------------------------------------
(* What the collector makes of the record.                                  *)

LEMMA FirstIs ==
  ASSUME NEW ids, ids \subseteq Nat
  PROVE  /\ ids = {} => First(ids) = {}
         /\ ids # {} => /\ First(ids) # {} /\ The(First(ids)) \in ids
                        /\ \A k \in ids : The(First(ids)) <= k
  <1>1. ids = {} => First(ids) = {}
    BY DEF First
  <1>2. ASSUME ids # {}
        PROVE  /\ First(ids) # {} /\ The(First(ids)) \in ids
               /\ \A k \in ids : The(First(ids)) <= k
    <2>1. \E x \in ids : \A k \in ids : x <= k
      BY <1>2, LeastElement
    <2>2. First(ids) # {}
      BY <2>1 DEF First
    <2>3. The(First(ids)) \in First(ids)
      BY <2>2 DEF The
    <2> QED
      BY <2>2, <2>3 DEF First
  <1> QED
    BY <1>1, <1>2

\* The record of a call that is taken for what it is.
LEMMA RecordIs ==
  ASSUME IInv, pc \in {"saved", "judged"}, ~Misjudged(call)
  PROVE  /\ PlanInv /\ call \in Calls /\ call.arch \in SelectArch(call)
         /\ Passes(call, call.arch)
         /\ record.arch = call.arch /\ record.name = call.name
         /\ record.permissions = EventPermissions(call, call.arch)
         /\ record.names = [n \in 1 .. Captured(call.arch, call.name) |-> call.names[n]]
         /\ Captured(call.arch, call.name) > 0 => DOMAIN record.names = DOMAIN call.names
         /\ Captured(call.arch, call.name) = 0 => DOMAIN record.names = {}
  <1>1. call \in Calls
    BY DEF IInv, CallInv
  <1>2. PICK arch \in SelectArch(call) : Passes(call, arch) /\ record = Record(call, arch)
    BY DEF IInv, CallInv
  <1>3. arch = call.arch
    BY DEF Misjudged
  <1>4. NameOf(call.arch, NumberOf(call)) = call.name
    BY <1>1, CallType
  <1>5. /\ record.arch = call.arch /\ record.name = call.name
        /\ record.permissions = EventPermissions(call, call.arch)
        /\ record.names = SeenNames(call, call.arch)
    BY <1>2, <1>3, <1>4 DEF Record
  <1>6. record.names = [n \in 1 .. Captured(call.arch, call.name) |-> call.names[n]]
    BY <1>4, <1>5 DEF SeenNames
  <1>7. DOMAIN record.names = 1 .. Captured(call.arch, call.name)
    BY <1>6
  <1>8. /\ Captured(call.arch, call.name) > 0 => DOMAIN record.names = DOMAIN call.names
        /\ Captured(call.arch, call.name) = 0 => DOMAIN record.names = {}
    BY <1>1, <1>7, CallType
  <1> QED
    BY <1>1, <1>2, <1>3, <1>5, <1>6, <1>8 DEF IInv

\* The permissions of a record are what the call does, if there are any.
LEMMA PermissionsAre ==
  ASSUME PlanInv, NEW c \in Calls
  PROVE  /\ EventPermissions(c, c.arch) \subseteq Does(c)
         /\ EventPermissions(c, c.arch) # {} =>
              Mask(c.arch, NumberOf(c)) \cap Does(c) \subseteq EventPermissions(c, c.arch)
         /\ EventPermissions(c, c.arch) = {} /\ Mask(c.arch, NumberOf(c)) # {}
              /\ Passes(c, c.arch)
              => c.name \in DynamicOpen /\ Does(c) = {"r", "w"}
  <1> DEFINE mask == Mask(c.arch, NumberOf(c))
             actual == Actual(c, c.name, mask)
  <1>1. NameOf(c.arch, NumberOf(c)) = c.name
    BY CallType
  <1>2. EventPermissions(c, c.arch) = IF actual \cap mask = {} THEN {} ELSE actual
    BY <1>1 DEF EventPermissions
  <1>3. mask \subseteq Permissions /\ \A p \in mask : <<c.name, p>> \in Exercise
    BY MaskIsExercised
  <1>4. CASE c.name \notin DynamicOpen
    <2>1. actual = mask
      BY <1>4 DEF Actual
    <2>2. mask \subseteq Does(c)
      BY <1>3, <1>4 DEF Does
    <2> QED
      BY <1>2, <2>1, <2>2
  <1>5. CASE c.name \in DynamicOpen
    <2>1. actual = AccessMode[c.mode]
      BY <1>5 DEF Actual
    <2>2. Does(c) = IF actual = {} THEN {"r", "w"} ELSE actual
      BY <1>5, <2>1 DEF Does
    <2>3. ASSUME mask # {}, Passes(c, c.arch)
          PROVE  actual = {} \/ actual \cap mask # {}
      <3>1. <<c.arch, NumberOf(c)>> \notin plan.maintenance
        <4>1. ASSUME <<c.arch, NumberOf(c)>> \in plan.maintenance PROVE FALSE
          <5>1. <<c.arch, NumberOf(c)>> \in MaintenanceNumbers
            BY <4>1, PlanTables DEF Maintained
          <5>2. PICK arch \in Arches, name \in Maintenance :
                  <<c.arch, NumberOf(c)>> = <<arch, Number[arch][name]>>
            BY <5>1 DEF MaintenanceNumbers
          <5>3. name \in Names /\ c.name \in Names /\ c.arch \in Arches
            BY NamesAre, CallType DEF Maintenance
          <5>4. Number[c.arch][c.name] = Number[c.arch][name]
            BY <5>2 DEF NumberOf
          <5>5. c.name = name
            BY <5>3, <5>4, NumberInjective
          <5> QED
            BY <1>5, <5>5 DEF Maintenance, DynamicOpen
        <4> QED
          BY <4>1
      <3> QED
        BY <1>1, <2>3, <3>1 DEF Passes, PassesMask
    <2> QED
      BY <1>2, <1>5, <2>2, <2>3
  <1> QED
    BY <1>4, <1>5

LEMMA PathsAre ==
  ASSUME Resolve.ok
  PROVE  /\ \A path \in Range(Resolve.paths) :
              \/ path \in Range(call.file)
              \/ \E j \in DOMAIN record.names : path = ReadPlace(record.names[j])
         /\ RequiresResolvedPath(plan, record.arch, record.name) =>
              /\ \A j \in DOMAIN record.names : record.names[j].form # "long"
              /\ Requests = {} /\ record.name \in FdCalls =>
                   Range(call.file) = Range(Resolve.paths)
              /\ ~(Requests = {} /\ record.name \in FdCalls) =>
                   \A j \in Requests : ReadPlace(record.names[j]) \in Range(Resolve.paths)
  <1> DEFINE required == RequiresResolvedPath(plan, record.arch, record.name)
             long == \E j \in DOMAIN record.names : record.names[j].form = "long"
             byFd == Requests = {} /\ record.name \in FdCalls
             read == [j \in Requests |-> ReadPlace(record.names[j])]
  <1>1. ~Lost.ok
    BY DEF Lost
  <1>2. \A paths : Paths(paths).paths = paths
    BY DEF Paths
  <1>3. Range(<<>>) = {}
    BY DEF Range
  <1>4. ~(required /\ long)
    BY <1>1 DEF Resolve
  <1>5. CASE byFd /\ call.known
    <2>1. Resolve = Paths(call.file)
      BY <1>4, <1>5 DEF Resolve
    <2> QED
      BY <1>2, <1>4, <1>5, <2>1
  <1>6. CASE ~byFd /\ \A j \in Requests : Resolvable(record.names[j])
    <2>1. Resolve = Paths(read)
      BY <1>4, <1>6 DEF Resolve
    <2>2. Range(Resolve.paths) = {ReadPlace(record.names[j]) : j \in Requests}
      BY <1>2, <2>1 DEF Range
    <2>3. Requests \subseteq DOMAIN record.names
      BY DEF Requests
    <2> QED
      BY <1>4, <1>6, <2>2, <2>3
  <1>7. CASE ~(byFd /\ call.known) /\ ~(~byFd /\ \A j \in Requests : Resolvable(record.names[j]))
    <2>1. Resolve = IF required THEN Lost ELSE Paths(<<>>)
      BY <1>4, <1>7 DEF Resolve
    <2>2. ~required /\ Resolve.paths = <<>>
      BY <1>1, <1>2, <2>1
    <2> QED
      BY <1>3, <2>2
  <1> QED
    BY <1>5, <1>6, <1>7

\* A rule that matches the record covers the call, or matches a path that was cut off.
LEMMA MatchCovers ==
  ASSUME IInv, pc \in {"saved", "judged"}, ~Misjudged(call), Resolve.ok,
         NEW i \in DOMAIN plan.rules, NEW perms,
         Matches(plan, i, Event(perms), Resolve.paths),
         plan.rules[i].perms = {} \/ plan.rules[i].perms \cap Does(call) # {}
  PROVE  Covers(plan.rules[i], call) \/ CutOff(plan.rules[i], call)
  <1> DEFINE rule == plan.rules[i]
  <1>1. /\ RuleOfCall(plan, i, call.arch, call.name)
        /\ MatchesIdentity(rule, Event(perms))
        /\ NeedsPath(rule) => \E path \in Range(Resolve.paths) : MatchesPath(rule, path)
    BY RecordIs DEF Matches, Event
  <1>2. IsAbout(rule, call)
    <2>1. ASSUME rule.kind = "syscall"
          PROVE  NumberOf(call) \in Explicit(rule, call.arch)
      <3>1. Named(call.name) \in rule.syscalls
        BY <1>1, <2>1 DEF RuleOfCall, RuleCoversSyscall
      <3>2. call.name \in Names /\ call.name # ""
        BY RecordIs, CallType, NamesAre
      <3>3. NumberOf(call) \in SyscallNumber(call.arch, Named(call.name))
        BY <3>2 DEF SyscallNumber, Named, NumberOf
      <3> QED
        BY <3>1, <3>3 DEF Explicit
    <2>2. rule.arch = {} \/ call.arch \in rule.arch
      BY <1>1 DEF RuleOfCall
    <2> QED
      BY <2>1, <2>2 DEF IsAbout
  <1>3. MatchesIdentity(rule, call)
    BY <1>1 DEF MatchesIdentity, Event
  <1>4. ASSUME NeedsPath(rule)
        PROVE  (\E place \in Places(call) : MatchesPath(rule, place)) \/ CutOff(rule, call)
    <2>1. PICK path \in Range(Resolve.paths) : MatchesPath(rule, path)
      BY <1>1, <1>4
    <2>2. CASE path \in Range(call.file)
      BY <2>1, <2>2 DEF Places
    <2>3. CASE path \notin Range(call.file)
      <3>1. PICK j \in DOMAIN record.names : path = ReadPlace(record.names[j])
        BY <2>3, PathsAre
      <3>2. RequiresResolvedPath(plan, record.arch, record.name)
        BY <1>1, <1>4, RecordIs DEF RequiresResolvedPath
      <3>3. record.names[j].form # "long"
        BY <3>2, PathsAre
      <3>4. j \in DOMAIN call.names /\ record.names[j] = call.names[j]
        <4>1. /\ record.names = [n \in 1 .. Captured(call.arch, call.name) |-> call.names[n]]
              /\ Captured(call.arch, call.name) \in Nat
              /\ Captured(call.arch, call.name) > 0 => DOMAIN record.names = DOMAIN call.names
              /\ Captured(call.arch, call.name) = 0 => DOMAIN record.names = {}
          BY RecordIs, CallType
        <4> QED
          BY <4>1
      <3>5. CASE call.names[j].form = "cut"
        BY <1>4, <2>1, <3>1, <3>4, <3>5 DEF CutOff
      <3>6. CASE call.names[j].form # "cut"
        <4>1. path = call.names[j].place
          BY <3>1, <3>3, <3>4, <3>6 DEF ReadPlace
        <4> QED
          BY <2>1, <3>4, <4>1 DEF Places
      <3> QED
        BY <3>5, <3>6
    <2> QED
      BY <2>2, <2>3
  <1> QED
    BY <1>2, <1>3, <1>4 DEF Covers

\* A rule that covers the call, and whose path is in the record, matches the record.
LEMMA CoverMatches ==
  ASSUME IInv, pc \in {"saved", "judged"}, ~Misjudged(call), Resolve.ok,
         NEW i \in DOMAIN plan.rules, Covers(plan.rules[i], call),
         ~OtherAbi(plan.rules[i], call), ~ByNumber(plan.rules[i], call),
         ~Nameless(plan.rules[i], call),
         NEW perms, plan.rules[i].perms = {} \/ plan.rules[i].perms \cap perms # {}
  PROVE  /\ Matches(plan, i, Event(perms), Resolve.paths)
         /\ RuleOfCall(plan, i, record.arch, record.name)
  <1> DEFINE rule == plan.rules[i]
  <1>1. /\ PlanInv /\ call \in Calls /\ record.arch = call.arch /\ record.name = call.name
        /\ IsAbout(rule, call)
    BY RecordIs DEF Covers
  <1>2. RuleOfCall(plan, i, call.arch, call.name)
    <2>1. CASE rule.kind = "syscall"
      BY <1>1, <2>1 DEF RuleOfCall, RuleCoversSyscall, IsAbout, ByNumber
    <2>2. CASE rule.kind # "syscall"
      <3>1. CompileAccepts(rule) /\ rule.kind = "watch"
        BY <1>1, <2>2 DEF PlanInv, IsRule
      <3>2. rule.perms # {}
        BY <3>1 DEF CompileAccepts, CompiledArches, Arches
      <3>3. PICK p \in rule.perms : Selects(rule, call.arch, call.name, p)
        BY <1>1, <3>2, AboutIsCompiled
      <3>4. p \in Permissions /\ call.name \in Names /\ call.arch \in Arches
        BY <1>1, <3>3, CallType, ExerciseType DEF Selects
      <3>5. <<call.arch, Number[call.arch][call.name]>> \in plan.effective[i]
        BY <1>1, <3>3, <3>4, EffectiveIs
      <3> QED
        BY <1>1, <2>2, <3>4, <3>5 DEF RuleOfCall, RuleCoversSyscall, IsAbout
    <2> QED
      BY <2>1, <2>2
  <1>3. MatchesIdentity(rule, Event(perms))
    BY DEF Covers, MatchesIdentity, Event
  <1>4. ASSUME NeedsPath(rule)
        PROVE  \E path \in Range(Resolve.paths) : MatchesPath(rule, path)
    <2>1. RequiresResolvedPath(plan, record.arch, record.name)
      BY <1>1, <1>2, <1>4 DEF RequiresResolvedPath
    <2>2. PICK place \in Places(call) : MatchesPath(rule, place)
      BY <1>4 DEF Covers
    <2>3. CASE call.name \in FdCalls
      <3>1. Captured(call.arch, call.name) = 0
        BY <2>3 DEF FdCalls, Captured, DualPath
      <3>2. DOMAIN record.names = {} /\ call.names = <<>>
        BY <1>1, <2>3, <3>1, RecordIs, CallType
      <3>3. Requests = {}
        BY <3>2 DEF Requests
      <3>4. Range(call.file) = Range(Resolve.paths)
        BY <1>1, <2>1, <2>3, <3>3, PathsAre
      <3>5. place \in Range(call.file)
        BY <2>2, <3>2 DEF Places
      <3> QED
        BY <2>2, <3>4, <3>5
    <2>4. CASE call.name \notin FdCalls
      <3>1. PICK j \in DOMAIN call.names :
              /\ MatchesPath(rule, call.names[j].place)
              /\ call.names[j].form \notin {"unreadable", "cut"}
              /\ Captured(call.arch, call.name) # 0
        BY <1>4, <2>4 DEF Nameless
      <3>2. /\ record.names = [n \in 1 .. Captured(call.arch, call.name) |-> call.names[n]]
            /\ Captured(call.arch, call.name) > 0
            /\ DOMAIN record.names = DOMAIN call.names
        BY <1>1, <3>1, RecordIs, CallType
      <3>3. j \in DOMAIN record.names /\ record.names[j] = call.names[j]
        BY <3>2
      <3>4. record.names[j].form # "long"
        BY <2>1, <3>3, PathsAre
      <3>5. ReadPlace(record.names[j]) = call.names[j].place
        BY <3>1, <3>3, <3>4 DEF ReadPlace
      <3>6. j \in Requests
        BY <3>1, <3>3 DEF Requests
      <3>7. ReadPlace(record.names[j]) \in Range(Resolve.paths)
        BY <1>1, <2>1, <2>4, <3>6, PathsAre
      <3> QED
        BY <3>1, <3>5, <3>7
    <2> QED
      BY <2>3, <2>4
  <1> QED
    BY <1>1, <1>2, <1>3, <1>4 DEF Matches, Event

\* The engine's answer: no rule matches, or the first of those that do.
LEMMA HitIs ==
  ASSUME PlanInv, NEW event, NEW paths
  PROVE  /\ EvaluatePaths(plan, event, paths) = {} =>
              \A i \in DOMAIN plan.rules : ~Matches(plan, i, event, paths)
         /\ EvaluatePaths(plan, event, paths) # {} =>
              /\ The(EvaluatePaths(plan, event, paths)) \in DOMAIN plan.rules
              /\ Matches(plan, The(EvaluatePaths(plan, event, paths)), event, paths)
              /\ \A i \in DOMAIN plan.rules : Matches(plan, i, event, paths) =>
                   The(EvaluatePaths(plan, event, paths)) <= i
  <1> DEFINE ids == {i \in DOMAIN plan.rules : Matches(plan, i, event, paths)}
  <1>1. ids \subseteq Nat
    BY DEF PlanInv
  <1>2. EvaluatePaths(plan, event, paths) = First(ids)
    BY DEF EvaluatePaths
  <1>3. /\ First(ids) = {} => ids = {}
        /\ First(ids) # {} => The(First(ids)) \in ids /\ \A k \in ids : The(First(ids)) <= k
    <2> HIDE DEF ids
    <2> QED
      BY <1>1, FirstIs
  <1> QED
    BY <1>2, <1>3

\* The verdict, by what is said.
LEMMA VerdictIs ==
  ASSUME IInv
  PROVE  LET hit(permissions) == EvaluatePaths(plan, Event(permissions), Resolve.paths) IN
         /\ verdict.said # "nothing" => pc = "judged"
         /\ verdict.said = "nothing" => ~verdict.gap
         /\ verdict.said \in {"nothing", "path lost", "no permissions", "unmatched", "line"}
         /\ verdict.said = "path lost" =>
              (verdict.gap <=> IsWatchCandidate(plan, record.arch, record.name))
         /\ verdict.said = "no permissions" =>
              /\ Resolve.ok /\ record.permissions = {} /\ hit(Permissions) # {}
              /\ RequiresPermission(plan, record.arch, record.name)
         /\ verdict.said \in {"line", "unmatched"} =>
              /\ Resolve.ok /\ ~verdict.gap
              /\ record.permissions = {} /\ RequiresPermission(plan, record.arch, record.name)
                   => hit(Permissions) = {}
         /\ verdict.said = "unmatched" => hit(record.permissions) = {}
         /\ verdict.said = "line" =>
              /\ hit(record.permissions) # {}
              /\ verdict.rule = The(hit(record.permissions))
         /\ verdict.said # "line" => verdict.rule = 0
  <1> DEFINE any == EvaluatePaths(plan, Event(Permissions), Resolve.paths)
             own == EvaluatePaths(plan, Event(record.permissions), Resolve.paths)
             resolved == Resolve.ok
             unknown == record.permissions = {}
             watched == IsWatchCandidate(plan, record.arch, record.name)
             wanted == RequiresPermission(plan, record.arch, record.name)
             Facts ==
               /\ verdict.said # "nothing" => pc = "judged"
               /\ verdict.said = "nothing" => ~verdict.gap
               /\ verdict.said \in {"nothing", "path lost", "no permissions", "unmatched", "line"}
               /\ verdict.said = "path lost" => (verdict.gap <=> watched)
               /\ verdict.said = "no permissions" => resolved /\ unknown /\ any # {} /\ wanted
               /\ verdict.said \in {"line", "unmatched"} =>
                    resolved /\ ~verdict.gap /\ (unknown /\ wanted => any = {})
               /\ verdict.said = "unmatched" => own = {}
               /\ verdict.said = "line" => own # {} /\ verdict.rule = The(own)
               /\ verdict.said # "line" => verdict.rule = 0
  <1>1. verdict = IF pc = "judged" THEN Judgement ELSE NoVerdict
    BY DEF IInv, CallInv
  <1>2. Judgement =
          IF ~resolved THEN Verdict("path lost", 0, watched)
          ELSE IF unknown /\ wanted /\ any # {} THEN Verdict("no permissions", 0, TRUE)
          ELSE IF own = {} THEN Verdict("unmatched", 0, FALSE)
          ELSE Verdict("line", The(own), FALSE)
    BY DEF Judgement
  <1> HIDE DEF any, own, resolved, unknown, watched, wanted
  <1>3. NoVerdict.said = "nothing" /\ NoVerdict.rule = 0 /\ ~NoVerdict.gap
    BY DEF NoVerdict, Verdict
  <1>4. Facts
    <2>1. CASE pc # "judged"
      BY <1>1, <1>3, <2>1
    <2>2. CASE pc = "judged" /\ ~resolved
      <3>1. verdict = Verdict("path lost", 0, watched)
        BY <1>1, <1>2, <2>2
      <3>2. verdict.said = "path lost" /\ verdict.rule = 0 /\ (verdict.gap <=> watched)
        BY <3>1 DEF Verdict
      <3> QED
        BY <2>2, <3>2
    <2>3. CASE pc = "judged" /\ resolved /\ unknown /\ wanted /\ any # {}
      <3>1. verdict = Verdict("no permissions", 0, TRUE)
        BY <1>1, <1>2, <2>3
      <3>2. verdict.said = "no permissions" /\ verdict.rule = 0 /\ verdict.gap
        BY <3>1 DEF Verdict
      <3> QED
        BY <2>3, <3>2
    <2>4. CASE pc = "judged" /\ resolved /\ ~(unknown /\ wanted /\ any # {}) /\ own = {}
      <3>1. verdict = Verdict("unmatched", 0, FALSE)
        BY <1>1, <1>2, <2>4
      <3>2. verdict.said = "unmatched" /\ verdict.rule = 0 /\ ~verdict.gap
        BY <3>1 DEF Verdict
      <3> QED
        BY <2>4, <3>2
    <2>5. CASE pc = "judged" /\ resolved /\ ~(unknown /\ wanted /\ any # {}) /\ own # {}
      <3>1. verdict = Verdict("line", The(own), FALSE)
        BY <1>1, <1>2, <2>5
      <3>2. verdict.said = "line" /\ verdict.rule = The(own) /\ ~verdict.gap
        BY <3>1 DEF Verdict
      <3> QED
        BY <2>5, <3>2
    <2> QED
      BY <2>1, <2>2, <2>3, <2>4, <2>5
  <1> QED
    BY <1>4 DEF any, own, resolved, unknown, watched, wanted

\* A covered call that is neither a gap nor without its paths is a hit of the engine.
LEMMA CoveredIsHit ==
  ASSUME IInv, verdict.said \in {"line", "unmatched"}, ~Misjudged(call),
         NEW i \in DOMAIN plan.rules, Covers(plan.rules[i], call),
         ~OtherAbi(plan.rules[i], call), ~ByNumber(plan.rules[i], call),
         ~Nameless(plan.rules[i], call)
  PROVE  Matches(plan, i, Event(record.permissions), Resolve.paths)
  <1> DEFINE rule == plan.rules[i]
  <1>1. pc = "judged" /\ Resolve.ok
    BY VerdictIs
  <1>2. /\ PlanInv /\ call \in Calls /\ IsAbout(rule, call)
        /\ record.permissions = EventPermissions(call, call.arch)
    BY <1>1, RecordIs DEF Covers
  <1>3. CASE rule.perms = {}
    BY <1>1, <1>3, CoverMatches
  <1>4. CASE rule.perms # {} /\ record.permissions # {}
    <2>1. PICK p \in rule.perms \cap Does(call) : p \in Mask(call.arch, NumberOf(call))
      BY <1>2, <1>4, AboutIsCompiled
    <2>2. p \in record.permissions
      BY <1>2, <1>4, <2>1, PermissionsAre
    <2> QED
      BY <1>1, <2>1, <2>2, CoverMatches
  <1>5. CASE rule.perms # {} /\ record.permissions = {}
    <2>1. rule.perms \cap Permissions # {}
      BY <1>2, <1>5 DEF PlanInv, IsRule
    <2>2. /\ Matches(plan, i, Event(Permissions), Resolve.paths)
          /\ RuleOfCall(plan, i, record.arch, record.name)
      BY <1>1, <2>1, CoverMatches
    <2>3. RequiresPermission(plan, record.arch, record.name)
      BY <1>5, <2>2 DEF RequiresPermission
    <2>4. EvaluatePaths(plan, Event(Permissions), Resolve.paths) = {}
      BY <1>5, <2>3, VerdictIs
    <2>5. ~Matches(plan, i, Event(Permissions), Resolve.paths)
      BY <1>2, <2>4, HitIs
    <2> QED
      BY <2>2, <2>5
  <1> QED
    BY <1>3, <1>4, <1>5

LEMMA InvLine == IInv => LineNamesFirstRule
  <1> SUFFICES ASSUME IInv, verdict.said = "line", ~Misjudged(call)
               PROVE  /\ \/ Covers(plan.rules[verdict.rule], call)
                         \/ CutOff(plan.rules[verdict.rule], call)
                      /\ \A i \in 1 .. verdict.rule - 1 :
                           Covers(plan.rules[i], call) =>
                             \/ ByNumber(plan.rules[i], call) \/ Nameless(plan.rules[i], call)
                             \/ OtherAbi(plan.rules[i], call)
    BY DEF LineNamesFirstRule
  <1> DEFINE event == Event(record.permissions)
             r == verdict.rule
  <1>1. /\ pc = "judged" /\ Resolve.ok /\ EvaluatePaths(plan, event, Resolve.paths) # {}
        /\ r = The(EvaluatePaths(plan, event, Resolve.paths))
    BY VerdictIs
  <1>2. PlanInv /\ call \in Calls /\ record.permissions = EventPermissions(call, call.arch)
    BY <1>1, RecordIs
  <1>3. /\ r \in DOMAIN plan.rules /\ Matches(plan, r, event, Resolve.paths)
        /\ \A i \in DOMAIN plan.rules : Matches(plan, i, event, Resolve.paths) => r <= i
    BY <1>1, <1>2, HitIs
  <1>4. plan.rules[r].perms = {} \/ plan.rules[r].perms \cap Does(call) # {}
    <2>1. plan.rules[r].perms = {} \/ plan.rules[r].perms \cap record.permissions # {}
      BY <1>3 DEF Matches, Event
    <2>2. record.permissions \subseteq Does(call)
      BY <1>2, PermissionsAre
    <2> QED
      BY <2>1, <2>2
  <1>5. Covers(plan.rules[r], call) \/ CutOff(plan.rules[r], call)
    BY <1>1, <1>3, <1>4, MatchCovers
  <1>6. ASSUME NEW i \in 1 .. r - 1, Covers(plan.rules[i], call),
               ~ByNumber(plan.rules[i], call), ~Nameless(plan.rules[i], call),
               ~OtherAbi(plan.rules[i], call)
        PROVE  FALSE
    <2>1. i \in DOMAIN plan.rules /\ r \in Nat /\ i < r
      BY <1>2, <1>3 DEF PlanInv
    <2>2. Matches(plan, i, event, Resolve.paths)
      BY <1>6, <2>1, CoveredIsHit
    <2> QED
      BY <1>3, <2>1, <2>2
  <1> QED
    BY <1>5, <1>6

LEMMA InvAccounted == IInv => CoveredIsAccounted
  <1> SUFFICES ASSUME IInv, verdict.said = "unmatched", ~Misjudged(call),
                      NEW i \in DOMAIN plan.rules, Covers(plan.rules[i], call),
                      ~OtherAbi(plan.rules[i], call), ~ByNumber(plan.rules[i], call),
                      ~Nameless(plan.rules[i], call)
               PROVE  FALSE
    BY DEF CoveredIsAccounted
  <1>1. EvaluatePaths(plan, Event(record.permissions), Resolve.paths) = {} /\ PlanInv
    BY VerdictIs DEF IInv
  <1>2. Matches(plan, i, Event(record.permissions), Resolve.paths)
    BY CoveredIsHit
  <1> QED
    BY <1>1, <1>2, HitIs

\* A rule with permissions that the engine would match, whatever the call does, matches
\* what it does when the record does not say it.
LEMMA UnknownIsMet ==
  ASSUME IInv, pc \in {"saved", "judged"}, ~Misjudged(call), record.permissions = {},
         NEW i \in DOMAIN plan.rules, RuleOfCall(plan, i, call.arch, call.name),
         plan.rules[i].perms # {}, ~OtherAbi(plan.rules[i], call)
  PROVE  plan.rules[i].perms \cap Does(call) # {}
  <1> DEFINE rule == plan.rules[i]
  <1>1. /\ PlanInv /\ call \in Calls /\ Passes(call, call.arch)
        /\ EventPermissions(call, call.arch) = {}
    BY RecordIs
  <1>2. IsRule(rule) /\ CompileAccepts(rule) /\ call.arch \in Arches /\ call.name \in Names
    BY <1>1, CallType DEF PlanInv
  <1>3. \E p \in Permissions : Selects(rule, call.arch, call.name, p)
    <2>1. CASE rule.kind = "watch"
      <3>1. <<call.arch, Number[call.arch][call.name]>> \in plan.effective[i]
        BY <2>1 DEF RuleOfCall, RuleCoversSyscall
      <3> QED
        BY <1>1, <1>2, <3>1, EffectiveIs
    <2>2. CASE rule.kind # "watch"
      <3>1. rule.kind = "syscall"
        BY <1>2, <2>2 DEF IsRule
      <3>2. call.arch \in CompiledArches(rule)
        BY <1>2, <3>1 DEF CompiledArches, OtherAbi, RuleOfCall, Arches
      <3>3. Named(call.name) \in rule.syscalls
        BY <3>1 DEF RuleOfCall, RuleCoversSyscall
      <3>4. Number[call.arch][call.name] \in Explicit(rule, call.arch)
        <4>1. call.name # ""
          BY <1>2, NamesAre
        <4>2. Number[call.arch][call.name] \in SyscallNumber(call.arch, Named(call.name))
          BY <1>2, <4>1 DEF SyscallNumber, Named
        <4> QED
          BY <3>3, <4>2 DEF Explicit
      <3>5. PICK e \in Selected(rule, call.arch) : e[1] = Number[call.arch][call.name]
        BY <1>2, <3>2, <3>4 DEF CompileAccepts
      <3>6. PICK name \in Names, p \in Permissions :
              /\ e = <<Number[call.arch][name], p>>
              /\ <<name, p>> \in Exercise /\ p \in rule.perms
              /\ rule.kind = "watch" \/ Number[call.arch][name] \in Explicit(rule, call.arch)
        <4> DEFINE a == call.arch
        <4>1. IsRule(rule) /\ a \in Arches /\ e \in Selected(rule, a)
          BY <1>2
        <4> HIDE DEF a, rule
        <4>2. \E name \in Names, p \in Permissions :
                /\ e = <<Number[a][name], p>>
                /\ <<name, p>> \in Exercise /\ p \in rule.perms
                /\ rule.kind = "watch" \/ Number[a][name] \in Explicit(rule, a)
          BY <4>1, SelectedAre
        <4> QED
          BY <4>2 DEF a
      <3>7. name = call.name
        BY <1>2, <3>5, <3>6, NumberInjective
      <3> QED
        BY <3>2, <3>4, <3>6, <3>7 DEF Selects
    <2> QED
      BY <2>1, <2>2
  <1>4. PICK p \in Permissions : Selects(rule, call.arch, call.name, p)
    BY <1>3
  <1>5. p \in Mask(call.arch, NumberOf(call))
    BY <1>1, <1>2, <1>4, MaskIs DEF NumberOf
  <1>6. call.name \in DynamicOpen /\ Does(call) = {"r", "w"}
    BY <1>1, <1>5, PermissionsAre
  <1>7. p \in {"r", "w"} /\ p \in rule.perms
    <2>1. <<call.name, p>> \in Exercise /\ p \in rule.perms
      BY <1>4 DEF Selects
    <2> QED
      BY <1>6, <2>1 DEF Exercise, DynamicOpen
  <1> QED
    BY <1>6, <1>7

LEMMA InvGap == IInv => GapIsWarranted
  <1> SUFFICES ASSUME IInv, verdict.gap, ~Misjudged(call)
               PROVE  /\ \E i \in DOMAIN plan.rules : RuleOfCall(plan, i, call.arch, call.name)
                      /\ verdict.said = "no permissions" =>
                           \E i \in DOMAIN plan.rules :
                             \/ Covers(plan.rules[i], call) \/ OtherAbi(plan.rules[i], call)
                             \/ CutOff(plan.rules[i], call)
    BY DEF GapIsWarranted
  <1>1. pc = "judged" /\ verdict.said \in {"path lost", "no permissions"}
    BY VerdictIs
  <1>2. PlanInv /\ record.arch = call.arch /\ record.name = call.name
    BY <1>1, RecordIs
  <1>3. \E i \in DOMAIN plan.rules : RuleOfCall(plan, i, call.arch, call.name)
    <2>1. CASE verdict.said = "path lost"
      <3>1. IsWatchCandidate(plan, record.arch, record.name)
        BY <2>1, VerdictIs
      <3> QED
        BY <1>2, <3>1 DEF IsWatchCandidate
    <2>2. CASE verdict.said = "no permissions"
      <3>1. RequiresPermission(plan, record.arch, record.name)
        BY <2>2, VerdictIs
      <3> QED
        BY <1>2, <3>1 DEF RequiresPermission
    <2> QED
      BY <1>1, <2>1, <2>2
  <1>4. ASSUME verdict.said = "no permissions"
        PROVE  \E i \in DOMAIN plan.rules :
                 \/ Covers(plan.rules[i], call) \/ OtherAbi(plan.rules[i], call)
                 \/ CutOff(plan.rules[i], call)
    <2>1. /\ Resolve.ok /\ record.permissions = {}
          /\ EvaluatePaths(plan, Event(Permissions), Resolve.paths) # {}
      BY <1>4, VerdictIs
    <2>2. PICK i \in DOMAIN plan.rules : Matches(plan, i, Event(Permissions), Resolve.paths)
      BY <1>2, <2>1, HitIs
    <2>3. CASE OtherAbi(plan.rules[i], call)
      BY <2>3
    <2>4. CASE ~OtherAbi(plan.rules[i], call)
      <3>1. RuleOfCall(plan, i, call.arch, call.name)
        BY <1>2, <2>2 DEF Matches, Event
      <3>2. plan.rules[i].perms = {} \/ plan.rules[i].perms \cap Does(call) # {}
        BY <1>1, <2>1, <2>4, <3>1, UnknownIsMet
      <3>3. Covers(plan.rules[i], call) \/ CutOff(plan.rules[i], call)
        BY <1>1, <2>1, <2>2, <3>2, MatchCovers
      <3> QED
        BY <3>3
    <2> QED
      BY <2>3, <2>4
  <1> QED
    BY <1>3, <1>4

LEMMA InvType == IInv => TypeOK
  <1> SUFFICES ASSUME IInv PROVE TypeOK
    OBVIOUS
  <1>1. PlanInv /\ CallInv
    BY DEF IInv
  <1>2. ASSUME NEW i \in DOMAIN plan.rules
        PROVE  /\ ListedNumbers(plan.rules[i]) \subseteq Arches \X (0 .. 511)
               /\ Coverage(plan.rules[i]) \subseteq Arches \X (0 .. 511) \X Permissions
    <2>1. IsRule(plan.rules[i])
      BY <1>1 DEF PlanInv
    <2>2. CompiledArches(plan.rules[i]) \subseteq Arches
      BY <2>1 DEF CompiledArches, Arches, IsRule
    <2>3. ASSUME NEW arch \in Arches PROVE Explicit(plan.rules[i], arch) \subseteq 0 .. 511
      <3>1. ASSUME NEW token, NEW number \in SyscallNumber(arch, token)
            PROVE  number \in 0 .. 511
        <4>1. CASE token.name = ""
          BY <3>1, <4>1 DEF SyscallNumber
        <4>2. CASE token.name # ""
          <5>1. number \in {Number[arch][name] : name \in {token.name} \cap Names}
            BY <3>1, <4>2, Zenon DEF SyscallNumber
          <5>2. token.name \in Names /\ number = Number[arch][token.name]
            BY <5>1, Zenon
          <5> QED
            BY <5>2, NumbersAre, Zenon
        <4> QED
          BY <4>1, <4>2
      <3> QED
        BY <3>1 DEF Explicit
    <2>4. ListedNumbers(plan.rules[i]) \subseteq Arches \X (0 .. 511)
      <3>1. ASSUME NEW x \in ListedNumbers(plan.rules[i]) PROVE x \in Arches \X (0 .. 511)
        <4>1. PICK arch \in CompiledArches(plan.rules[i]) :
                x \in {arch} \X Explicit(plan.rules[i], arch)
          BY DEF ListedNumbers
        <4> QED
          BY <2>2, <2>3, <4>1
      <3> QED
        BY <3>1
    <2>5. Coverage(plan.rules[i]) \subseteq Arches \X (0 .. 511) \X Permissions
      BY <2>1, CoverageIs, NumbersAre
    <2> QED
      BY <2>4, <2>5
  <1>3. plan.masks \subseteq Arches \X (0 .. 511) \X Permissions
    BY <1>1, <1>2, PlanTables
  <1>4. Numbers(plan.masks) \subseteq Arches \X (0 .. 511)
    BY <1>3 DEF Numbers
  <1>5. Maintained(plan.rules) \subseteq Arches \X (0 .. 511)
    <2>1. Maintenance \subseteq Names
      BY NamesAre DEF Maintenance
    <2>2. MaintenanceNumbers \subseteq Arches \X (0 .. 511)
      BY <2>1, NumbersAre DEF MaintenanceNumbers
    <2> QED
      BY <2>2 DEF Maintained
  <1>6. plan.bitmap \subseteq Arches \X (0 .. 511) /\ plan.maintenance \subseteq plan.bitmap
    BY <1>1, <1>2, <1>4, <1>5, PlanTables
  <1>7. call.name \in Names \cup {NoCall.name}
    BY <1>1, CallType DEF CallInv
  <1>8. record = NoRecord \/ record.permissions \subseteq Permissions
    <2>1. ASSUME pc \in {"saved", "judged"} PROVE record.permissions \subseteq Permissions
      <3>1. PICK arch \in SelectArch(call) : record = Record(call, arch)
        BY <1>1, <2>1 DEF CallInv
      <3>2. call \in Calls
        BY <1>1, <2>1 DEF CallInv
      <3>3. record.permissions = EventPermissions(call, arch)
        BY <3>1 DEF Record
      <3>4. Mask(arch, NumberOf(call)) \subseteq Permissions
        BY <1>3 DEF Mask
      <3>5. AccessMode[call.mode] \subseteq Permissions
        BY <3>2, CallType, AccessModeType DEF Permissions
      <3> QED
        BY <3>3, <3>4, <3>5 DEF EventPermissions, Actual
    <2> QED
      BY <1>1, <2>1 DEF CallInv
  <1>9. verdict.rule \in {0} \cup DOMAIN plan.rules
    BY <1>1, VerdictIs, HitIs
  <1> QED
    BY <1>1, <1>3, <1>6, <1>7, <1>8, <1>9 DEF TypeOK, CallInv

-----------------------------------------------------------------------------
(* The theorems.                                                            *)

\* The tables hold numbers the kernel maps have room for, what is kept for the tables of
\* descriptors is in the bitmap, and a verdict names a rule of the plan.
THEOREM TypeCorrect == Spec => []TypeOK
  BY Invariance, InvType, PTL

\* sys_enter drops no call that a rule covers, but for the reasons SavedIfCovered lists:
\* the tables and the path filter ask for no more than the rules do.
THEOREM DroppedIsNotCovered == Spec => []SavedIfCovered
  BY Invariance, InvSaved, PTL

\* A line is output for a rule that covers the call or whose path was cut off, and no
\* rule before it covers the call and has what it asks for in the record.
THEOREM LineIsOfFirstRule == Spec => []LineNamesFirstRule
  BY Invariance, InvLine, PTL

\* A call that sys_enter saved and a rule covers is not passed over in silence, if the
\* record has the path and the rule is given by name and compiled for its ABI.
THEOREM CoveredIsHeardOf == Spec => []CoveredIsAccounted
  BY Invariance, InvAccounted, PTL

\* No gap is output for a call that no rule is about, and none for missing permissions
\* of a call that no rule would match.
THEOREM GapHasItsRule == Spec => []GapIsWarranted
  BY Invariance, InvGap, PTL
=============================================================================

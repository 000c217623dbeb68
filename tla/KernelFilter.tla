---------------------------- MODULE KernelFilter ----------------------------
(***************************************************************************)
(* One system call under one set of rules, from sys_enter to the verdict.  *)
(* The kernel program drops what its tables show to be of no interest; the *)
(* collector resolves the names of what is left and asks the engine. The   *)
(* two see different halves of a call, and each has its own idea of a rule:*)
(* what the engine would report must not have been dropped before.         *)
(*                                                                         *)
(* The rules of a record are those of its rule version, so that they are   *)
(* the rules it was filtered by (RuleReload). What the process cache knows *)
(* is an input here (FdTracking and Cwd say when it knows the truth).      *)
(***************************************************************************)
EXTENDS Rules

CONSTANTS
  Files,        (* rule files: sequences of lines                           *)
  Calls,        (* system calls                                             *)
  KernelPaths   (* how many exact paths the kernel filters by               *)

VARIABLES
  plan,     (* the compiled rules: the engine's, and the kernel's tables    *)
  pc,       (* "start", "loaded", then the call: "dropped", "saved", "judged" *)
  call,     (* what the program calls                                       *)
  record,   (* what sys_enter saved of it                                   *)
  verdict   (* what the collector made of the record                        *)

vars == <<plan, pc, call, record, verdict>>

NoCall == [name |-> "none"]
NoRecord == [arch |-> "none"]

\* What is said of a record, for which rule, and whether a gap is output with it.
Verdict(said, rule, gap) == [said |-> said, rule |-> rule, gap |-> gap]
NoVerdict == Verdict("nothing", 0, FALSE)

\* A name given to a call: absolute and "plain", absolute with "doubled" slashes or
\* one at its end; relative and ending in the last 8 bytes of the whole path
\* ("suffix"), or "short" of them; with .. and relative ("climbing") or absolute
\* ("odd"); as long as the buffer and seen to be so ("long") or not ("cut"); or
\* not readable, or absolute and not text.
Forms == {"plain", "doubled", "suffix", "short", "climbing", "odd", "long", "cut", "unreadable"}
Relative == {"suffix", "short", "climbing"}

\* path_argument_indexes: how many names sys_enter reads.
Captured(arch, name) ==
  CASE name \in DualPath -> 2
    [] name \in {"openat", "openat2", "creat", "readlink", "unlink", "mkdir", "execve", "chmod"} -> 1
    [] name = "chdir" /\ arch = "b32" -> 1
    [] OTHER -> 0

AccessMode == [r |-> {"r"}, w |-> {"w"}, rw |-> {"r", "w"}, invalid |-> {}, unreadable |-> {}]

\* A call has as many names as are read of it, a call by descriptor has none, and a
\* second descriptor is one of dup2.
ASSUME FilterAssumption ==
  /\ KernelPaths \in Nat
  /\ \A file \in Files :
       /\ DOMAIN file = 1 .. Len(file) /\ Len(file) \in Nat
       /\ \A i \in DOMAIN file : Len(file[i].options) \in Nat
  /\ \A c \in Calls :
       /\ c.name \in Names /\ c.arch \in Arches /\ c.mode \in DOMAIN AccessMode
       /\ \A arch \in Arches :
            Captured(arch, c.name) > 0 => DOMAIN c.names = 1 .. Captured(arch, c.name)
       /\ c.name \in FdCalls => c.names = <<>>
       /\ c.target => c.name = "dup2"

NumberOf(c) == Number[c.arch][c.name]

\* The call a number is taken for.
NameOf(arch, number) ==
  IF SyscallName(arch, number) = {} THEN "unknown"
  ELSE CHOOSE name \in SyscallName(arch, number) : TRUE

-----------------------------------------------------------------------------
(* sys_enter.                                                               *)

\* PROCESS_ABI: fork and exec hand on the entry of the process they are called by,
\* and nothing makes a first one, so that no process is ever known by it.
Hint(c) == {}

\* Which ABI the number is looked up in: the hint's, or the first with the number.
SelectArch(c) ==
  LET Known == {arch \in Arches : <<arch, NumberOf(c)>> \in plan.bitmap}
  IN IF Hint(c) # {} THEN Hint(c) \cap Known
     ELSE IF "b64" \in Known THEN {"b64"} ELSE Known

\* The arguments of the other ABI are not where they are looked for.
SeenNames(c, arch) ==
  [n \in 1 .. Captured(arch, NameOf(arch, NumberOf(c))) |->
     IF arch = c.arch THEN c.names[n] ELSE [place |-> <<>>, form |-> "unreadable"]]

\* Of a name that filled the buffer the end is missing.
ReadPlace(n) == IF n.form \in {"long", "cut"} THEN Append(Front(n.place), "cut") ELSE n.place

Mask(arch, number) == {m[3] : m \in {x \in plan.masks : x[1] = arch /\ x[2] = number}}

\* A call that is only there for the tables of descriptors must be about one of them.
MaintenanceFdCandidate(c, name) ==
  name \in {"close", "dup2"} => c.followed \/ (name = "dup2" /\ c.target)

\* stage_watch_path_filter: the kernel filters by path if every rule is a watch of
\* one path, and there are not too many.
FilterOn ==
  /\ plan.rules # <<>>
  /\ Len(plan.rules) <= KernelPaths
  /\ \A i \in DOMAIN plan.rules :
       plan.rules[i].kind = "watch" /\ plan.rules[i].dir = {} /\ plan.rules[i].path # {}

WatchedPaths == UNION {plan.rules[i].path : i \in DOMAIN plan.rules}

\* An absolute name is looked for as it is written, a relative one by its end. Two
\* paths may have the same end.
NameCandidate(n) ==
  \E p \in WatchedPaths :
    \/ n.form \in {"plain", "doubled"} /\ p.place = n.place /\ p.spelling = n.form
    \/ n.form \in {"long", "cut"} /\ p.place = ReadPlace(n) /\ p.spelling = "plain"
    \/ n.form \in {"suffix", "climbing"} /\ p.spelling = "plain" /\ Last(p.place) = Last(n.place)

WatchPathCandidate(names) == FilterOn => \E j \in DOMAIN names : NameCandidate(names[j])

\* classify_permission: what the call does of what the rules ask for. The access mode
\* of an open may be invalid, or behind a pointer that cannot be read: then nothing
\* is known of it.
Actual(c, name, mask) == IF name \in DynamicOpen THEN AccessMode[c.mode] ELSE mask

\* A call with permissions must be about a watched path and exercise one of them.
PassesMask(c, arch, name, mask, maintenance) ==
  /\ IF Captured(arch, name) = 0 THEN c.followed ELSE WatchPathCandidate(SeenNames(c, arch))
  /\ maintenance \/ Actual(c, name, mask) = {} \/ Actual(c, name, mask) \cap mask # {}

Passes(c, arch) ==
  LET name == NameOf(arch, NumberOf(c))
      mask == Mask(arch, NumberOf(c))
      maintenance == <<arch, NumberOf(c)>> \in plan.maintenance
  IN IF mask # {} THEN PassesMask(c, arch, name, mask, maintenance)
     ELSE maintenance => MaintenanceFdCandidate(c, name)

\* The permissions in the flags of the record; none stands for not classified, too.
EventPermissions(c, arch) ==
  LET name == NameOf(arch, NumberOf(c))
      mask == Mask(arch, NumberOf(c))
  IN IF Actual(c, name, mask) \cap mask = {} THEN {} ELSE Actual(c, name, mask)

Record(c, arch) ==
  [arch |-> arch, name |-> NameOf(arch, NumberOf(c)),
   names |-> SeenNames(c, arch), permissions |-> EventPermissions(c, arch)]

Enter(c) ==
  /\ pc = "loaded"
  /\ call' = c
  /\ \/ \E arch \in SelectArch(c) :
          /\ Passes(c, arch)
          /\ record' = Record(c, arch)
          /\ pc' = "saved"
     \/ /\ \A arch \in SelectArch(c) : ~Passes(c, arch)
        /\ pc' = "dropped"
        /\ UNCHANGED record
  /\ UNCHANGED <<plan, verdict>>

-----------------------------------------------------------------------------
(* The collector. Every call is on its way to sys_exit; what happens to the *)
(* record between is in RuleReload and ExecCorrelation.                     *)

\* Which of the names were read.
Requests == {j \in DOMAIN record.names : record.names[j].form # "unreadable"}

\* A name is refused if it climbs, and needs the working directory if it is relative.
Resolvable(n) ==
  /\ n.form \notin {"climbing", "odd"}
  /\ n.form \in Relative => call.context

Paths(paths) == [ok |-> TRUE, paths |-> paths]
Lost == [ok |-> FALSE, paths |-> <<>>]

\* Mutant: a descriptor nobody knows is no reason for a gap.
ResolveQuietly ==
  IF Requests = {} /\ record.name \in FdCalls
  THEN Paths(IF call.known THEN call.file ELSE <<>>)
  ELSE IF \A j \in Requests : Resolvable(record.names[j])
       THEN Paths([j \in Requests |-> ReadPlace(record.names[j])])
       ELSE Lost

\* resolve_syscall_paths. If any of the names cannot be resolved none is used.
Resolve ==
  LET required == RequiresResolvedPath(plan, record.arch, record.name)
      failed == IF required THEN Lost ELSE Paths(<<>>)
  IN IF required /\ \E j \in DOMAIN record.names : record.names[j].form = "long" THEN Lost
     ELSE IF Requests = {} /\ record.name \in FdCalls
          THEN IF call.known THEN Paths(call.file) ELSE failed
     ELSE IF \A j \in Requests : Resolvable(record.names[j])
          THEN Paths([j \in Requests |-> ReadPlace(record.names[j])])
     ELSE failed

Event(permissions) ==
  [arch |-> record.arch, name |-> record.name, uid |-> call.uid, success |-> call.success,
   permissions |-> permissions]

\* Mutant: missing permissions are a gap whatever file the call is about.
JudgementAnyPath ==
  IF record.permissions = {} /\ RequiresPermission(plan, record.arch, record.name)
  THEN Verdict("no permissions", 0, TRUE)
  ELSE NoVerdict

\* The branches of process_collected_records: without paths, without permissions,
\* and by the engine.
Judgement ==
  LET resolved == Resolve
      hit(permissions) == EvaluatePaths(plan, Event(permissions), resolved.paths)
  IN IF ~resolved.ok
     THEN Verdict("path lost", 0, IsWatchCandidate(plan, record.arch, record.name))
     ELSE IF /\ record.permissions = {}
             /\ RequiresPermission(plan, record.arch, record.name)
             /\ hit(Permissions) # {}
          THEN Verdict("no permissions", 0, TRUE)
     ELSE IF hit(record.permissions) = {} THEN Verdict("unmatched", 0, FALSE)
     ELSE Verdict("line", The(hit(record.permissions)), FALSE)

Judge ==
  /\ pc = "saved"
  /\ verdict' = Judgement
  /\ pc' = "judged"
  /\ UNCHANGED <<plan, call, record>>

-----------------------------------------------------------------------------
(* Rules are read once here; RuleReload replaces them.                      *)

Accepts(file) ==
  /\ ParseAccepts(file)
  /\ \A i \in DOMAIN file : CompileAccepts(ParseLine(file[i]))

\* A file that the parser or the compiler refuses changes nothing.
Load(file) ==
  /\ pc = "start"
  /\ Accepts(file)
  /\ plan' = Compile(ParseRules(file))
  /\ pc' = "loaded"
  /\ UNCHANGED <<call, record, verdict>>

Init ==
  /\ plan = Compile(<<>>)
  /\ pc = "start"
  /\ call = NoCall
  /\ record = NoRecord
  /\ verdict = NoVerdict

Next ==
  \/ \E file \in Files : Load(file)
  \/ \E c \in Calls : Enter(c)
  \/ Judge

Spec == Init /\ [][Next]_vars

-----------------------------------------------------------------------------
(* Properties. They compare what is made of a call with what its rules say  *)
(* of it: Covers reads a rule without the tables, and knows the call itself *)
(* rather than what a record shows of it.                                   *)

\* The files the call is about, and what it does to them, or may do for all we know.
Places(c) == {c.names[j].place : j \in DOMAIN c.names} \cup Range(c.file)

Does(c) ==
  IF c.name \in DynamicOpen
  THEN IF AccessMode[c.mode] = {} THEN {"r", "w"} ELSE AccessMode[c.mode]
  ELSE {p \in Permissions : <<c.name, p>> \in Exercise}

IsAbout(rule, c) ==
  /\ rule.arch = {} \/ c.arch \in rule.arch
  /\ rule.kind = "syscall" => Explicit(rule, c.arch) \cap {NumberOf(c)} # {}
  /\ rule.perms = {} \/ rule.perms \cap Does(c) # {}

Covers(rule, c) ==
  /\ IsAbout(rule, c)
  /\ MatchesIdentity(rule, c)
  /\ NeedsPath(rule) => \E place \in Places(c) : MatchesPath(rule, place)

\* The call is taken for another one, of the other ABI.
Misjudged(c) == \E arch \in SelectArch(c) : arch # c.arch

\* A rule without an arch is compiled for 64 bits only.
OtherAbi(rule, c) == rule.kind = "syscall" /\ rule.arch = {} /\ c.arch = "b32"

\* The rule gives the number of the call, which the engine does not read.
ByNumber(rule, c) == rule.kind = "syscall" /\ Named(c.name) \notin rule.syscalls

\* The number of the call was compiled for its permissions, for whatever rule.
WantsPermission(c) == Mask(c.arch, NumberOf(c)) # {}

\* Filtered by path, and no name of the file is written the way the rule writes it.
OddlyNamed(rule, c) ==
  /\ FilterOn
  /\ \A j \in DOMAIN c.names : \A p \in rule.path :
       c.names[j].place = p.place =>
         ~ \/ c.names[j].form = p.spelling
           \/ c.names[j].form \in {"suffix", "climbing"} /\ p.spelling = "plain"

\* A descriptor the kernel does not follow, in a call that is filtered by it.
Unfollowed(c) ==
  /\ ~c.followed /\ ~c.target
  /\ \/ c.name \in FdCalls /\ WantsPermission(c)
     \/ c.name \in {"close", "dup2"} /\ plan.maintenance # {}

\* A rule for an open without permissions, and another that wants some of it.
Shadowed(rule, c) ==
  /\ rule.perms = {} /\ c.name \in DynamicOpen
  /\ WantsPermission(c)

\* The record has a path that is as long as the buffer and not that of the file.
CutOff(rule, c) ==
  NeedsPath(rule) /\ \E j \in DOMAIN c.names :
    c.names[j].form = "cut" /\ MatchesPath(rule, ReadPlace(c.names[j]))

\* The record does not have the path the rule asks for: no name was read for it.
Nameless(rule, c) ==
  /\ NeedsPath(rule)
  /\ \A j \in DOMAIN c.names :
       MatchesPath(rule, c.names[j].place) =>
         c.names[j].form \in {"unreadable", "cut"} \/ Captured(c.arch, c.name) = 0
  /\ c.name \notin FdCalls

TypeOK ==
  /\ pc \in {"start", "loaded", "dropped", "saved", "judged"}
  /\ plan.bitmap \subseteq Arches \X (0 .. 511)
  /\ plan.masks \subseteq Arches \X (0 .. 511) \X Permissions
  /\ plan.maintenance \subseteq plan.bitmap
  /\ call.name \in Names \cup {NoCall.name}
  /\ record = NoRecord \/ record.permissions \subseteq Permissions
  /\ verdict.rule \in {0} \cup DOMAIN plan.rules

\* Every call is reported with the ABI it was made by: permission semantics and
\* output fields of a 32-bit process are the same as those of the host's.
AbiIsTold == pc \in {"saved", "judged"} => record.arch = call.arch

\* The kernel drops no call that some rule covers, but for these reasons: the call
\* is taken for one of the other ABI, the rule is compiled for the other ABI,
\* the file is named in a way the digests do not show, the descriptor is not
\* followed, or another rule wants less of the same call.
SavedIfCovered ==
  pc = "dropped" =>
    \A i \in DOMAIN plan.rules : LET rule == plan.rules[i] IN
      Covers(rule, call) =>
        \/ Misjudged(call) \/ OtherAbi(rule, call) \/ OddlyNamed(rule, call)
        \/ Unfollowed(call) \/ Shadowed(rule, call)

\* A line is output for the first rule of the file that covers the call, unless the
\* call is misjudged: an earlier rule is passed over only where the record does
\* not show what it asks for, and a rule that does not cover the call is taken only
\* for a path that was cut off.
LineNamesFirstRule ==
  verdict.said = "line" /\ ~Misjudged(call) =>
    /\ Covers(plan.rules[verdict.rule], call) \/ CutOff(plan.rules[verdict.rule], call)
    /\ \A i \in 1 .. verdict.rule - 1 : LET rule == plan.rules[i] IN
         Covers(rule, call) => ByNumber(rule, call) \/ Nameless(rule, call) \/ OtherAbi(rule, call)

\* Of a saved call that some rule covers something is heard: a line, a gap, or at
\* least the count of a path that was not found.
CoveredIsAccounted ==
  pc = "judged" /\ verdict.said = "unmatched" =>
    \A i \in DOMAIN plan.rules : LET rule == plan.rules[i] IN
      Covers(rule, call) =>
        \/ Misjudged(call) \/ OtherAbi(rule, call)
        \/ ByNumber(rule, call) \/ Nameless(rule, call)

\* A gap is output only for a call that a rule is about, and one for missing
\* permissions only if the rest of a rule matches: calls on other files are no gaps, but
\* for those whose permissions were compiled for the other ABI or whose path was cut off.
GapIsWarranted ==
  verdict.gap /\ ~Misjudged(call) =>
    /\ \E i \in DOMAIN plan.rules : RuleOfCall(plan, i, call.arch, call.name)
    /\ verdict.said = "no permissions" =>
         \E i \in DOMAIN plan.rules : LET rule == plan.rules[i] IN
           Covers(rule, call) \/ OtherAbi(rule, call) \/ CutOff(rule, call)

=============================================================================

--------------------------- MODULE MCKernelFilter ---------------------------
(* Small instance of KernelFilter: three files, two of them with the same   *)
(* end and two in one directory; lines of every kind, alone and in pairs;   *)
(* calls of every class, and opens named in every way.                      *)
EXTENDS KernelFilter

Shadow == <<"etc", "shadow">>
Motd == <<"etc", "motd">>
Copy == <<"tmp", "shadow">>
Etc == <<"etc">>

Is(place, spelling) == [place |-> place, spelling |-> spelling]
Opt(name, value) == [name |-> name, value |-> value]
Key == <<Opt("-k", "key")>>
Arch(arch) == Opt("arch=", arch)
Watch(path, letters, options) ==
  [action |-> "-w", path |-> path, options |-> <<Opt("-p", letters)>> \o options]
Syscall(names, options) ==
  [action |-> "-a always,exit", path |-> Is(<<>>, "none"),
   options |-> <<Opt("-S", {Named(name) : name \in names})>> \o options]

Watches == {
  Watch(Is(Shadow, "plain"), <<"r">>, Key),
  Watch(Is(Shadow, "plain"), <<"w">>, Key),
  Watch(Is(Shadow, "doubled"), <<"w", "a">>, Key),
  Watch(Is(Copy, "plain"), <<"r", "w", "x", "a">>, Key),
  Watch(Is(Shadow, "plain"), <<"a">>, <<Arch("b32")>> \o Key),
  Watch(Is(Shadow, "plain"), <<"w">>, <<Opt("uid=", 0)>> \o Key),
  Watch(Is(Etc, "plain"), <<"r", "a">>, <<Opt("dir=", Is(Etc, "plain"))>> \o Key)}

Syscalls == {
  Syscall({"openat"}, Key),
  Syscall({"getpid", "creat"}, <<Arch("b64")>> \o Key),
  [Syscall({}, Key) EXCEPT !.options[1].value = {Numbered(257)}],
  Syscall({"openat"}, <<Arch("b64"), Opt("path=", Is(Shadow, "plain")), Opt("perm=", <<"w">>)>> \o Key),
  Syscall({"openat", "unlink"}, <<Opt("dir=", Is(Etc, "plain")), Opt("success=", FALSE)>> \o Key),
  Syscall({"ftruncate", "close"}, Key),
  Syscall({"openat", "execve"}, <<Arch("b32"), Opt("path=", Is(Copy, "plain"))>> \o Key),
  Syscall({"link"}, <<Opt("perm=", <<"a">>)>> \o Key),
  Syscall({"mkdir", "link"}, <<Arch("b32")>> \o Key),
  Syscall({"chdir", "rename"}, <<Arch("b64"), Opt("dir=", Is(Etc, "doubled"))>> \o Key)}

\* Lines that are refused, each for a reason of its own.
Refused == {
  Watch(Is(Shadow, "relative"), <<"r">>, Key),
  Watch(Is(Shadow, "plain"), <<"r", "r">>, Key),
  Watch(Is(Shadow, "plain"), <<"r">>, <<>>),
  Watch(Is(Shadow, "plain"), <<"r">>, Key \o Key),
  Watch(Is(Shadow, "plain"), <<"r">>, <<Opt("-p", <<"w">>)>> \o Key),
  Watch(Is(Shadow, "plain"), <<"r">>, <<Opt("-S", {Named("openat")})>> \o Key),
  Syscall({"openat"}, <<Opt("-k", "32 bytes or more")>>),
  Syscall({}, Key),
  Syscall({"unheard of"}, Key),
  [Syscall({}, Key) EXCEPT !.options[1].value = {Numbered(512)}],
  Syscall({"close"}, <<Opt("perm=", <<"r">>)>> \o Key),
  Syscall({"openat"}, <<Opt("perm=", <<"r", "x">>)>> \o Key),
  [Syscall({"openat"}, Key) EXCEPT !.action = "-a never,exit"]}

Lines == Watches \cup Syscalls
\* Pairs in which the engine and the tables differ: a call by its number, a rule of the
\* other ABI, a path as long as the buffer.
Disagreeing == {
  <<[Syscall({}, <<Opt("perm=", <<"w">>)>> \o Key) EXCEPT !.options[1].value = {Numbered(77)}]>>,
  <<Watch(Is(Shadow, "plain"), <<"w">>, <<Arch("b32")>> \o Key), Syscall({"openat"}, Key)>>,
  <<Syscall({"openat"}, <<Opt("perm=", <<"r">>)>> \o Key),
    [Syscall({}, <<Arch("b32"), Opt("dir=", Is(<<"tmp">>, "plain"))>> \o Key)
       EXCEPT !.options[1].value = {Numbered(295)}]>>,
  <<Watch(Is(<<"etc", "cut">>, "plain"), <<"r">>, Key)>>}

MCFiles ==
  {<<line>> : line \in Lines \cup Refused} \cup Lines \X Lines
    \cup {<<line, Watch(Is(Copy, "plain"), <<"x">>, Key), line>> : line \in Watches}
    \cup {<<Syscall({"openat"}, Key), line>> : line \in Refused} \cup Disagreeing

Base == [name |-> "openat", arch |-> "b64", uid |-> 0, success |-> TRUE, mode |-> "r",
         names |-> <<[place |-> Shadow, form |-> "plain"]>>, file |-> <<>>, followed |-> FALSE,
         target |-> FALSE, known |-> TRUE, context |-> TRUE]
NamesOf(places, forms) == {<<[place |-> place, form |-> form]>> : place \in places, form \in forms}
PathCalls == {name \in Names : \E arch \in Arches : Captured(arch, name) = 1}

MCCalls ==
  {[Base EXCEPT !.arch = arch, !.mode = mode, !.names = names] :
       arch \in Arches, mode \in {"r", "w", "rw", "invalid"},
       names \in NamesOf({Shadow, Motd, Copy}, Forms)}
    \cup {[Base EXCEPT !.name = "openat2", !.mode = mode, !.names = names, !.context = context] :
            mode \in {"rw", "unreadable"}, names \in NamesOf({Shadow}, Forms), context \in BOOLEAN}
    \cup {[Base EXCEPT !.mode = mode, !.uid = uid, !.success = success] :
            mode \in {"r", "w", "invalid"}, uid \in {0, 1}, success \in BOOLEAN}
    \cup {[Base EXCEPT !.name = name, !.arch = arch, !.names = names] :
            name \in PathCalls, arch \in Arches,
            names \in NamesOf({Shadow, Motd}, {"plain"})}
    \cup {[Base EXCEPT !.name = name, !.arch = arch, !.names = first \o second] :
            name \in DualPath, arch \in Arches,
            first \in NamesOf({Motd, Copy}, {"plain", "suffix", "unreadable", "odd"}),
            second \in NamesOf({Shadow, Copy}, {"plain", "short", "unreadable"})}
    \cup {[Base EXCEPT !.name = name, !.arch = arch, !.names = <<>>, !.file = <<file>>,
                       !.followed = followed, !.known = known] :
            name \in FdCalls \cup {"close"}, arch \in Arches, file \in {Shadow, Motd},
            followed \in BOOLEAN, known \in BOOLEAN}
    \cup {[Base EXCEPT !.name = "dup2", !.names = <<>>, !.file = <<Shadow>>,
                       !.followed = followed, !.target = target] :
            followed \in BOOLEAN, target \in BOOLEAN}
    \cup {[Base EXCEPT !.name = name, !.arch = arch, !.names = <<>>] :
            name \in {"getpid", "mount"}, arch \in Arches}
=============================================================================

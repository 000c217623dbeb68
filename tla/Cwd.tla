-------------------------------- MODULE Cwd --------------------------------
(***************************************************************************)
(* Which directory is a relative name in? The collector holds a context per *)
(* thread, with a working directory as that thread's root directory shows  *)
(* it. It follows chdir, fchdir and chroot by their records, takes a new   *)
(* thread's context from its parent, and reads /proc where it can, which   *)
(* tells how things are by then and not as they were.                      *)
(*                                                                         *)
(* Directories are the levels of one path: 0 is /, 1 is /x, 2 is /x/x; the *)
(* name of a directory is its level under the root directory of who asks.  *)
(* Every call is taken to leave a record (KernelFilter says which do), and *)
(* the path of a descriptor to be known or not (FdTracking says when).     *)
(***************************************************************************)
EXTENDS Naturals, Sequences, Functions

CONSTANTS
  Main, Other,  (* a thread that leads its process, and one it may clone    *)
  Clones,       (* bound: what Main may clone, "thread" or "process"        *)
  Abis,         (* bound: what the programs may be, "b64" or "b32"          *)
  Depth,        (* bound: the deepest directory there is                    *)
  Named,        (* bound: those called by a whole name or a descriptor      *)
  MaxCalls,     (* bound: system calls, apart from exit                     *)
  RingSlots     (* bound: records the ring buffer holds                     *)

ASSUME CwdAssumption ==
  /\ Main # Other
  /\ Clones \subseteq {"thread", "process"} /\ Abis \subseteq {"b64", "b32"}
  /\ {Depth, MaxCalls, RingSlots} \subseteq Nat /\ Named \subseteq 0 .. Depth

VARIABLES
  abi,       (* what the programs are                                       *)
  thread,    (* per id: the thread that has it                              *)
  cwd, root, (* per leading thread: the directories of its process          *)
  readable,  (* whether the service may read /proc: it gives up privileges  *)
  calls,     (* system calls so far                                         *)
  ring,      (* EVENTS                                                      *)
  cache,     (* ProcessCache                                                *)
  misled,    (* history, per id: why its context may be wrong               *)
  verdict    (* history: what was made of the last record                   *)

programs == <<abi, thread, cwd, root, calls>>
vars == <<programs, readable, ring, cache, misled, verdict>>

Threads == {Main, Other}
Levels == 0 .. Depth

\* namespace_path: how a directory is called where "top" is the root directory. Programs
\* leave no way open to what is above their root.
View(top, dir) == dir - top

\* A thread: the process it is of, and which of the threads that had its id it is.
Gone(n) == [alive |-> FALSE, leader |-> Main, holder |-> n]
Running(leader, n) == [alive |-> TRUE, leader |-> leader, holder |-> n]

Dir(t) == cwd[thread[t].leader]
Top(t) == root[thread[t].leader]
Here(t) == View(Top(t), Dir(t))

Siblings(t) ==
  {u \in Threads \ {t} : thread[u].alive /\ thread[u].leader = thread[t].leader}

\* Identities of processes: a thread id, and a start time or 0 for unknown.
Identities == Threads \X (0 .. MaxCalls + 1)
NoContext == [process |-> <<>>, cwd |-> 0, epoch |-> 0, holder |-> 0]

\* What became of an open: the path it is reported with or that it is not, that path
\* in truth, whether the context was one of the same thread, and what may have misled
\* the collector.
Verdict(said, path, actual, own, causes) ==
  [said |-> said, path |-> path, actual |-> actual, own |-> own, causes |-> causes]
NoVerdict == Verdict("nothing", 0, 0, TRUE, {})

-----------------------------------------------------------------------------
(* Programs. A call takes effect and sys_exit submits its record. No other   *)
(* thread can tell these apart but one of the same process, and that one    *)
(* sees the effect.                                                         *)

\* EVENTS.output; records that find no room are lost, and with them what they tell.
Output(records, marks) ==
  LET room == RingSlots - Len(ring)
      lost == {records[i].of : i \in {i \in DOMAIN records : i > room}}
  IN /\ ring' = ring \o SubSeq(records, 1, IF room < Len(records) THEN room ELSE Len(records))
     /\ misled' = [t \in Threads |-> misled[t] \cup marks[t] \cup {x \in {"lost"} : t \in lost}]

Unmarked == [t \in Threads |-> {}]

\* What a call is told to do: "name" is where its path leads, "abs" from the root,
\* "rel" one level down, "up" to the parent, "here" stays.
Call(kind, name, level) == [kind |-> kind, name |-> name, level |-> level]
Requests ==
  {Call("chdir", "abs", level) : level \in Named}
    \cup {Call("chdir", name, 0) : name \in {"rel", "up"}}
    \cup {Call("fchdir", "none", level) : level \in Named}
    \cup {Call("open", "rel", 0), Call("chroot", "here", 0)}

\* Where a call leads; it fails if that is deeper than there are directories.
Target(t, c) ==
  CASE c.name = "abs" -> Top(t) + c.level
    [] c.name = "rel" -> Dir(t) + 1
    [] c.name = "up"  -> IF Dir(t) = Top(t) THEN Dir(t) ELSE Dir(t) - 1
    [] c.name = "none" -> Top(t) + c.level
    [] OTHER -> Dir(t)

Fails(t, c) == c.kind # "open" /\ Target(t, c) > Depth

\* "dir" is the working directory after the call, "path" what an open opens.
Record(t, c, dir) ==
  [kind |-> c.kind, tid |-> t, tgid |-> thread[t].leader, holder |-> thread[t].holder,
   name |-> c.name, level |-> c.level,
   success |-> ~Fails(t, c), dir |-> dir, path |-> Here(t) + 1, of |-> t]

\* A change of directory is one for the whole process, told by a record of one thread.
Syscall(t) ==
  /\ thread[t].alive /\ calls < MaxCalls
  /\ calls' = calls + 1
  /\ \E c \in Requests :
       LET moves == ~Fails(t, c) /\ c.kind \in {"chdir", "fchdir"}
           roots == c.kind = "chroot"
           p == thread[t].leader
           dir == IF moves THEN Target(t, c) ELSE Dir(t)
           top == IF roots THEN Dir(t) ELSE Top(t)
       IN /\ cwd' = [cwd EXCEPT ![p] = dir]
          /\ root' = [root EXCEPT ![p] = top]
          /\ Output(<<Record(t, c, View(top, dir))>>,
                    [u \in Threads |-> {x \in {"sibling"} : (moves \/ roots) /\ u \in Siblings(t)}])
  /\ UNCHANGED <<abi, thread, readable, cache, verdict>>

\* The record of a process event; it is about the thread "of".
ProcessEvent(kind, t, of, holder) ==
  [kind |-> kind, tid |-> t, tgid |-> thread[t].leader, holder |-> holder,
   name |-> "none", level |-> 0, success |-> TRUE, dir |-> Here(t), path |-> 0, of |-> of]

\* sched_process_fork, for a thread and for a process alike.
Clone ==
  /\ thread[Main].alive /\ ~thread[Other].alive
  /\ calls < MaxCalls /\ calls' = calls + 1
  /\ \E what \in Clones :
       LET leader == IF what = "thread" THEN Main ELSE Other IN
       /\ thread' = [thread EXCEPT ![Other] = Running(leader, thread[Other].holder + 1)]
       /\ cwd' = [cwd EXCEPT ![leader] = cwd[Main]]
       /\ root' = [root EXCEPT ![leader] = root[Main]]
  /\ Output(<<ProcessEvent("fork", Main, Other, thread[Other].holder + 1)>>, Unmarked)
  /\ UNCHANGED <<abi, readable, cache, verdict>>

\* sched_process_exit.
Exit ==
  /\ thread[Other].alive
  /\ thread' = [thread EXCEPT ![Other] = Gone(@.holder)]
  /\ Output(<<ProcessEvent("exit", Other, Other, thread[Other].holder)>>, Unmarked)
  /\ UNCHANGED <<abi, cwd, root, calls, readable, cache, verdict>>

\* sched_process_exec of a process with one thread.
Exec(t) ==
  /\ thread[t].alive /\ thread[t].leader = t /\ Siblings(t) = {}
  /\ calls < MaxCalls /\ calls' = calls + 1
  /\ Output(<<ProcessEvent("exec", t, t, thread[t].holder)>>, Unmarked)
  /\ UNCHANGED <<abi, thread, cwd, root, readable, cache, verdict>>

\* An exec by a thread that does not lead its process: the leader exits, and the
\* thread takes over its id. Nothing is heard of the id it had.
TakeOver ==
  /\ thread[Other].alive /\ Siblings(Other) = {Main}
  /\ calls < MaxCalls /\ calls' = calls + 1
  /\ thread' = [thread EXCEPT ![Other] = Gone(@.holder)]
  /\ Output(<<ProcessEvent("exit", Main, Main, 1), ProcessEvent("exec", Main, Main, 1)>>,
            [Unmarked EXCEPT ![Other] = {"takeover"}])
  /\ UNCHANGED <<abi, cwd, root, readable, cache, verdict>>

DropPrivileges ==
  /\ readable /\ readable' = FALSE
  /\ UNCHANGED <<programs, ring, cache, misled, verdict>>

-----------------------------------------------------------------------------
(* ProcessCache. The operators take and give [cache |-> ..., misled |-> ...]. *)
(* "epochs" is process_mount_epochs; it has the same keys as file_tables.   *)

\* The end of a thread was not heard of.
Unheard(causes) == causes \cap {"lost", "takeover", "unheard"} # {}

Now == [cache |-> cache, misled |-> misled]
Known(s, t) == s.cache.ctx[t] # NoContext

With(table, key, value) ==
  [k \in DOMAIN table \cup {key} |-> IF k = key THEN value ELSE table[k]]

ProcessEpoch(s, p) ==
  IF p \in DOMAIN s.cache.epochs THEN s.cache.epochs[p] ELSE s.cache.epoch

\* Mutant: a context is used whatever its epoch.
IsKnown(s, t) == Known(s, t)

IsCurrent(s, t) ==
  Known(s, t) /\ s.cache.ctx[t].epoch = ProcessEpoch(s, s.cache.ctx[t].process)

\* Mutant: earlier processes stay.
KeepReused(c, p) == c

\* remove_reused_process: an earlier process with the same id goes, with its threads.
RemoveReused(c, p) ==
  LET reused == {i \in DOMAIN c.epochs : i[1] = p[1] /\ i # p} IN
  [c EXCEPT !.epochs = Restrict(@, DOMAIN @ \ reused),
            !.ctx = [t \in Threads |-> IF @[t].process \in reused THEN NoContext ELSE @[t]]]

\* What /proc shows is ahead of a record still to be applied.
Ahead(t, records) ==
  \E r \in Range(records) :
    /\ t \in {r.tid, r.of}
    /\ r.dir # Here(t) \/ (r.kind = "chdir" /\ r.name = "rel" /\ r.success)

\* Records of an earlier thread with the same id are still to come.
Earlier(t, records) == \E r \in Range(records) : r.of = t /\ r.holder < thread[t].holder

\* insert_context. The new context is of the thread that has the id now; if the end of
\* an earlier one is not heard, that still shows when its records are applied.
InsertContext(s, tgid, t, pending) ==
  LET p == <<tgid, thread[tgid].holder>>
      c == RemoveReused(s.cache, p)
      epoch == IF p \in DOMAIN c.epochs THEN c.epochs[p] ELSE c.epoch
  IN [cache |-> [c EXCEPT !.epochs = With(@, p, epoch),
                          !.ctx[t] = [process |-> p, cwd |-> Here(t), epoch |-> epoch,
                                      holder |-> thread[t].holder]],
      misled |-> [s.misled EXCEPT ![t] =
                    {x \in {"ahead"} : Ahead(t, pending)} \cup
                    {x \in {"unheard"} : Unheard(@) /\ Earlier(t, pending)}]]

\* read_thread: any thread has a directory /proc/<tgid> of its own, too.
CanRead(tgid, t) == readable /\ thread[t].alive /\ tgid \in {t, thread[t].leader}

Refresh(s, r, pending) ==
  IF CanRead(r.tgid, r.tid) THEN InsertContext(s, r.tgid, r.tid, pending) ELSE s

\* fork_thread: the parent's context under the epoch of its process, whether it was
\* up to that epoch or not.
ForkThread(s, parent, child, holder) ==
  IF ~Known(s, parent) THEN s ELSE
  LET p == <<child, 0>>
      epoch == ProcessEpoch(s, s.cache.ctx[parent].process)
  IN [cache |-> [s.cache EXCEPT !.epochs = With(@, p, epoch),
                   !.ctx[child] = [process |-> p, cwd |-> s.cache.ctx[parent].cwd,
                                   epoch |-> epoch, holder |-> holder]],
      misled |-> [s.misled EXCEPT ![child] =
                    @ \cup s.misled[parent] \cup {x \in {"renewed"} : ~IsCurrent(s, parent)}]]

\* Mutants: the table goes with any thread of the process; the context stays.
ExitThreadAndTable(s, t) ==
  IF ~Known(s, t) THEN s ELSE
  [s EXCEPT !.cache.ctx[t] = NoContext,
            !.cache.epochs = Restrict(@, DOMAIN @ \ {s.cache.ctx[t].process})]
ExitThreadUnheard(s, t) == s

\* exit_thread: the table goes with the last thread of the process.
ExitThread(s, t) ==
  LET p == s.cache.ctx[t].process
      last == \A u \in Threads \ {t} : s.cache.ctx[u].process # p
  IN IF ~Known(s, t) THEN s ELSE
     [s EXCEPT !.cache.ctx[t] = NoContext,
               !.cache.epochs = IF last THEN Restrict(@, DOMAIN @ \ {p}) ELSE @]

\* change_cwd; a path the collector does not have changes nothing.
ChangeCwd(s, t, path) == IF Known(s, t) THEN [s EXCEPT !.cache.ctx[t].cwd = path] ELSE s
Miss(s, t, cause) == [s EXCEPT !.misled[t] = @ \cup {cause}]

\* invalidate_process_mounts: every context of the process is out of date.
Invalidate(s, t) ==
  IF ~Known(s, t) THEN s ELSE
  [s EXCEPT !.cache.epoch = @ + 1,
            !.cache.epochs = With(@, s.cache.ctx[t].process, s.cache.epoch + 1)]

-----------------------------------------------------------------------------
(* The collector, which takes a record to its end before the next.          *)

\* path_argument_indexes: of a 64-bit chdir or chroot no name is read.
Captured(r) == r.kind = "open" \/ (abi = "b32" /\ r.kind \in {"chdir", "chroot"})

\* resolve_path and normalize_in_boundary.
Resolvable(s, r) == r.name = "abs" \/ (r.name \in {"rel", "here"} /\ IsCurrent(s, r.tid))
Resolved(s, r) ==
  CASE r.name = "abs" -> r.level
    [] r.name = "rel" -> s.cache.ctx[r.tid].cwd + 1
    [] OTHER          -> s.cache.ctx[r.tid].cwd

\* resolve_syscall_paths: on failure once more, with a new context.
Looked(r) == IF Captured(r) /\ ~Resolvable(Now, r) THEN Refresh(Now, r, ring) ELSE Now

\* What a call that succeeds changes. A name that was not resolved changes nothing;
\* whether the path of a descriptor is known is not followed here.
Effect(s, r, fdKnown) ==
  CASE r.kind = "chdir" /\ ~Captured(r) -> Miss(s, r.tid, "unread")
    [] r.kind = "chdir" /\ Captured(r) /\ Resolvable(s, r) -> ChangeCwd(s, r.tid, Resolved(s, r))
    [] r.kind = "chdir" /\ Captured(r) /\ ~Resolvable(s, r) ->
         IF CanRead(r.tgid, r.tid) THEN s ELSE Miss(s, r.tid, "refused")
    [] r.kind = "fchdir" -> IF fdKnown THEN ChangeCwd(s, r.tid, r.level) ELSE Miss(s, r.tid, "fd")
    [] r.kind = "chroot" -> Invalidate(s, r.tid)
    [] OTHER -> s

\* Mutant: a call that failed changes as much.
ApplyFailed(s, r, fdKnown) == Effect(s, r, fdKnown)

\* apply_syscall_cache_updates.
Apply(s, r, fdKnown) == IF r.success THEN Effect(s, r, fdKnown) ELSE s

\* Its end: a thread that is unknown or out of date is looked up in /proc.
Updated(s, r, fdKnown) ==
  LET after == Apply(s, r, fdKnown) IN
  IF IsCurrent(after, r.tid) THEN after ELSE Refresh(after, r, Tail(ring))

SetCache(s) == cache' = s.cache /\ misled' = s.misled

ConsumeSyscall ==
  /\ ring # <<>> /\ Head(ring).kind \in {"chdir", "fchdir", "open", "chroot"}
  /\ LET r == Head(ring)
         s == Looked(r)
     IN /\ \E fdKnown \in BOOLEAN : SetCache(Updated(s, r, fdKnown))
        /\ verdict' =
             IF r.kind # "open" THEN NoVerdict
             ELSE IF ~Resolvable(s, r) THEN Verdict("lost", 0, r.path, TRUE, {})
             ELSE Verdict("path", Resolved(s, r), r.path,
                          s.cache.ctx[r.tid].holder >= r.holder, s.misled[r.tid])
  /\ ring' = Tail(ring)
  /\ UNCHANGED <<programs, readable>>

\* apply_process_event. A new thread is taken for a process of its own.
ConsumeProcessEvent ==
  /\ ring # <<>> /\ Head(ring).kind \in {"fork", "exit", "exec"}
  /\ LET r == Head(ring) IN
       SetCache(CASE r.kind = "fork" ->
                       IF CanRead(r.of, r.of) THEN InsertContext(Now, r.of, r.of, Tail(ring))
                       ELSE ForkThread(Now, r.tid, r.of, r.holder)
                  [] r.kind = "exec" -> Refresh(Now, r, Tail(ring))
                  [] OTHER -> ExitThread(Now, r.tid))
  /\ ring' = Tail(ring) /\ verdict' = NoVerdict
  /\ UNCHANGED <<programs, readable>>

-----------------------------------------------------------------------------

\* Main was there when scan_proc ran, and was read or not.
Init ==
  /\ abi \in Abis
  /\ thread = [t \in Threads |-> IF t = Main THEN Running(Main, 1) ELSE Gone(0)]
  /\ \E dir \in Levels : cwd = [t \in Threads |-> dir]
  /\ root = [t \in Threads |-> 0]
  /\ readable = TRUE /\ calls = 0 /\ ring = <<>>
  /\ \/ cache = [ctx |-> [t \in Threads |-> NoContext], epochs |-> <<>>, epoch |-> 0]
     \/ cache = [ctx |-> [t \in Threads |->
                   IF t = Main THEN [process |-> <<Main, 1>>, cwd |-> cwd[Main], epoch |-> 0, holder |-> 1]
                   ELSE NoContext],
                 epochs |-> [p \in {<<Main, 1>>} |-> 0], epoch |-> 0]
  /\ misled = [t \in Threads |-> {}]
  /\ verdict = NoVerdict

Next ==
  \/ \E t \in Threads : Syscall(t) \/ Exec(t)
  \/ Clone \/ Exit \/ TakeOver \/ DropPrivileges
  \/ ConsumeSyscall \/ ConsumeProcessEvent

Spec == Init /\ [][Next]_vars

-----------------------------------------------------------------------------
(* Properties.                                                              *)

\* The shape of the state.
TypeOK ==
  /\ cwd \in [Threads -> Levels] /\ root \in [Threads -> Levels]
  /\ \A t \in Threads : thread[t].leader \in Threads /\ thread[t].holder <= MaxCalls + 1
  /\ Len(ring) <= RingSlots /\ calls <= MaxCalls
  /\ DOMAIN cache.epochs \subseteq Identities
  /\ \A t \in Threads : cache.ctx[t] = NoContext
       \/ cache.ctx[t].process \in DOMAIN cache.epochs
  /\ verdict.said \in {"nothing", "lost", "path"}

\* The path reported for a relative name is where it led, unless a record about the
\* thread was lost; another thread of the process changed directory; the record of a
\* chdir came without its name, with one that is refused, or the descriptor of fchdir
\* is not known; /proc was read when it showed more than the records up to then; a context
\* out of date was handed on to a new thread as if it were not; or the id was that of a
\* thread of which no exit is heard.
PathIsTrue ==
  verdict.said = "path" /\ verdict.path # verdict.actual =>
    \/ "lost" \in verdict.causes
    \/ "sibling" \in verdict.causes
    \/ "unread" \in verdict.causes
    \/ "refused" \in verdict.causes
    \/ "fd" \in verdict.causes
    \/ "ahead" \in verdict.causes
    \/ "renewed" \in verdict.causes
    \/ "takeover" \in verdict.causes

\* The context that serves a record is not that of an earlier thread with the same
\* id, unless a record was lost, or that thread ended by taking over the id of its
\* leader (exit_thread, fork_thread, remove_reused_process).
EarlierUnused == verdict.own \/ Unheard(verdict.causes)

\* Once all records are applied, the collector and the program agree on the directory
\* of every thread for which none of these things happened since /proc was last read.
CacheAgrees ==
  ring = <<>> => \A t \in Threads :
    thread[t].alive /\ IsCurrent(Now, t) /\ misled[t] \subseteq {"unheard"} => cache.ctx[t].cwd = Here(t)

\* However often an id is given to a new process, the cache has tables of at most one
\* process of that id whose start is known, and of one whose start is not.
OldTablesGo ==
  \A p, q \in DOMAIN cache.epochs : p[1] = q[1] /\ p[2] # 0 /\ q[2] # 0 => p = q

\* specs/001-auditd-ebpf-replacement/data-model.md:204, "chdir/fchdir success ->
\* Running(cwd updated)": with no record lost or outstanding, every known thread has
\* the directory that its calls left it in.
ChdirUpdatesCwd ==
  ring = <<>> => \A t \in Threads :
    thread[t].alive /\ IsCurrent(Now, t) /\ misled[t] \subseteq {"unread", "unheard"} => cache.ctx[t].cwd = Here(t)

=============================================================================

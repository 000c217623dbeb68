------------------------------ MODULE FdTracking ------------------------------
(***************************************************************************)
(* Which file does a descriptor refer to? A call like ftruncate names its  *)
(* file by descriptor only, and two tables stand for the truth about it:   *)
(*                                                                         *)
(*   - WATCH_FDS in the kernel, the descriptors that may refer to a        *)
(*     watched path, decides whether the call leaves a record at all;      *)
(*   - the process cache in user space says which path the record is       *)
(*     matched with. It follows the records, and where it does not know a  *)
(*     thread or a descriptor it reads /proc, as it is by then.            *)
(*                                                                         *)
(* Both see only the calls that pass the kernel's filter, in the order in  *)
(* which sys_exit submits them, which is not the order of the calls.       *)
(* The rules are exact watches on the watched paths for all permissions.   *)
(***************************************************************************)
EXTENDS Naturals, Sequences, FiniteSets

CONSTANTS
  Main, Other,  (* a thread, and one it may clone: same process or a new one *)
  Paths,
  Watched,      (* the paths of the watch rules                             *)
  NoPath,       (* what a closed descriptor refers to                       *)
  Clones,       (* bound: what Main may clone, "thread" or "process"        *)
  FdCount,      (* bound: descriptors of a process                          *)
  MaxCalls,     (* bound: system calls                                      *)
  RingSlots,    (* bound: records the ring buffer holds                     *)
  FollowSlots   (* capacity of WATCH_FDS                                    *)

ASSUME FdAssumption ==
  /\ Main # Other
  /\ Watched \subseteq Paths /\ NoPath \notin Paths
  /\ Paths \cap {"none", "gap", "filtered"} = {}  \* what may be said instead of a path
  /\ Clones \subseteq {"thread", "process"}
  /\ {FdCount, MaxCalls, RingSlots, FollowSlots} \subseteq Nat \ {0}

VARIABLES
  thread,    (* where a thread is, and in which call                        *)
  process,   (* per thread: its process, named after its first thread       *)
  files,     (* per process: the path each descriptor refers to, in truth   *)
  readable,  (* whether the service may read /proc: it gives up privileges  *)
  calls,     (* system calls so far                                         *)
  followed,  (* WATCH_FDS                                                   *)
  ring,      (* EVENTS                                                      *)
  known,     (* ProcessCache: threads with a context                        *)
  owner,     (* ProcessCache: the process it takes a known thread to be of  *)
  cached,    (* ProcessCache: file tables, NoPath for an unknown descriptor *)
  verdict,   (* history: what was made of the last call on a descriptor     *)
  shown,     (* history: descriptors acquired in sight of the filter        *)
  causes     (* history: what has happened that may mislead the tables      *)

kernel == <<thread, process, files, readable, calls, followed>>
cache == <<known, owner, cached>>
vars == <<kernel, ring, cache, verdict, shown, causes>>

Threads == {Main, Other}
Fds == 1 .. FdCount
NoFd == 0
Closed == [f \in Fds |-> NoPath]
Targets == Paths \cup {NoPath}

\* How an open names its path: absolute and normal, relative with the last 8
\* bytes of the whole path, or anything else: shorter, or with redundant parts.
Forms == {"full", "suffix", "odd"}

\* What was said of a call on a descriptor, the path it went to, and whether the
\* filter saw how the program came by that descriptor.
Verdict(said, actual, seen) == [said |-> said, actual |-> actual, shown |-> seen]

Idle == [pc |-> "user", kind |-> "none", fd |-> NoFd, to |-> NoFd, path |-> NoPath,
         form |-> "full", saved |-> FALSE, shown |-> FALSE, table |-> Closed]
Absent == [Idle EXCEPT !.pc = "absent"]

Call(kind, fd, to, path, form) ==
  [Idle EXCEPT !.pc = "call", !.kind = kind, !.fd = fd, !.to = to, !.path = path,
               !.form = form]

Requests ==
  {Call("open", NoFd, NoFd, p, form) : p \in Paths, form \in {"full", "suffix"}}
    \cup {Call("open", NoFd, NoFd, p, "odd") : p \in Watched}
    \cup {Call(k, fd, NoFd, NoPath, "full") : k \in {"close", "dup", "use"}, fd \in Fds}
    \cup {Call("dup2", x[1], x[2], NoPath, "full") : x \in {y \in Fds \X Fds : y[1] # y[2]}}

-----------------------------------------------------------------------------
(* sys_enter.                                                               *)

Follows(p, fd) == <<p, fd>> \in followed

\* Mutant: relative names are not looked for among the watched paths.
PathCandidateAbsolute(c) == c.form = "full" /\ c.path \in Watched

\* watch_path_candidate: by the hash of an absolute name, or the last 8 bytes of
\* a relative one, in which any path may agree with a watched one.
PathCandidate(c) ==
  \/ c.form # "odd" /\ c.path \in Watched
  \/ c.form = "suffix"

\* maintenance_fd_candidate, and the lookup of a call by descriptor.
FdCandidate(p, c) ==
  \/ Follows(p, c.fd)
  \/ c.kind = "dup2" /\ Follows(p, c.to)

PassesFilter(p, c) ==
  \/ c.kind = "open" /\ PathCandidate(c)
  \/ c.kind # "open" /\ FdCandidate(p, c)

\* An unwatched path need not agree with a watched one.
MayBeDropped(p, c) ==
  \/ ~PassesFilter(p, c)
  \/ c.kind = "open" /\ c.path \notin Watched

\* Another call of the same process, not over yet, names the descriptor.
Busy(t, fd) ==
  \E u \in Threads \ {t} : /\ thread[u].pc \notin {"user", "absent"}
                          /\ process[u] = process[t] /\ fd \in {thread[u].fd, thread[u].to}

\* Programs do not use a descriptor while another of their calls on it goes on.
Enter(t) ==
  /\ thread[t].pc = "user" /\ calls < MaxCalls
  /\ calls' = calls + 1
  /\ \E c \in Requests :
       /\ ~\E fd \in {c.fd, c.to} \cap Fds : Busy(t, fd)
       /\ \/ /\ PassesFilter(process[t], c)
             /\ thread' = [thread EXCEPT ![t] = [c EXCEPT !.saved = TRUE]]
          \/ /\ MayBeDropped(process[t], c)
             /\ thread' = [thread EXCEPT ![t] = c]
  /\ UNCHANGED <<process, files, readable, followed, ring, cache, verdict, shown, causes>>

-----------------------------------------------------------------------------
(* The call itself.                                                         *)

Table(t) == files[process[t]]
Free(t) == {f \in Fds : Table(t)[f] = NoPath}
Lowest(fds) == CHOOSE f \in fds : \A g \in fds : f <= g

\* The call is over and "table" is what it left; without an entry sys_exit has
\* nothing to do.
Return(t, c, table) ==
  /\ files' = [files EXCEPT ![process[t]] = table]
  /\ thread' = [thread EXCEPT ![t] = IF c.saved
       THEN [c EXCEPT !.pc = "submit", !.table = table] ELSE Idle]

Show(t, fd, seen) ==
  shown' = IF seen THEN shown \cup {<<process[t], fd>>}
           ELSE shown \ {<<process[t], fd>>}
Shown(t, fd) == <<process[t], fd>> \in shown

\* A call that fails changes nothing, yet leaves a record if it was let through.
Fail(t) ==
  /\ \/ thread[t].kind = "open"
     \/ /\ thread[t].kind \in {"close", "dup", "dup2"}
        /\ Table(t)[thread[t].fd] = NoPath
     \/ thread[t].kind = "dup" /\ Free(t) = {}
  /\ Return(t, [Idle EXCEPT !.kind = "failed", !.saved = thread[t].saved], Table(t))
  /\ UNCHANGED <<shown, causes, verdict>>

\* The kernel may give out a number whose close has not returned yet.
Reusing(t, fd) == IF Busy(t, fd) THEN causes \cup {"reuse"} ELSE causes

Open(t) ==
  /\ thread[t].kind = "open" /\ Free(t) # {}
  /\ LET fd == Lowest(Free(t)) IN
       /\ Return(t, [thread[t] EXCEPT !.to = fd],
                 [Table(t) EXCEPT ![fd] = thread[t].path])
       /\ Show(t, fd, thread[t].form # "odd")
       /\ causes' = Reusing(t, fd)
  /\ UNCHANGED verdict

Close(t) ==
  /\ thread[t].kind = "close" /\ Table(t)[thread[t].fd] # NoPath
  /\ Return(t, thread[t], [Table(t) EXCEPT ![thread[t].fd] = NoPath])
  /\ Show(t, thread[t].fd, FALSE)
  /\ UNCHANGED <<causes, verdict>>

\* dup and fcntl(F_DUPFD).
Dup(t) ==
  /\ thread[t].kind = "dup" /\ Table(t)[thread[t].fd] # NoPath /\ Free(t) # {}
  /\ LET fd == Lowest(Free(t)) IN
       /\ Return(t, [thread[t] EXCEPT !.to = fd],
                 [Table(t) EXCEPT ![fd] = Table(t)[thread[t].fd]])
       /\ Show(t, fd, Shown(t, thread[t].fd))
       /\ causes' = Reusing(t, fd)
  /\ UNCHANGED verdict

\* dup2 and dup3 replace the file behind a descriptor.
Dup2(t) ==
  /\ thread[t].kind = "dup2" /\ Table(t)[thread[t].fd] # NoPath
  /\ Return(t, thread[t], [Table(t) EXCEPT ![thread[t].to] = Table(t)[thread[t].fd]])
  /\ Show(t, thread[t].to, FALSE)
  /\ causes' = causes \cup {"dup2"}
  /\ UNCHANGED verdict

\* Every call that names its file by descriptor: ftruncate, fchmod and so on.
Use(t) ==
  /\ thread[t].kind = "use"
  /\ LET c == thread[t] IN
       /\ Return(t, [c EXCEPT !.shown = Shown(t, c.fd)], Table(t))
       /\ verdict' = IF c.saved THEN verdict
                     ELSE Verdict("filtered", Table(t)[c.fd], Shown(t, c.fd))
  /\ UNCHANGED <<shown, causes>>

Effect(t) ==
  /\ thread[t].pc = "call"
  /\ Open(t) \/ Close(t) \/ Dup(t) \/ Dup2(t) \/ Use(t) \/ Fail(t)
  /\ UNCHANGED <<process, readable, calls, followed, ring, cache>>

-----------------------------------------------------------------------------
(* sys_exit, and the clone of a thread or process.                          *)

Output(record) ==
  \/ /\ Len(ring) < RingSlots
     /\ ring' = Append(ring, record)
     /\ UNCHANGED causes
  \/ /\ Len(ring) = RingSlots
     /\ causes' = causes \cup {"lost"}
     /\ UNCHANGED ring

Submit(t) ==
  LET c == thread[t] IN
  /\ c.pc = "submit"
  /\ thread' = [thread EXCEPT ![t] =
       [Idle EXCEPT !.pc = "follow", !.kind = c.kind, !.fd = c.fd, !.to = c.to]]
  /\ Output([thread |-> t, kind |-> c.kind, fd |-> c.fd, to |-> c.to, path |-> c.path,
             form |-> c.form, shown |-> c.shown, table |-> c.table])
  /\ UNCHANGED <<process, files, readable, calls, followed, cache, verdict, shown>>

\* Mutant: entries are added beyond the capacity of the map.
InsertUnbounded(key) == followed' = followed \cup {key} /\ UNCHANGED causes

\* WATCH_FDS.insert, whose failure nobody looks at.
Insert(key) ==
  \/ /\ key \in followed \/ Cardinality(followed) < FollowSlots
     /\ followed' = followed \cup {key}
     /\ UNCHANGED causes
  \/ /\ key \notin followed /\ Cardinality(followed) = FollowSlots
     /\ causes' = causes \cup {"full"}
     /\ UNCHANGED followed

Remove(key) == followed' = followed \ {key} /\ UNCHANGED causes

\* Mutant: the copy of a descriptor is never followed.
UpdateWatchFdsWithoutDup(p, c) ==
  \/ c.kind = "open" /\ Insert(<<p, c.to>>)
  \/ c.kind = "close" /\ Remove(<<p, c.fd>>)
  \/ c.kind \in {"dup", "dup2", "use", "failed"} /\ UNCHANGED <<followed, causes>>

\* update_watch_fds: open, close, dup and F_DUPFD; nothing for dup2 and dup3.
UpdateWatchFds(p, c) ==
  \/ c.kind = "open" /\ Insert(<<p, c.to>>)
  \/ c.kind = "close" /\ Remove(<<p, c.fd>>)
  \/ c.kind = "dup" /\ Follows(p, c.fd) /\ Insert(<<p, c.to>>)
  \/ c.kind = "dup" /\ ~Follows(p, c.fd) /\ Remove(<<p, c.to>>)
  \/ c.kind \in {"dup2", "use", "failed"} /\ UNCHANGED <<followed, causes>>

Follow(t) ==
  /\ thread[t].pc = "follow"
  /\ thread' = [thread EXCEPT ![t] = Idle]
  /\ UpdateWatchFds(process[t], thread[t])
  /\ UNCHANGED <<process, files, readable, calls, ring, cache, verdict, shown>>

\* clone: a second thread, or a child process with a copy of the descriptors,
\* which no program copies in WATCH_FDS. sched_process_fork tells user space.
Clone ==
  /\ thread[Main].pc = "user" /\ thread[Other].pc = "absent"
  /\ thread' = [thread EXCEPT ![Other] = Idle]
  /\ \/ /\ "thread" \in Clones
        /\ process' = [process EXCEPT ![Other] = Main] /\ UNCHANGED files
     \/ /\ "process" \in Clones
        /\ process' = [process EXCEPT ![Other] = Other]
        /\ files' = [files EXCEPT ![Other] = files[Main]]
  /\ Output([thread |-> Main, kind |-> "fork", fd |-> NoFd, to |-> NoFd, path |-> NoPath,
             form |-> "full", shown |-> FALSE, table |-> files[Main]])
  /\ UNCHANGED <<readable, calls, followed, cache, verdict, shown>>

-----------------------------------------------------------------------------
(* The collector, which takes a record to its end before the next.          *)
(* A cache is [known, owner, cached], and "read" if this record made it read /proc. *)

Now == [known |-> known, owner |-> owner, cached |-> cached, read |-> FALSE]

\* insert_context: the thread is known from now on, as one of process p, whose
\* whole table is replaced.
InsertContext(s, t, p, table) ==
  [s EXCEPT !.known = @ \cup {t}, !.owner[t] = p, !.cached[p] = table]

\* read_thread for a record, where /proc may be read: what it shows by then.
Attempt(s, t) ==
  IF readable
    THEN [InsertContext(s, t, process[t], files[process[t]]) EXCEPT !.read = TRUE] ELSE s

Lookup(s, t, fd) == IF t \in s.known THEN s.cached[s.owner[t]][fd] ELSE NoPath

\* open_fd, its error ignored: the thread must be known.
Put(s, t, fd, path) ==
  IF t \in s.known THEN [s EXCEPT !.cached[s.owner[t]][fd] = path] ELSE s

Resolved(said, s) == [said |-> said, cache |-> s]

\* resolve_syscall_paths. A call by descriptor: from the cache, else from a
\* snapshot (read_fd_path, tried last, finds no more than a snapshot taken at the
\* same moment). A path: a relative one needs the directory of a known thread.
ResolveFd(r) ==
  LET s == IF Lookup(Now, r.thread, r.fd) # NoPath THEN Now ELSE Attempt(Now, r.thread)
      path == Lookup(s, r.thread, r.fd) IN
  Resolved(IF path = NoPath THEN "gap" ELSE path, s)

ResolvePath(r) ==
  LET s == IF r.form = "full" \/ r.thread \in known THEN Now ELSE Attempt(Now, r.thread) IN
  Resolved(IF r.form = "full" \/ r.thread \in s.known THEN r.path ELSE "gap", s)

ResolveSyscallPaths(r) ==
  CASE r.kind = "use"  -> ResolveFd(r)
    [] r.kind = "open" -> ResolvePath(r)
    [] OTHER           -> Resolved("none", Now)

CloseFd(s, t, fd) == Put(s, t, fd, NoPath)

\* duplicate_fd: nothing, where the source is not in the table.
DuplicateFd(s, t, from, to) ==
  IF Lookup(s, t, from) = NoPath THEN s ELSE Put(s, t, to, Lookup(s, t, from))

\* Mutant: open_fd keeps what the table already says of the descriptor.
CacheAfterKeepingEntries(s, r, said) ==
  LET t == r.thread IN
  CASE r.kind = "open" /\ said # "gap" /\ Lookup(s, t, r.to) = NoPath -> Put(s, t, r.to, said)
    [] r.kind = "close"             -> CloseFd(s, t, r.fd)
    [] r.kind \in {"dup", "dup2"}   -> DuplicateFd(s, t, r.fd, r.to)
    [] OTHER                        -> s

\* apply_syscall_cache_updates, the descriptors.
CacheAfter(s, r, said) ==
  LET t == r.thread IN
  CASE r.kind = "open" /\ said # "gap" -> Put(s, t, r.to, said)
    [] r.kind = "close"               -> CloseFd(s, t, r.fd)
    [] r.kind \in {"dup", "dup2"}     -> DuplicateFd(s, t, r.fd, r.to)
    [] OTHER                          -> s

\* Its end: a thread still unknown is looked up in /proc.
Refreshed(s, t) == IF t \in s.known THEN s ELSE Attempt(s, t)

SetCache(s) ==
  /\ known' = s.known
  /\ owner' = s.owner
  /\ cached' = s.cached

\* /proc shows more than the calls up to this record.
Behind(s, r) == s.read /\ files[process[r.thread]] # r.table

ConsumeSyscall ==
  /\ ring # << >> /\ Head(ring).kind # "fork"
  /\ LET r == Head(ring)
         resolved == ResolveSyscallPaths(r)
         after == Refreshed(CacheAfter(resolved.cache, r, resolved.said), r.thread) IN
       /\ SetCache(after)
       /\ causes' = IF Behind(after, r) THEN causes \cup {"behind"} ELSE causes
       /\ verdict' = IF r.kind = "use" THEN Verdict(resolved.said, r.table[r.fd], r.shown)
                     ELSE verdict
  /\ ring' = Tail(ring)
  /\ UNCHANGED <<kernel, shown>>

\* fork_thread: the new process has a copy of the table its parent is known by.
ForkThread ==
  IF Main \in known THEN InsertContext(Now, Other, Other, cached[owner[Main]]) ELSE Now

\* apply_process_event(PROCESS_EVENT_FORK). The record has the new thread's id for
\* a process id too, so that even a thread gets a table of its own.
ConsumeFork ==
  /\ ring # << >> /\ Head(ring).kind = "fork"
  /\ LET live == files[process[Other]] IN
       /\ SetCache(IF readable THEN InsertContext(Now, Other, Other, live) ELSE ForkThread)
       /\ causes' = causes \cup
            {c \in {"behind"} : readable /\ live # Head(ring).table} \cup
            {c \in {"split"} : process[Other] = Main}
  /\ ring' = Tail(ring)
  /\ UNCHANGED <<kernel, verdict, shown>>

-----------------------------------------------------------------------------
(* Main was there when scan_proc ran, with files the filter never saw it open. *)

Init ==
  /\ thread = [t \in Threads |-> IF t = Main THEN Idle ELSE Absent]
  /\ process = [t \in Threads |-> Main]
  /\ \E p \in Targets : files = [t \in Threads |-> IF t = Main THEN [Closed EXCEPT ![1] = p]
                                                  ELSE Closed]
  /\ readable \in BOOLEAN /\ calls = 0 /\ followed = {} /\ ring = << >>
  /\ owner = [t \in Threads |-> Main]
  /\ \/ known = {Main} /\ cached = files
     \/ known = {} /\ cached = [t \in Threads |-> Closed]
  /\ verdict = Verdict("none", NoPath, FALSE)
  /\ shown = {} /\ causes = {}

ThreadStep(t) == Enter(t) \/ Effect(t) \/ Submit(t) \/ Follow(t)
Next == (\E t \in Threads : ThreadStep(t)) \/ Clone \/ ConsumeSyscall \/ ConsumeFork

Spec == Init /\ [][Next]_vars

-----------------------------------------------------------------------------
(* Properties.                                                              *)

Said == Paths \cup {"none", "gap", "filtered"}

\* The shape of the state.
TypeOK ==
  /\ \A t \in Threads : thread[t].pc \in {"absent", "user", "call", "submit", "follow"}
  /\ process \in [Threads -> Threads]
  /\ files \in [Threads -> [Fds -> Targets]] /\ cached \in [Threads -> [Fds -> Targets]]
  /\ known \subseteq Threads /\ owner \in [Threads -> Threads]
  /\ followed \subseteq Threads \X Fds /\ Cardinality(followed) <= FollowSlots
  /\ shown \subseteq Threads \X Fds
  /\ Len(ring) <= RingSlots /\ calls <= MaxCalls
  /\ verdict.said \in Said /\ verdict.actual \in Targets

\* A descriptor of a watched file that the program opened by name, or copied
\* from one, is followed once every call that names it has returned: unless the
\* number was reused while a call on it was still returning, or WATCH_FDS is full.
\* (update_watch_fds against the descriptors themselves.)
ShownIsFollowed ==
  causes \cap {"reuse", "full"} = {} =>
    \A t \in Threads, fd \in Fds :
      /\ files[t][fd] \in Watched /\ <<t, fd>> \in shown
      /\ ~\E u \in Threads : /\ process[u] = t /\ fd \in {thread[u].fd, thread[u].to}
                            /\ thread[u].pc \notin {"absent", "user"}
      => <<t, fd>> \in followed

\* What the audit says is true: a call by descriptor that is matched with a
\* watched path went to that path, as long as dup2 has replaced no file, no record
\* was lost, no number was reused in flight, no thread has a table of its own, and
\* /proc was never read while calls that it already shows were still to be applied.
\* (resolve_syscall_paths with what apply_syscall_cache_updates left behind.)
LineIsTrue ==
  verdict.said \in Watched /\ verdict.said # verdict.actual => causes \ {"full"} # {}

\* What the audit should say is said: a call that reached a watched file through
\* a descriptor the filter saw appear is matched with a watched path or reported
\* as a gap, never silently dropped, under the same conditions and as long as
\* WATCH_FDS has room. (The filter, WATCH_FDS and the cache taken together.)
WatchedCallShows ==
  /\ verdict.actual \in Watched /\ verdict.shown
  /\ causes \subseteq {"dup2"}
  => verdict.said \in Watched \cup {"gap"}
=============================================================================

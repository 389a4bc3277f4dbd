------------------------------ MODULE ForeignLock ------------------------------
(***************************************************************************)
(* The kernel lock a turn holds on its foreign session (backend/lock.go,   *)
(* lock_unix.go) and the way a producer uses it (backend/turn.go): a turn  *)
(* whose session id is known locks the session's file, any other the file  *)
(* of its loop until it learns the id.  Producers live in processes that   *)
(* may crash.  A lock belongs to an open file description, so two          *)
(* producers of one process exclude each other as those of two do; the     *)
(* file behind a path is an inode, created once.                           *)
(***************************************************************************)
EXTENDS Naturals, FiniteSets

CONSTANTS
  Producers,    \* turns that run their provider
  LoopOf,       \* the loop of each
  HostOf,       \* the process of each
  SIDs          \* session ids

ASSUME LockAssumption ==
  /\ IsFiniteSet(Producers)
  /\ {"none"} \cap (SIDs \cup {HostOf[p] : p \in Producers}) = {}

VARIABLES
  bound,        \* producers whose loop knew its session id at the start
  sid,          \* the session id of a producer, or none
  at,           \* where its code stands
  attempt,      \* the descriptor of the acquisition under way, or NoFile
  lock,         \* the descriptor of the lock the turn holds, or NoFile
  bindFailed,   \* producers whose bindSID failed
  inode,        \* the file behind a path, 0 for none
  created,      \* files created of a path
  content,      \* the pid written into a file, or none
  crashed,      \* processes that are gone
  holders       \* the processes that locked a file (history)

fileVars == <<inode, created, content, holders>>
lvars == <<bound, sid, at, attempt, lock, bindFailed, fileVars, crashed>>

Loops == {LoopOf[p] : p \in Producers}
Hosts == {HostOf[p] : p \in Producers}
Paths == [kind : {"temporary"}, of : Loops] \cup [kind : {"durable"}, of : SIDs]
NoFile == [path |-> "none", inode |-> 0]
Inodes == 0..Cardinality(Producers)
Files == [path : Paths, inode : Inodes]

Acquiring == {"opened", "checked", "locked", "truncated"}
LockTypeOK ==
  /\ bound \subseteq Producers /\ sid \in [Producers -> SIDs \cup {"none"}]
  /\ at \in [Producers -> {"idle", "running", "swap", "over", "dead"} \cup Acquiring]
  /\ {attempt, lock} \subseteq [Producers -> Files \cup {NoFile}]
  /\ bindFailed \subseteq Producers
  /\ inode \in [Paths -> Inodes] /\ created \in [Paths -> Inodes]
  /\ content \in [Files -> Hosts \cup {"none"}]
  /\ crashed \subseteq Hosts /\ holders \in [Files -> SUBSET Hosts]

LockInit ==
  /\ bound \in SUBSET Producers
  /\ sid \in [Producers -> SIDs \cup {"none"}]
  /\ \A p \in Producers : p \in bound <=> sid[p] # "none"
  /\ at = [p \in Producers |-> "idle"]
  /\ attempt = [p \in Producers |-> NoFile] /\ lock = [p \in Producers |-> NoFile]
  /\ bindFailed = {}
  /\ inode = [x \in Paths |-> 0] /\ created = [x \in Paths |-> 0]
  /\ content = [f \in Files |-> "none"]
  /\ crashed = {} /\ holders = [f \in Files |-> {}]

-----------------------------------------------------------------------------
(***************************************************************************)
(* acquirePlatformForeignLock.                                             *)
(***************************************************************************)
Moves(p, to) == at' = [at EXCEPT ![p] = to]

(* The descriptors whose lock the kernel holds for p. *)
Locked(p) == (IF lock[p] # NoFile THEN {lock[p]} ELSE {})
             \cup (IF at[p] \in {"locked", "truncated", "swap"} THEN {attempt[p]} ELSE {})
Taken(f) == \E q \in Producers : f \in Locked(q)

Wanted(p) == IF sid[p] # "none" THEN [kind |-> "durable", of |-> sid[p]]
             ELSE [kind |-> "temporary", of |-> LoopOf[p]]

(* Created exclusively, or opened: a file that exists is never unlinked. *)
Opens(p, path) ==
  /\ inode' = [inode EXCEPT ![path] = IF @ = 0 THEN created[path] + 1 ELSE @]
  /\ created' = [created EXCEPT ![path] = IF inode[path] = 0 THEN @ + 1 ELSE @]
  /\ attempt' = [attempt EXCEPT ![p] = [path |-> path, inode |-> inode'[path]]]
  /\ Moves(p, "opened")
  /\ UNCHANGED <<content, holders>>

(* A failed first acquisition ends the turn; a failed bindSID leaves it with
   the temporary lock and an error. *)
Refused(p) ==
  /\ attempt' = [attempt EXCEPT ![p] = NoFile]
  /\ Moves(p, IF lock[p] = NoFile THEN "over" ELSE "running")
  /\ bindFailed' = IF lock[p] = NoFile THEN bindFailed ELSE bindFailed \cup {p}

(* validateLockFile: the file must still be linked. *)
Check(p) ==
  /\ at[p] = "opened"
  /\ \/ /\ inode[attempt[p].path] = attempt[p].inode /\ Moves(p, "checked")
        /\ UNCHANGED <<attempt, bindFailed>>
     \/ Refused(p)
  /\ UNCHANGED <<bound, sid, lock, fileVars, crashed>>

Flock(p) ==
  /\ at[p] = "checked" /\ ~Taken(attempt[p])
  /\ Moves(p, "locked")
  /\ holders' = [holders EXCEPT ![attempt[p]] = @ \cup {HostOf[p]}]
  /\ UNCHANGED <<bound, sid, attempt, lock, bindFailed, inode, created, content, crashed>>

(* Mutant: the lock is waited for. *)
BusyWaits(p) == FALSE

(* LOCK_NB: ForeignSessionBusyError carries content[attempt[p]]. *)
Busy(p) ==
  /\ at[p] = "checked" /\ Taken(attempt[p])
  /\ Refused(p)
  /\ UNCHANGED <<bound, sid, lock, fileVars, crashed>>

Truncate(p) ==
  /\ at[p] = "locked" /\ Moves(p, "truncated")
  /\ content' = [content EXCEPT ![attempt[p]] = "none"]
  /\ UNCHANGED <<bound, sid, attempt, lock, bindFailed, inode, created, holders, crashed>>

(* The pid is written: the first lock is the turn's, a second one is exchanged
   for it. *)
WritePID(p) ==
  /\ at[p] = "truncated"
  /\ content' = [content EXCEPT ![attempt[p]] = HostOf[p]]
  /\ IF lock[p] = NoFile
     THEN /\ lock' = [lock EXCEPT ![p] = attempt[p]]
          /\ attempt' = [attempt EXCEPT ![p] = NoFile] /\ Moves(p, "running")
     ELSE UNCHANGED <<lock, attempt>> /\ Moves(p, "swap")
  /\ UNCHANGED <<bound, sid, bindFailed, inode, created, holders, crashed>>

(* writeLockPID failed, with the pid in the file or without: the lock goes back. *)
WriteFails(p) ==
  /\ at[p] \in {"locked", "truncated"}
  /\ \/ UNCHANGED content
     \/ at[p] = "truncated" /\ content' = [content EXCEPT ![attempt[p]] = HostOf[p]]
  /\ Refused(p)
  /\ UNCHANGED <<bound, sid, lock, inode, created, holders, crashed>>

-----------------------------------------------------------------------------
(***************************************************************************)
(* driveTurnToSink.                                                        *)
(***************************************************************************)
Begin(p) ==
  /\ at[p] = "idle"
  /\ Opens(p, Wanted(p))
  /\ UNCHANGED <<bound, sid, lock, bindFailed, crashed>>

(* bindSID: the id is learned once. *)
Bind(p, s) ==
  /\ at[p] = "running" /\ sid[p] = "none"
  /\ sid' = [sid EXCEPT ![p] = s]
  /\ Opens(p, [kind |-> "durable", of |-> s])
  /\ UNCHANGED <<bound, lock, bindFailed, crashed>>

(* Mutant: a released file is unlinked. *)
FilesUnlinked(p) == [inode EXCEPT ![lock[p].path] = 0]
(* release unlocks and closes the descriptor. *)
FilesAfterRelease(p) == inode

Swap(p) ==
  /\ at[p] = "swap" /\ Moves(p, "running")
  /\ inode' = FilesAfterRelease(p)
  /\ lock' = [lock EXCEPT ![p] = attempt[p]]
  /\ attempt' = [attempt EXCEPT ![p] = NoFile]
  /\ UNCHANGED <<bound, sid, bindFailed, created, content, holders, crashed>>

End(p) ==
  /\ at[p] = "running" /\ Moves(p, "over")
  /\ inode' = FilesAfterRelease(p)
  /\ lock' = [lock EXCEPT ![p] = NoFile]
  /\ UNCHANGED <<bound, sid, attempt, bindFailed, created, content, holders, crashed>>

(* A process dies: the kernel closes its descriptors, the files stay. *)
Crash(h) ==
  LET dead == {p \in Producers : HostOf[p] = h} IN
  /\ h \notin crashed /\ crashed' = crashed \cup {h}
  /\ at' = [p \in Producers |-> IF p \in dead THEN "dead" ELSE at[p]]
  /\ attempt' = [p \in Producers |-> IF p \in dead THEN NoFile ELSE attempt[p]]
  /\ lock' = [p \in Producers |-> IF p \in dead THEN NoFile ELSE lock[p]]
  /\ UNCHANGED <<bound, sid, bindFailed, fileVars>>

Acquire(p) == \/ Check(p) \/ Flock(p) \/ Busy(p) \/ Truncate(p) \/ WritePID(p)
              \/ WriteFails(p) \/ Swap(p)

LockNext ==
  \/ \E p \in Producers : Begin(p) \/ Acquire(p) \/ End(p) \/ (\E s \in SIDs : Bind(p, s))
  \/ \E h \in Hosts : Crash(h)

(* An acquisition goes on by itself; a turn may hold its lock for ever. *)
LockSpec == LockInit /\ [][LockNext]_lvars /\ \A p \in Producers : WF_lvars(Acquire(p))

-----------------------------------------------------------------------------
(***************************************************************************)
(* Properties.                                                             *)
(***************************************************************************)
(* Two turns never hold the lock of one path, whatever file each has open: not
   after a release, nor after a crash, nor through a file opened before
   (acquirePlatformForeignLock, "The stable lock file is never unlinked"). *)
OneHolder == \A p, q \in Producers : p # q =>
  {f.path : f \in Locked(p)} \cap {f.path : f \in Locked(q)} = {}

(* A turn that got its lock is never without one until it is over; once it has
   bound its session it holds the session's own (bindSID, driveTurnToSink). *)
Holds(p) == at[p] = "running" \/ (at[p] \in Acquiring \cup {"swap"} /\ sid[p] # "none" /\ p \notin bound)
AlwaysLocked == \A p \in Producers :
  /\ Holds(p) => lock[p] # NoFile
  /\ at[p] = "running" /\ p \notin bindFailed => lock[p].path = Wanted(p)

(* The pid a busy error names is unknown, or of a process that has held the
   lock; the holder of the moment may not have written its own yet
   (writeLockPID, readLockPID). *)
PIDOfAHolder == \A f \in Files : content[f] \in holders[f] \cup {"none"}

(* Who holds which session. *)
LockInv == LockTypeOK /\ OneHolder /\ AlwaysLocked /\ PIDOfAHolder

(* An acquisition is answered although the holder never ends or has crashed. *)
AcquireEnds == \A p \in Producers :
  at[p] \in Acquiring ~> at[p] \in {"running", "over", "dead"}
=============================================================================

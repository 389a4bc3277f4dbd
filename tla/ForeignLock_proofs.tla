-------------------------- MODULE ForeignLock_proofs --------------------------
(***************************************************************************)
(* Who holds which session, for any turns, loops, processes and sessions.  *)
(* The argument is that the file of a path is made once: every descriptor  *)
(* of a path is then of one file, and the kernel's exclusion on files is   *)
(* an exclusion on paths.                                                  *)
(***************************************************************************)
EXTENDS ForeignLock, FiniteSetTheorems, TLAPS

(* A path has no file, or the one that was created for it. *)
MadeOnce == \A x \in Paths : created[x] \in {0, 1} /\ inode[x] = created[x]

(* What is true of one turn: its descriptors are of the files of their paths, the
   one under way is open while it acquires and on the path it wants; whoever
   locked a file is among its holders; a turn locks again only for the id it
   learned, and then it holds the first lock meanwhile. *)
Own(p) ==
  /\ at[p] \in Acquiring \cup {"swap"} =>
       attempt[p] \in Files /\ attempt[p].inode = 1 /\ attempt[p].path = Wanted(p)
  /\ at[p] \notin Acquiring \cup {"swap"} => attempt[p] = NoFile
  /\ attempt[p] # NoFile => created[attempt[p].path] = 1
  /\ lock[p] # NoFile => lock[p] \in Files /\ lock[p].inode = 1
  /\ at[p] \in {"locked", "truncated", "swap"} => HostOf[p] \in holders[attempt[p]]
  /\ p \in bound => sid[p] # "none"
  /\ at[p] = "idle" => (p \in bound <=> sid[p] # "none")
  /\ at[p] = "swap" \/ Holds(p) => lock[p] # NoFile
  /\ at[p] = "running" /\ p \notin bindFailed => lock[p].path = Wanted(p)

LockIInv ==
  LockTypeOK /\ OneHolder /\ PIDOfAHolder /\ MadeOnce /\ \A p \in Producers : Own(p)

LEMMA InodeFacts ==
  ASSUME NEW p \in Producers
  PROVE  {0, 1} \subseteq Inodes
<1>1. Cardinality(Producers) \in Nat /\ Cardinality(Producers) # 0
  BY LockAssumption, FS_CardinalityType, FS_EmptySet
<1> QED BY <1>1 DEF Inodes

LEMMA WantedIsPath ==
  ASSUME LockTypeOK, NEW p \in Producers
  PROVE  Wanted(p) \in Paths
BY DEF LockTypeOK, Wanted, Paths, Loops

(* The files of one path are one file. *)
LEMMA SameFile ==
  ASSUME NEW f \in Files, NEW g \in Files, f.path = g.path, f.inode = g.inode
  PROVE  f = g
BY DEF Files

LEMMA NotNoFile ==
  ASSUME NEW f, f.inode = 1
  PROVE  f # NoFile
BY DEF NoFile

LEMMA LockInitially == LockInit => LockIInv
<1> SUFFICES ASSUME LockInit PROVE LockIInv
  OBVIOUS
<1>0. 0 \in Inodes
  <2>1. Cardinality(Producers) \in Nat
    BY LockAssumption, FS_CardinalityType
  <2> QED BY <2>1 DEF Inodes
<1>1. LockTypeOK
  BY <1>0 DEF LockInit, LockTypeOK
<1>2. OneHolder
  BY DEF LockInit, OneHolder, Locked
<1>3. PIDOfAHolder /\ MadeOnce
  BY DEF LockInit, PIDOfAHolder, MadeOnce
<1>4. \A p \in Producers : Own(p)
  BY DEF LockInit, Own, Holds, Acquiring
<1> QED BY <1>1, <1>2, <1>3, <1>4 DEF LockIInv


(* A turn's own part does not depend on what another turn does. *)
LEMMA OthersOwn ==
  ASSUME NEW p, Own(p),
         at'[p] = at[p], attempt'[p] = attempt[p], lock'[p] = lock[p], sid'[p] = sid[p],
         bound' = bound, p \in bindFailed' <=> p \in bindFailed,
         attempt[p] # NoFile =>
           /\ created[attempt[p].path] = 1 => created'[attempt[p].path] = 1
           /\ holders[attempt[p]] \subseteq holders'[attempt[p]]
  PROVE  Own(p)'
BY DEF Own, Wanted, Holds, Acquiring, NoFile

LEMMA OpensStep ==
  ASSUME LockIInv, NEW p \in Producers,
         \/ Begin(p)
         \/ \E s \in SIDs : Bind(p, s)
  PROVE  LockIInv'
<1>1. PICK path \in Paths : Opens(p, path) /\ path = Wanted(p)'
  <2>1. CASE Begin(p)
    BY <2>1, WantedIsPath DEF LockIInv, Begin, Wanted
  <2>2. ASSUME NEW s \in SIDs, Bind(p, s) PROVE Opens(p, Wanted(p)') /\ Wanted(p)' \in Paths
    <3>1. sid'[p] = s /\ s # "none"
      BY <2>2, LockAssumption DEF Bind, LockIInv, LockTypeOK
    <3> QED BY <2>2, <3>1 DEF Bind, Wanted, Paths
  <2> QED BY <2>1, <2>2
<1>2. /\ inode' = [inode EXCEPT ![path] = 1] /\ created' = [created EXCEPT ![path] = 1]
      /\ attempt' = [attempt EXCEPT ![p] = [path |-> path, inode |-> 1]]
      /\ at' = [at EXCEPT ![p] = "opened"]
      /\ UNCHANGED <<lock, bound, bindFailed, content, holders, crashed>>
      /\ [path |-> path, inode |-> 1] \in Files
  <2>1. created[path] \in {0, 1} /\ inode[path] = created[path]
    BY DEF LockIInv, MadeOnce
  <2>2. inode \in [Paths -> Inodes] /\ created \in [Paths -> Inodes]
    BY DEF LockIInv, LockTypeOK
  <2>3. inode'[path] = 1
    BY <1>1, <2>1, <2>2 DEF Opens
  <2>a. /\ (IF inode[path] = 0 THEN created[path] + 1 ELSE inode[path]) = 1
        /\ (IF inode[path] = 0 THEN created[path] + 1 ELSE created[path]) = 1
    BY <2>1
  <2>4. inode' = [inode EXCEPT ![path] = 1] /\ created' = [created EXCEPT ![path] = 1]
    BY <1>1, <2>a DEF Opens
  <2>5. UNCHANGED <<lock, bound, bindFailed, crashed>>
    BY DEF Begin, Bind
  <2> QED BY <1>1, <2>3, <2>4, <2>5, InodeFacts DEF Opens, Moves, Files
<1>3. /\ sid' \in [Producers -> SIDs \cup {"none"}]
      /\ \A q \in Producers : q # p => sid'[q] = sid[q]
      /\ at[p] = "idle" => sid' = sid
      /\ at[p] = "running" => sid[p] = "none"
      /\ at[p] \in {"idle", "running"}
  BY DEF LockIInv, LockTypeOK, Begin, Bind
<1>4. LockTypeOK'
  <2>1. LockTypeOK
    BY DEF LockIInv
  <2>2. at' \in [Producers -> {"idle", "running", "swap", "over", "dead"} \cup Acquiring]
    BY <1>2, <2>1 DEF LockTypeOK, Acquiring
  <2>3. attempt' \in [Producers -> Files \cup {NoFile}]
    BY <1>2, <2>1 DEF LockTypeOK
  <2>4. inode' \in [Paths -> Inodes] /\ created' \in [Paths -> Inodes]
    BY <1>2, <2>1, InodeFacts DEF LockTypeOK
  <2> QED BY <1>2, <1>3, <2>1, <2>2, <2>3, <2>4 DEF LockTypeOK
<1>5. \A q \in Producers : Locked(q)' = Locked(q)
  BY <1>2, <1>3 DEF LockIInv, LockTypeOK, Locked
<1>6. OneHolder' /\ PIDOfAHolder'
  BY <1>2, <1>5 DEF LockIInv, OneHolder, PIDOfAHolder
<1>7. MadeOnce'
  BY <1>2 DEF LockIInv, LockTypeOK, MadeOnce
<1>8. Own(p)'
  <2>1. at'[p] = "opened" /\ attempt'[p] = [path |-> path, inode |-> 1] /\ lock'[p] = lock[p]
        /\ created'[path] = 1
    BY <1>2 DEF LockIInv, LockTypeOK
  <2>2. Own(p)
    BY DEF LockIInv
  <2>3. sid'[p] # "none" /\ p \notin bound' => at[p] = "running"
    BY <1>2, <1>3, <2>2 DEF Own
  <2>4. sid'[p] = "none" => sid[p] = "none"
    BY LockAssumption DEF Begin, Bind, LockIInv, LockTypeOK
  <2> QED BY <1>1, <1>2, <2>1, <2>2, <2>3, <2>4 DEF Own, Acquiring, Holds
<1>9. ASSUME NEW q \in Producers, q # p PROVE Own(q)'
  <2>1. at'[q] = at[q] /\ attempt'[q] = attempt[q] /\ lock'[q] = lock[q] /\ sid'[q] = sid[q]
    BY <1>2, <1>3, <1>9 DEF LockIInv, LockTypeOK
  <2>2. \A x \in Paths : created[x] = 1 => created'[x] = 1
    BY <1>2 DEF LockIInv, LockTypeOK
  <2>3. Own(q) /\ (attempt[q] # NoFile => attempt[q].path \in Paths)
    BY DEF LockIInv, Own, Files
  <2> QED BY <1>2, <2>1, <2>2, <2>3, OthersOwn
<1> QED BY <1>4, <1>6, <1>7, <1>8, <1>9 DEF LockIInv

LEMMA FewerLocked ==
  ASSUME OneHolder, \A q \in Producers : Locked(q)' \subseteq Locked(q)
  PROVE  OneHolder'
BY DEF OneHolder

LEMMA RefusedStep ==
  ASSUME LockIInv, NEW p \in Producers, at[p] \in Acquiring, Refused(p),
         content' \in [Files -> Hosts \cup {"none"}], PIDOfAHolder',
         UNCHANGED <<bound, sid, lock, inode, created, holders, crashed>>
  PROVE  LockIInv'
<1>1. /\ attempt' = [attempt EXCEPT ![p] = NoFile]
      /\ at' = [at EXCEPT ![p] = IF lock[p] = NoFile THEN "over" ELSE "running"]
      /\ bindFailed' = IF lock[p] = NoFile THEN bindFailed ELSE bindFailed \cup {p}
  BY DEF Refused, Moves
<1>2. LockTypeOK'
  BY <1>1 DEF LockIInv, LockTypeOK
<1>3. \A q \in Producers : Locked(q)' \subseteq Locked(q)
  BY <1>1 DEF LockIInv, LockTypeOK, Locked
<1>4. OneHolder' /\ MadeOnce'
  BY <1>3, FewerLocked DEF LockIInv, MadeOnce
<1>5. Own(p)'
  BY <1>1 DEF LockIInv, LockTypeOK, Own, Acquiring, Holds
<1>6. ASSUME NEW q \in Producers, q # p PROVE Own(q)'
  BY <1>1, <1>6, OthersOwn DEF LockIInv, LockTypeOK
<1> QED BY <1>2, <1>4, <1>5, <1>6 DEF LockIInv

LEMMA CheckStep ==
  ASSUME LockIInv, NEW p \in Producers, Check(p)
  PROVE  LockIInv'
<1>1. CASE Refused(p)
  BY <1>1, RefusedStep DEF Check, fileVars, LockIInv, LockTypeOK, Acquiring, PIDOfAHolder
<1>2. CASE at[p] = "opened" /\ Moves(p, "checked") /\ UNCHANGED <<attempt, bindFailed>>
  <2>1. LockTypeOK'
    BY <1>2 DEF Check, fileVars, LockIInv, LockTypeOK, Moves, Acquiring
  <2>2. \A q \in Producers : Locked(q)' \subseteq Locked(q)
    BY <1>2 DEF Check, LockIInv, LockTypeOK, Locked, Moves
  <2>3. OneHolder' /\ MadeOnce' /\ PIDOfAHolder'
    BY <2>2, FewerLocked DEF Check, fileVars, LockIInv, MadeOnce, PIDOfAHolder
  <2>4. Own(p)'
    BY <1>2 DEF Check, fileVars, Moves, LockIInv, LockTypeOK, Own, Acquiring, Holds, Wanted
  <2>5. ASSUME NEW q \in Producers, q # p PROVE Own(q)'
    BY <1>2, <2>5, OthersOwn DEF Check, fileVars, Moves, LockIInv, LockTypeOK
  <2> QED BY <2>1, <2>3, <2>4, <2>5 DEF LockIInv
<1> QED BY <1>1, <1>2 DEF Check

LEMMA FlockStep ==
  ASSUME LockIInv, NEW p \in Producers, Flock(p)
  PROVE  LockIInv'
<1>1. /\ at[p] = "checked" /\ at' = [at EXCEPT ![p] = "locked"] /\ ~Taken(attempt[p])
      /\ holders' = [holders EXCEPT ![attempt[p]] = @ \cup {HostOf[p]}]
      /\ UNCHANGED <<bound, sid, attempt, lock, bindFailed, inode, created, content, crashed>>
  BY DEF Flock, Moves
<1>2. attempt[p] \in Files /\ attempt[p].inode = 1
  BY <1>1 DEF LockIInv, Own, Acquiring
<1>3. LockTypeOK'
  <2>1. at' \in [Producers -> {"idle", "running", "swap", "over", "dead"} \cup Acquiring]
    BY <1>1 DEF LockIInv, LockTypeOK, Acquiring
  <2>2. holders' \in [Files -> SUBSET Hosts]
    BY <1>1, <1>2 DEF LockIInv, LockTypeOK, Hosts
  <2> QED BY <1>1, <2>1, <2>2 DEF LockIInv, LockTypeOK
<1>4. OneHolder'
  <2>1. Locked(p)' \subseteq Locked(p) \cup {attempt[p]}
    BY <1>1 DEF LockIInv, LockTypeOK, Locked
  <2>2. \A q \in Producers : q # p => Locked(q)' = Locked(q)
    BY <1>1 DEF LockIInv, LockTypeOK, Locked
  <2>3. ASSUME NEW q \in Producers, NEW f \in Locked(q) PROVE f.path # attempt[p].path
    <3>1. f \in Files /\ f.inode = 1
      BY <2>3 DEF LockIInv, Own, Locked, Acquiring
    <3>2. f # attempt[p]
      BY <1>1, <2>3 DEF Taken
    <3> QED BY <1>2, <3>1, <3>2, SameFile
  <2> QED BY <2>1, <2>2, <2>3 DEF LockIInv, OneHolder
<1>5. MadeOnce' /\ PIDOfAHolder'
  BY <1>1, <1>2 DEF LockIInv, LockTypeOK, MadeOnce, PIDOfAHolder
<1>6. Own(p)'
  BY <1>1, <1>2 DEF LockIInv, LockTypeOK, Own, Acquiring, Holds, Wanted
<1>7. ASSUME NEW q \in Producers, q # p PROVE Own(q)'
  <2>1. attempt[q] # NoFile => attempt[q] \in Files
    BY DEF LockIInv, LockTypeOK
  <2>2. \A f \in Files : holders[f] \subseteq holders'[f]
    BY <1>1 DEF LockIInv, LockTypeOK
  <2> QED BY <1>1, <1>7, <2>1, <2>2, OthersOwn DEF LockIInv, LockTypeOK
<1> QED BY <1>3, <1>4, <1>5, <1>6, <1>7 DEF LockIInv

LEMMA BusyStep ==
  ASSUME LockIInv, NEW p \in Producers, Busy(p)
  PROVE  LockIInv'
BY RefusedStep DEF Busy, fileVars, LockIInv, LockTypeOK, Acquiring, PIDOfAHolder

(* The pid is written, or taken out, by one who locked the file. *)
LEMMA ContentStep ==
  ASSUME LockIInv, NEW p \in Producers, at[p] \in {"locked", "truncated"},
         \/ UNCHANGED content
         \/ content' = [content EXCEPT ![attempt[p]] = HostOf[p]]
         \/ content' = [content EXCEPT ![attempt[p]] = "none"],
         holders' = holders
  PROVE  content' \in [Files -> Hosts \cup {"none"}] /\ PIDOfAHolder'
<1>1. attempt[p] \in Files /\ HostOf[p] \in holders[attempt[p]]
  BY DEF LockIInv, Own, Acquiring
<1> QED BY <1>1 DEF LockIInv, LockTypeOK, PIDOfAHolder, Hosts

LEMMA TruncateStep ==
  ASSUME LockIInv, NEW p \in Producers, Truncate(p)
  PROVE  LockIInv'
<1>1. content' \in [Files -> Hosts \cup {"none"}] /\ PIDOfAHolder'
  BY ContentStep DEF Truncate
<1>2. LockTypeOK'
  BY <1>1 DEF Truncate, Moves, LockIInv, LockTypeOK, Acquiring
<1>3. \A q \in Producers : Locked(q)' \subseteq Locked(q)
  BY DEF Truncate, Moves, LockIInv, LockTypeOK, Locked
<1>4. OneHolder' /\ MadeOnce'
  BY <1>3, FewerLocked DEF Truncate, LockIInv, MadeOnce
<1>5. Own(p)'
  BY DEF Truncate, Moves, LockIInv, LockTypeOK, Own, Acquiring, Holds, Wanted
<1>6. ASSUME NEW q \in Producers, q # p PROVE Own(q)'
  BY <1>6, OthersOwn DEF Truncate, Moves, LockIInv, LockTypeOK
<1> QED BY <1>1, <1>2, <1>4, <1>5, <1>6 DEF LockIInv

LEMMA WritePIDStep ==
  ASSUME LockIInv, NEW p \in Producers, WritePID(p)
  PROVE  LockIInv'
<1>1. content' \in [Files -> Hosts \cup {"none"}] /\ PIDOfAHolder'
  BY ContentStep DEF WritePID
<1>2. attempt[p] \in Files /\ attempt[p] # NoFile
  BY NotNoFile DEF WritePID, LockIInv, Own, Acquiring
<1>3. LockTypeOK'
  BY <1>1, <1>2 DEF WritePID, Moves, LockIInv, LockTypeOK, Acquiring
<1>4. \A q \in Producers : Locked(q)' \subseteq Locked(q)
  BY DEF WritePID, Moves, LockIInv, LockTypeOK, Locked
<1>5. OneHolder' /\ MadeOnce'
  BY <1>4, FewerLocked DEF WritePID, LockIInv, MadeOnce
<1>6. Own(p)'
  BY <1>2 DEF WritePID, Moves, LockIInv, LockTypeOK, Own, Acquiring, Holds, Wanted
<1>7. ASSUME NEW q \in Producers, q # p PROVE Own(q)'
  BY <1>7, OthersOwn DEF WritePID, Moves, LockIInv, LockTypeOK
<1> QED BY <1>1, <1>3, <1>5, <1>6, <1>7 DEF LockIInv

LEMMA WriteFailsStep ==
  ASSUME LockIInv, NEW p \in Producers, WriteFails(p)
  PROVE  LockIInv'
<1>1. content' \in [Files -> Hosts \cup {"none"}] /\ PIDOfAHolder'
  BY ContentStep DEF WriteFails
<1> QED BY <1>1, RefusedStep DEF WriteFails, Acquiring

LEMMA SwapStep ==
  ASSUME LockIInv, NEW p \in Producers, Swap(p)
  PROVE  LockIInv'
<1>1. attempt[p] \in Files /\ attempt[p] # NoFile
  BY NotNoFile DEF Swap, LockIInv, Own
<1>2. LockTypeOK'
  BY <1>1 DEF Swap, FilesAfterRelease, Moves, LockIInv, LockTypeOK
<1>3. \A q \in Producers : Locked(q)' \subseteq Locked(q)
  BY DEF Swap, Moves, LockIInv, LockTypeOK, Locked
<1>4. OneHolder' /\ MadeOnce' /\ PIDOfAHolder'
  BY <1>3, FewerLocked DEF Swap, FilesAfterRelease, LockIInv, MadeOnce, PIDOfAHolder
<1>5. Own(p)'
  BY <1>1 DEF Swap, Moves, LockIInv, LockTypeOK, Own, Acquiring, Holds, Wanted
<1>6. ASSUME NEW q \in Producers, q # p PROVE Own(q)'
  BY <1>6, OthersOwn DEF Swap, Moves, LockIInv, LockTypeOK
<1> QED BY <1>2, <1>4, <1>5, <1>6 DEF LockIInv

LEMMA EndStep ==
  ASSUME LockIInv, NEW p \in Producers, End(p)
  PROVE  LockIInv'
<1>1. LockTypeOK'
  BY DEF End, FilesAfterRelease, Moves, LockIInv, LockTypeOK
<1>2. \A q \in Producers : Locked(q)' \subseteq Locked(q)
  BY DEF End, Moves, LockIInv, LockTypeOK, Locked
<1>3. OneHolder' /\ MadeOnce' /\ PIDOfAHolder'
  BY <1>2, FewerLocked DEF End, FilesAfterRelease, LockIInv, MadeOnce, PIDOfAHolder
<1>4. Own(p)'
  BY DEF End, Moves, LockIInv, LockTypeOK, Own, Acquiring, Holds
<1>5. ASSUME NEW q \in Producers, q # p PROVE Own(q)'
  BY <1>5, OthersOwn DEF End, Moves, LockIInv, LockTypeOK
<1> QED BY <1>1, <1>3, <1>4, <1>5 DEF LockIInv

LEMMA CrashStep ==
  ASSUME LockIInv, NEW h \in Hosts, Crash(h)
  PROVE  LockIInv'
<1>1. LockTypeOK'
  BY DEF Crash, fileVars, LockIInv, LockTypeOK
<1>2. \A q \in Producers : Locked(q)' \subseteq Locked(q)
  BY DEF Crash, Locked
<1>3. OneHolder' /\ MadeOnce' /\ PIDOfAHolder'
  BY <1>2, FewerLocked DEF Crash, fileVars, LockIInv, MadeOnce, PIDOfAHolder
<1>4. ASSUME NEW q \in Producers, HostOf[q] = h PROVE Own(q)'
  BY <1>4 DEF Crash, LockIInv, Own, Acquiring, Holds
<1>5. ASSUME NEW q \in Producers, HostOf[q] # h PROVE Own(q)'
  BY <1>5, OthersOwn DEF Crash, fileVars, LockIInv
<1> QED BY <1>1, <1>3, <1>4, <1>5 DEF LockIInv

LEMMA LockStep == LockIInv /\ [LockNext]_lvars => LockIInv'
<1> SUFFICES ASSUME LockIInv, [LockNext]_lvars PROVE LockIInv'
  OBVIOUS
<1>1. CASE UNCHANGED lvars
  <2>1. LockTypeOK' /\ OneHolder' /\ PIDOfAHolder' /\ MadeOnce'
    <3>1. LockTypeOK'
      BY <1>1 DEF lvars, fileVars, LockIInv, LockTypeOK
    <3>2. \A q \in Producers : Locked(q)' = Locked(q)
      BY <1>1 DEF lvars, fileVars, Locked
    <3>3. OneHolder' /\ PIDOfAHolder'
      BY <1>1, <3>2 DEF lvars, fileVars, LockIInv, OneHolder, PIDOfAHolder
    <3>4. MadeOnce'
      BY <1>1 DEF lvars, fileVars, LockIInv, MadeOnce
    <3> QED BY <3>1, <3>3, <3>4
  <2>2. \A p \in Producers : Own(p)'
    BY <1>1, OthersOwn DEF lvars, fileVars, LockIInv
  <2> QED BY <2>1, <2>2 DEF LockIInv
<1>2. ASSUME NEW p \in Producers, Begin(p) \/ (\E s \in SIDs : Bind(p, s)) PROVE LockIInv'
  BY <1>2, OpensStep
<1>3. ASSUME NEW p \in Producers, Acquire(p) PROVE LockIInv'
  BY <1>3, CheckStep, FlockStep, BusyStep, TruncateStep, WritePIDStep, WriteFailsStep, SwapStep
     DEF Acquire
<1>4. ASSUME NEW p \in Producers, End(p) PROVE LockIInv'
  BY <1>4, EndStep
<1>5. ASSUME NEW h \in Hosts, Crash(h) PROVE LockIInv'
  BY <1>5, CrashStep
<1> QED BY <1>1, <1>2, <1>3, <1>4, <1>5 DEF LockNext

(* Two turns never hold one path, a turn that has its lock is never without one,
   and a pid that a refused turn reads is of a process that held the file; for
   any number of turns, processes and sessions, crashes included
   (acquirePlatformForeignLock, bindSID). *)
THEOREM WhoHoldsWhat == LockSpec => []LockInv
<1>1. LockIInv => LockInv
  BY DEF LockIInv, LockInv, AlwaysLocked, Own
<1> QED BY <1>1, LockInitially, LockStep, PTL DEF LockSpec
=============================================================================

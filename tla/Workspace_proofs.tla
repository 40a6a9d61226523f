--------------------------- MODULE Workspace_proofs ---------------------------
(***************************************************************************)
(* Proofs of what Workspace.tla states, for any number of stage processes  *)
(* and of reclaiming helpers, any inode numbers, used again or not, and    *)
(* any process killed at any step.                                         *)
(*                                                                         *)
(* WorkspaceInv says what a process holds at each of its steps, and what   *)
(* the directory, the owner and the child rule out elsewhere.  The heart   *)
(* of it is WhileHere: a lease inode goes only after its directory, so as  *)
(* long as the directory is there one inode carries all the locks.         *)
(***************************************************************************)
EXTENDS Workspace, TLAPS

\* The owner's steps while its session lives, and a reclaimer's steps that
\* retire the metadata of a workspace that is gone.
Live     == {"serving", "spawning", "ending"}
Retiring == {"closure", "metadata", "retire closure", "retire lease"}

\* The steps with the lease file open, with an exclusive and with a shared lock.
Opened    == {"wait", "remove", "closure", "metadata", "opened", "shared", "open", "extracting"}
Excluding == {"remove", "closure", "metadata"}
Sharing   == {"shared", "open", "extracting"}

\* The steps that each kind of process may be at.
StepsOf(p) ==
  IF p = Owner THEN Allocating \cup Live \cup Removing \cup {"done", "failed", "exited"}
  ELSE IF p \in Reclaimers
  THEN {"idle", "locking", "marker", "retire closure", "retire lease", "done", "failed"}
         \cup Removing
  ELSE {"idle", "spooled", "opened", "shared", "open", "extracting"}

Steps == Allocating \cup Live \cup Removing \cup Retiring \cup Opened \cup
  {"idle", "locking", "marker", "spooled", "done", "failed", "exited"}

Typed ==
  /\ WorkspaceTypeOK
  /\ at \in [Processes -> Steps] /\ \A p \in Processes : at[p] \in StepsOf(p)

\* What a process has open and locked follows from its step.
Shaped == \A p \in Processes :
  /\ open[p] # NoInode <=> at[p] \in Opened
  /\ hold[p] = "exclusive" <=> at[p] \in Excluding
  /\ hold[p] = "shared" <=> at[p] \in Sharing

\* flock on one inode.
Exclusive == \A p, q \in Processes :
  p # q /\ open[p] = open[q] /\ hold[p] = "exclusive" => hold[q] = "none"

\* While the directory is there nobody retires metadata, the lease file is the
\* one that everybody has open, and who removes has closed admission.
WhileHere == dir.here => \A p \in Processes :
  /\ open[p] \in {NoInode, lease} /\ at[p] \notin Retiring
  /\ at[p] \in {"lease", "wait", "remove"} => closed

\* Nobody else knows of the directory, or may lock it, before the owner does.
WhileAllocating == at[Owner] \in Allocating =>
  /\ ~aged /\ ~closed /\ lease = NoInode /\ child = "none" /\ ~dir.marker
  /\ \A r \in Reclaimers : at[r] = "idle"
  /\ \A s \in Stagers : at[s] \in {"idle", "spooled"}
  /\ IF at[Owner] = "start"
     THEN ~dir.here /\ \A s \in Stagers : at[s] = "idle"
     ELSE dir.here
  /\ at[Owner] \in {"lock file", "contents"} => dir.lock
  /\ at[Owner] = "contents" => session = Owner

\* A reclaimer gets no further than the lock that the owner holds.
WhileLive == at[Owner] \in Live =>
  /\ dir.here /\ dir.lock /\ session = Owner
  /\ at[Owner] = "spawning" => dir.marker
  /\ \A r \in Reclaimers : at[r] \in {"idle", "locking"}

\* A child's marker stops a reclaimer also when no helper holds the lock.
WhileRunning == child = "running" =>
  dir.here /\ dir.marker /\ \A p \in Removers : at[p] \notin Removing

\* An admitted upload holds the lease, and so its directory.
Admitted == \A s \in Stagers : at[s] = "extracting" => dir.here

WorkspaceInv ==
  /\ Typed /\ Shaped /\ Exclusive /\ WhileHere
  /\ WhileAllocating /\ WhileLive /\ WhileRunning /\ Admitted

LEMMA InitWorkspace == Init => WorkspaceInv
<1> SUFFICES ASSUME Init PROVE WorkspaceInv
  OBVIOUS
<1>1. Typed
  BY WorkspaceConstants DEF Init, Typed, WorkspaceTypeOK, StepsOf, Steps, Removers,
     Processes, Allocating
<1>2. Shaped /\ Exclusive
  BY WorkspaceConstants DEF Init, Shaped, Exclusive, Opened, Excluding, Sharing
<1>3. WhileHere /\ WhileRunning
  BY DEF Init, WhileHere, WhileRunning
<1>4. WhileAllocating /\ WhileLive /\ Admitted
  BY WorkspaceConstants DEF Init, WhileAllocating, WhileLive, Admitted, Removers, Processes,
     Live, Allocating
<1>5. QED  BY <1>1, <1>2, <1>3, <1>4 DEF WorkspaceInv

\* A process that moves to a step of its kind.
LEMMA Moves ==
  ASSUME Typed, WorkspaceTypeOK', NEW p \in Processes, NEW n \in Steps, n \in StepsOf(p),
         at' = [at EXCEPT ![p] = n]
  PROVE  Typed'
BY DEF Typed

LEMMA MakeDirectoryKeeps == ASSUME WorkspaceInv, MakeDirectory PROVE WorkspaceInv'
<1> USE WorkspaceConstants DEF WorkspaceInv, MakeDirectory, Goto, Removers, Processes
<1>1. Typed'
  BY DEF Typed, WorkspaceTypeOK, StepsOf, Steps, Allocating
<1>2. Shaped'
  BY DEF Shaped, Opened, Excluding, Sharing
<1>3. Exclusive'
  BY DEF Exclusive
<1>4. WhileHere'
  <2>1. \A p \in Processes : at[p] \in {"start", "idle", "spooled"}
    BY DEF WhileAllocating, Allocating
  <2>2. \A p \in Processes : open[p] = NoInode
    BY <2>1 DEF Shaped, Opened
  <2>3. \A p \in Processes : at'[p] \notin (Retiring \cup {"lease", "wait", "remove"})
    BY <2>1 DEF Typed, Retiring
  <2>4. QED  BY <2>2, <2>3 DEF WhileHere
<1>5. WhileAllocating'
  BY DEF Typed, WhileAllocating, Allocating
<1>6. WhileLive'
  BY DEF WhileLive, Live
<1>7. WhileRunning'
  BY DEF WhileAllocating, WhileRunning, Allocating
<1>8. Admitted'
  BY DEF Admitted
<1>9. QED  BY <1>1, <1>2, <1>3, <1>4, <1>5, <1>6, <1>7, <1>8

LEMMA CreateLockKeeps == ASSUME WorkspaceInv, CreateLock PROVE WorkspaceInv'
<1> USE WorkspaceConstants DEF WorkspaceInv, CreateLock, Goto, Removers, Processes
<1>1. Typed'
  BY DEF Typed, WorkspaceTypeOK, StepsOf, Steps, Allocating
<1>2. Shaped'
  BY DEF Typed, Shaped, Opened, Excluding, Sharing
<1>3. Exclusive'
  BY DEF Exclusive
<1>4. WhileHere'
  BY DEF Typed, WorkspaceTypeOK, WhileHere, Retiring
<1>5. WhileAllocating'
  BY DEF Typed, WorkspaceTypeOK, WhileAllocating, Allocating
<1>6. WhileLive'
  BY DEF Typed, WhileLive, Live
<1>7. WhileRunning'
  BY DEF WhileAllocating, WhileRunning, Allocating
<1>8. Admitted'
  BY DEF Typed, WorkspaceTypeOK, Admitted
<1>9. QED  BY <1>1, <1>2, <1>3, <1>4, <1>5, <1>6, <1>7, <1>8

LEMMA TakeLockKeeps == ASSUME WorkspaceInv, TakeLock PROVE WorkspaceInv'
<1> USE WorkspaceConstants DEF WorkspaceInv, TakeLock, Goto, Removers, Processes
<1>1. Typed'
  BY DEF Typed, WorkspaceTypeOK, StepsOf, Steps, Allocating
<1>2. Shaped'
  BY DEF Typed, Shaped, Opened, Excluding, Sharing
<1>3. Exclusive'
  BY DEF Exclusive
<1>4. WhileHere'
  BY DEF Typed, WhileHere, Retiring
<1>5. WhileAllocating'
  BY DEF Typed, WhileAllocating, Allocating
<1>6. WhileLive'
  BY DEF Typed, WhileAllocating, WhileLive, Allocating
<1>7. WhileRunning'
  BY DEF Typed, StepsOf, WhileAllocating, WhileLive, WhileRunning
<1>8. Admitted'
  BY DEF Typed, Admitted
<1>9. QED  BY <1>1, <1>2, <1>3, <1>4, <1>5, <1>6, <1>7, <1>8

LEMMA CreateLeaseKeeps == ASSUME WorkspaceInv, CreateLease PROVE WorkspaceInv'
<1> USE WorkspaceConstants DEF WorkspaceInv, CreateLease, Goto, Removers, Processes
<1>1. Typed'
  BY DEF Typed, WorkspaceTypeOK, StepsOf, Steps, Live
<1>2. Shaped'
  BY DEF Shaped, Opened, Excluding, Sharing
<1>3. Exclusive'
  BY DEF Exclusive
<1>4. WhileHere'
  BY DEF Typed, WhileHere, WhileAllocating, Allocating, Retiring
<1>5. WhileAllocating'
  BY DEF Typed, WhileAllocating, Allocating
<1>6. WhileLive'
  BY DEF WhileAllocating, WhileLive, Allocating
<1>7. WhileRunning'
  BY DEF WhileAllocating, WhileRunning, Allocating
<1>8. Admitted'
  BY DEF Admitted
<1>9. QED  BY <1>1, <1>2, <1>3, <1>4, <1>5, <1>6, <1>7, <1>8

LEMMA AllocationFailsKeeps == ASSUME WorkspaceInv, AllocationFails PROVE WorkspaceInv'
<1> USE WorkspaceConstants DEF WorkspaceInv, AllocationFails, Goto, Removers, Processes
<1>1. Typed'
  BY DEF Typed, WorkspaceTypeOK, StepsOf, Steps, Removing
<1>2. Shaped'
  BY DEF Typed, Shaped, Opened, Excluding, Sharing
<1>3. Exclusive'
  BY DEF Exclusive
<1>4. WhileHere'
  BY DEF Typed, WhileHere, Retiring
<1>5. WhileAllocating'
  BY DEF Typed, WhileAllocating, Allocating
<1>6. WhileLive'
  BY DEF Typed, WhileLive, Live
<1>7. WhileRunning'
  BY DEF WhileAllocating, WhileRunning, Allocating
<1>8. Admitted'
  BY DEF Typed, Admitted
<1>9. QED  BY <1>1, <1>2, <1>3, <1>4, <1>5, <1>6, <1>7, <1>8

LEMMA MarkChildKeeps == ASSUME WorkspaceInv, MarkChild PROVE WorkspaceInv'
<1> USE WorkspaceConstants DEF WorkspaceInv, MarkChild, Goto, Removers, Processes
<1>1. Typed'
  BY DEF Typed, WorkspaceTypeOK, StepsOf, Steps, Live
<1>2. Shaped'
  BY DEF Shaped, Opened, Excluding, Sharing
<1>3. Exclusive'
  BY DEF Exclusive
<1>4. WhileHere'
  BY DEF Typed, WorkspaceTypeOK, WhileHere, Retiring
<1>5. WhileAllocating'
  BY DEF Typed, WhileAllocating, Allocating
<1>6. WhileLive'
  BY DEF WhileLive, Live
<1>7. WhileRunning'
  BY DEF WhileRunning
<1>8. Admitted'
  BY DEF Admitted
<1>9. QED  BY <1>1, <1>2, <1>3, <1>4, <1>5, <1>6, <1>7, <1>8

LEMMA SpawnChildKeeps == ASSUME WorkspaceInv, SpawnChild PROVE WorkspaceInv'
<1> USE WorkspaceConstants DEF WorkspaceInv, SpawnChild, Goto, Removers, Processes
<1>1. Typed'
  BY DEF Typed, WorkspaceTypeOK, StepsOf, Steps, Live
<1>2. Shaped'
  BY DEF Shaped, Opened, Excluding, Sharing
<1>3. Exclusive'
  BY DEF Exclusive
<1>4. WhileHere'
  BY DEF Typed, WhileHere, Retiring
<1>5. WhileAllocating'
  BY DEF Typed, WhileAllocating, Allocating
<1>6. WhileLive'
  BY DEF WhileLive, Live
<1>7. WhileRunning'
  BY DEF Typed, StepsOf, WhileLive, WhileRunning, Allocating, Removing
<1>8. Admitted'
  BY DEF Admitted
<1>9. QED  BY <1>1, <1>2, <1>3, <1>4, <1>5, <1>6, <1>7, <1>8

LEMMA EndSessionKeeps == ASSUME WorkspaceInv, EndSession PROVE WorkspaceInv'
<1> USE WorkspaceConstants DEF WorkspaceInv, EndSession, Goto, Removers, Processes
<1>1. Typed'
  BY DEF Typed, WorkspaceTypeOK, StepsOf, Steps, Live
<1>2. Shaped'
  BY DEF Shaped, Opened, Excluding, Sharing
<1>3. Exclusive'
  BY DEF Exclusive
<1>4. WhileHere'
  BY DEF Typed, WhileHere, Retiring
<1>5. WhileAllocating'
  BY DEF Typed, WhileAllocating, Allocating
<1>6. WhileLive'
  BY DEF WhileLive, Live
<1>7. WhileRunning'
  BY DEF WhileRunning, Removing
<1>8. Admitted'
  BY DEF Admitted
<1>9. QED  BY <1>1, <1>2, <1>3, <1>4, <1>5, <1>6, <1>7, <1>8

LEMMA DisposeChildKeeps == ASSUME WorkspaceInv, DisposeChild PROVE WorkspaceInv'
<1> USE WorkspaceConstants DEF WorkspaceInv, DisposeChild, Removers, Processes
<1>1. Typed'
  BY DEF Typed, WorkspaceTypeOK
<1>2. Shaped'
  BY DEF Shaped
<1>3. Exclusive'
  BY DEF Exclusive
<1>4. WhileHere'
  BY DEF WhileHere
<1>5. WhileAllocating'
  BY DEF WhileAllocating
<1>6. WhileLive'
  BY DEF WhileLive
<1>7. WhileRunning'
  BY DEF WhileRunning
<1>8. Admitted'
  BY DEF Admitted
<1>9. QED  BY <1>1, <1>2, <1>3, <1>4, <1>5, <1>6, <1>7, <1>8

\* What ReleaseWorkspace comes to, on each of its ways.
LEMMA OwnerCloses ==
  ASSUME WorkspaceInv, at[Owner] = "ending", NEW n \in {"close", "failed"}, Goto(Owner, n),
         NEW m \in BOOLEAN, dir' = [dir EXCEPT !.marker = m],
         n = "close" => child # "running", n = "failed" => m = dir.marker,
         UNCHANGED <<closed, lease, session, open, hold, child, aged>>
  PROVE  WorkspaceInv'
<1> USE WorkspaceConstants DEF WorkspaceInv, Goto, Removers, Processes
<1>1. Typed'
  BY DEF Typed, WorkspaceTypeOK, StepsOf, Steps, Removing
<1>2. Shaped'
  BY DEF Shaped, Opened, Excluding, Sharing
<1>3. Exclusive'
  BY DEF Exclusive
<1>4. WhileHere'
  BY DEF Typed, WorkspaceTypeOK, WhileHere, Retiring
<1>5. WhileAllocating'
  BY DEF Typed, WhileAllocating, Allocating
<1>6. WhileLive'
  BY DEF WhileLive, Live
<1>7. WhileRunning'
  BY DEF WhileRunning, Removing
<1>8. Admitted'
  BY DEF Admitted
<1>9. QED  BY <1>1, <1>2, <1>3, <1>4, <1>5, <1>6, <1>7, <1>8

LEMMA ReleaseWorkspaceKeeps == ASSUME WorkspaceInv, ReleaseWorkspace PROVE WorkspaceInv'
<1>1. dir \in [here : BOOLEAN, lock : BOOLEAN, marker : BOOLEAN, staged : BOOLEAN]
  BY DEF WorkspaceInv, Typed, WorkspaceTypeOK
<1>2. dir = [dir EXCEPT !.marker = dir.marker] /\ dir.marker \in BOOLEAN
  BY <1>1
<1>3. QED  BY <1>2, OwnerCloses DEF ReleaseWorkspace

LEMMA CloseAdmissionKeeps ==
  ASSUME WorkspaceInv, NEW p \in Removers, CloseAdmission(p)
  PROVE  WorkspaceInv'
<1> USE WorkspaceConstants DEF WorkspaceInv, CloseAdmission, Goto, Removers, Processes
<1>1. Typed'
  BY DEF Typed, WorkspaceTypeOK, StepsOf, Steps, Removing
<1>2. Shaped'
  BY DEF Shaped, Opened, Excluding, Sharing
<1>3. Exclusive'
  BY DEF Exclusive
<1>4. WhileHere'
  BY DEF Typed, WhileHere, Retiring
<1>5. WhileAllocating'
  BY DEF Typed, WhileAllocating, Allocating
<1>6. WhileLive'
  BY DEF WhileLive, Live
<1>7. WhileRunning'
  BY DEF Typed, StepsOf, WhileAllocating, WhileRunning, Live
<1>8. Admitted'
  BY DEF Admitted
<1>9. QED  BY <1>1, <1>2, <1>3, <1>4, <1>5, <1>6, <1>7, <1>8

\* What OpenLease comes to, with the inode that was there or a new one.
LEMMA LeaseOpens ==
  ASSUME WorkspaceInv, NEW p \in Removers, NEW i \in Inodes, at[p] = "lease",
         lease = i \/ (lease = NoInode /\ Unused(i)), lease' = i,
         open' = [open EXCEPT ![p] = i], Goto(p, "wait"),
         UNCHANGED <<dir, closed, session, hold, child, aged>>
  PROVE  WorkspaceInv'
<1> USE WorkspaceConstants DEF WorkspaceInv, Goto, Removers, Processes
<1>1. Typed'
  BY DEF Typed, WorkspaceTypeOK, StepsOf, Steps, Removing
<1>2. Shaped'
  BY DEF Typed, WorkspaceTypeOK, Shaped, Opened, Excluding, Sharing
<1>3. Exclusive'
  BY DEF Typed, WorkspaceTypeOK, Shaped, Exclusive, Opened
<1>4. WhileHere'
  BY DEF Typed, WorkspaceTypeOK, WhileHere, Retiring
<1>5. WhileAllocating'
  BY DEF Typed, WhileAllocating, Allocating
<1>6. WhileLive'
  BY DEF WhileLive, Live
<1>7. WhileRunning'
  BY DEF Typed, StepsOf, WhileAllocating, WhileRunning, Live
<1>8. Admitted'
  BY DEF Admitted
<1>9. QED  BY <1>1, <1>2, <1>3, <1>4, <1>5, <1>6, <1>7, <1>8

LEMMA OpenLeaseKeeps ==
  ASSUME WorkspaceInv, NEW p \in Removers, OpenLease(p)
  PROVE  WorkspaceInv'
<1>1. lease \in Inodes \cup {NoInode}  BY DEF WorkspaceInv, Typed, WorkspaceTypeOK
<1>2. PICK i \in Inodes : lease' = i /\ (lease = i \/ (lease = NoInode /\ Unused(i)))
  BY <1>1 DEF OpenLease
<1>3. QED  BY <1>2, LeaseOpens DEF OpenLease

LEMMA LockLeaseKeeps ==
  ASSUME WorkspaceInv, NEW p \in Removers, LockLease(p)
  PROVE  WorkspaceInv'
<1> USE WorkspaceConstants DEF WorkspaceInv, LockLease, Goto, Removers, Processes
<1>1. Typed'
  <2>1. "remove" \in Steps /\ "remove" \in StepsOf(p)
    BY DEF Steps, StepsOf, Allocating, Live, Removing, Retiring, Opened
  <2>2. WorkspaceTypeOK'
    BY DEF Typed, WorkspaceTypeOK, Opened, Shaped
  <2>3. QED  BY <2>1, <2>2, Moves
<1>2. Shaped'
  BY DEF Typed, WorkspaceTypeOK, Shaped, Opened, Excluding, Sharing
<1>3. Exclusive'
  BY DEF Typed, WorkspaceTypeOK, Exclusive, LockedOut
<1>4. WhileHere'
  BY DEF Typed, WhileHere, Retiring
<1>5. WhileAllocating'
  BY DEF Typed, WhileAllocating, Allocating
<1>6. WhileLive'
  BY DEF WhileLive, Live
<1>7. WhileRunning'
  BY DEF Typed, StepsOf, WhileAllocating, WhileRunning, Live
<1>8. Admitted'
  BY DEF Admitted
<1>9. QED  BY <1>1, <1>2, <1>3, <1>4, <1>5, <1>6, <1>7, <1>8

LEMMA GiveUpKeeps ==
  ASSUME WorkspaceInv, NEW p \in Removers, GiveUp(p)
  PROVE  WorkspaceInv'
<1> USE WorkspaceConstants DEF WorkspaceInv, GiveUp, Goto, Leave, Removers, Processes
<1>1. Typed'
  BY DEF Typed, WorkspaceTypeOK, StepsOf, Steps
<1>2. Shaped'
  BY DEF Typed, WorkspaceTypeOK, Shaped, Opened, Excluding, Sharing
<1>3. Exclusive'
  BY DEF Typed, WorkspaceTypeOK, Exclusive
<1>4. WhileHere'
  BY DEF Typed, WorkspaceTypeOK, WhileHere, Retiring
<1>5. WhileAllocating'
  BY DEF Typed, WhileAllocating, Allocating
<1>6. WhileLive'
  BY DEF WhileLive, Live
<1>7. WhileRunning'
  BY DEF Typed, StepsOf, WhileAllocating, WhileRunning, Live
<1>8. Admitted'
  BY DEF Admitted
<1>9. QED  BY <1>1, <1>2, <1>3, <1>4, <1>5, <1>6, <1>7, <1>8

LEMMA RemoveContentKeeps ==
  ASSUME WorkspaceInv, NEW p \in Removers, RemoveContent(p)
  PROVE  WorkspaceInv'
<1> USE WorkspaceConstants DEF WorkspaceInv, RemoveContent, Removers, Processes
<1>1. Typed'
  <2>1. WorkspaceTypeOK'
    BY DEF Typed, WorkspaceTypeOK
  <2>2. QED  BY <2>1 DEF Typed
<1>2. Shaped'
  BY DEF Shaped
<1>3. Exclusive'
  BY DEF Exclusive
<1>4. WhileHere'
  BY DEF WhileHere
<1>5. WhileAllocating'
  BY DEF Typed, WorkspaceTypeOK, WhileAllocating
<1>6. WhileLive'
  BY DEF WhileLive, Live
<1>7. WhileRunning'
  BY DEF Typed, StepsOf, WhileAllocating, WhileRunning, Live
<1>8. Admitted'
  BY DEF Admitted
<1>9. QED  BY <1>1, <1>2, <1>3, <1>4, <1>5, <1>6, <1>7, <1>8

LEMMA RemoveDirectoryKeeps ==
  ASSUME WorkspaceInv, NEW p \in Removers, RemoveDirectory(p)
  PROVE  WorkspaceInv'
<1> USE WorkspaceConstants DEF WorkspaceInv, RemoveDirectory, Goto, Removers, Processes
<1>1. Typed'
  BY DEF Typed, WorkspaceTypeOK, StepsOf, Steps, Removing
<1>2. Shaped'
  BY DEF Shaped, Opened, Excluding, Sharing
<1>3. Exclusive'
  BY DEF Exclusive
<1>4. WhileHere'
  BY DEF WhileHere
<1>5. WhileAllocating'
  BY DEF Typed, WhileAllocating, Allocating
<1>6. WhileLive'
  BY DEF WhileLive, Live
<1>7. WhileRunning'
  BY DEF WhileRunning
<1>8. Admitted'
  <2>1. at[p] = "remove" /\ \A s \in Stagers : s # p /\ at'[s] = at[s]
    BY DEF Typed
  <2>2. ASSUME NEW s \in Stagers, at[s] = "extracting" PROVE FALSE
    <3>1. open[p] = lease /\ open[s] = lease
      BY <2>1, <2>2 DEF Shaped, Admitted, WhileHere, Opened
    <3>2. hold[p] = "exclusive" /\ hold[s] = "shared"
      BY <2>1, <2>2 DEF Shaped, Excluding, Sharing
    <3>3. QED  BY <2>1, <3>1, <3>2 DEF Exclusive
  <2>3. QED  BY <2>1, <2>2 DEF Admitted
<1>9. QED  BY <1>1, <1>2, <1>3, <1>4, <1>5, <1>6, <1>7, <1>8

LEMMA RemovalFailsKeeps ==
  ASSUME WorkspaceInv, NEW p \in Removers, RemovalFails(p)
  PROVE  WorkspaceInv'
<1> USE WorkspaceConstants DEF WorkspaceInv, RemovalFails, Goto, Leave, Removers, Processes
<1>1. Typed'
  BY DEF Typed, WorkspaceTypeOK, StepsOf, Steps
<1>2. Shaped'
  BY DEF Typed, WorkspaceTypeOK, Shaped, Opened, Excluding, Sharing
<1>3. Exclusive'
  BY DEF Typed, WorkspaceTypeOK, Exclusive
<1>4. WhileHere'
  BY DEF Typed, WorkspaceTypeOK, WhileHere, Retiring
<1>5. WhileAllocating'
  BY DEF Typed, WhileAllocating, Allocating
<1>6. WhileLive'
  BY DEF WhileLive, Live
<1>7. WhileRunning'
  BY DEF Typed, StepsOf, WhileAllocating, WhileRunning, Live
<1>8. Admitted'
  BY DEF Admitted
<1>9. QED  BY <1>1, <1>2, <1>3, <1>4, <1>5, <1>6, <1>7, <1>8

LEMMA UnlinkClosureKeeps ==
  ASSUME WorkspaceInv, NEW p \in Removers, UnlinkClosure(p)
  PROVE  WorkspaceInv'
<1> USE WorkspaceConstants DEF WorkspaceInv, UnlinkClosure, Goto, Removers, Processes
<1>1. Typed'
  BY DEF Typed, WorkspaceTypeOK, StepsOf, Steps, Removing
<1>2. Shaped'
  BY DEF Shaped, Opened, Excluding, Sharing
<1>3. Exclusive'
  BY DEF Exclusive
<1>4. WhileHere'
  BY DEF WhileHere, Retiring
<1>5. WhileAllocating'
  BY DEF Typed, WhileAllocating, Allocating
<1>6. WhileLive'
  BY DEF WhileLive, Live
<1>7. WhileRunning'
  BY DEF Typed, StepsOf, WhileAllocating, WhileRunning, Live
<1>8. Admitted'
  BY DEF Admitted
<1>9. QED  BY <1>1, <1>2, <1>3, <1>4, <1>5, <1>6, <1>7, <1>8

LEMMA UnlinkLeaseKeeps ==
  ASSUME WorkspaceInv, NEW p \in Removers, UnlinkLease(p)
  PROVE  WorkspaceInv'
<1> USE WorkspaceConstants DEF WorkspaceInv, UnlinkLease, Goto, Leave, Removers, Processes
<1>1. Typed'
  BY DEF Typed, WorkspaceTypeOK, StepsOf, Steps
<1>2. Shaped'
  BY DEF Typed, WorkspaceTypeOK, Shaped, Opened, Excluding, Sharing
<1>3. Exclusive'
  BY DEF Typed, WorkspaceTypeOK, Exclusive
<1>4. WhileHere'
  BY DEF WhileHere, Retiring
<1>5. WhileAllocating'
  BY DEF Typed, WhileAllocating, Allocating
<1>6. WhileLive'
  BY DEF WhileLive, Live
<1>7. WhileRunning'
  BY DEF Typed, StepsOf, WhileAllocating, WhileRunning, Live
<1>8. Admitted'
  BY DEF Admitted
<1>9. QED  BY <1>1, <1>2, <1>3, <1>4, <1>5, <1>6, <1>7, <1>8

LEMMA CloseLockKeeps ==
  ASSUME WorkspaceInv, NEW p \in Removers, CloseLock(p)
  PROVE  WorkspaceInv'
<1> USE WorkspaceConstants DEF WorkspaceInv, CloseLock, Goto, Removers, Processes
<1>1. Typed'
  BY DEF Typed, WorkspaceTypeOK, StepsOf, Steps
<1>2. Shaped'
  BY DEF Shaped, Opened, Excluding, Sharing
<1>3. Exclusive'
  BY DEF Exclusive
<1>4. WhileHere'
  BY DEF Typed, WhileHere, Retiring
<1>5. WhileAllocating'
  BY DEF Typed, WhileAllocating, Allocating
<1>6. WhileLive'
  BY DEF WhileLive, Live
<1>7. WhileRunning'
  BY DEF WhileRunning, Removing
<1>8. Admitted'
  BY DEF Admitted
<1>9. QED  BY <1>1, <1>2, <1>3, <1>4, <1>5, <1>6, <1>7, <1>8

LEMMA InspectKeeps ==
  ASSUME WorkspaceInv, NEW r \in Reclaimers, Inspect(r)
  PROVE  WorkspaceInv'
<1> USE WorkspaceConstants DEF WorkspaceInv, Inspect, Goto, Removers, Processes
<1>1. Typed'
  <2>1. \A n \in {"locking", "marker"} : n \in Steps /\ n \in StepsOf(r)
    BY DEF Steps, StepsOf, Allocating, Live, Removing, Retiring, Opened
  <2>2. WorkspaceTypeOK'
    BY DEF Typed, WorkspaceTypeOK
  <2>3. QED  BY <2>1, <2>2, Moves
<1>2. Shaped'
  BY DEF Shaped, Opened, Excluding, Sharing
<1>3. Exclusive'
  BY DEF Exclusive
<1>4. WhileHere'
  BY DEF Typed, WhileHere, Retiring
<1>5. WhileAllocating'
  BY DEF WhileAllocating
<1>6. WhileLive'
  BY DEF WhileLive
<1>7. WhileRunning'
  BY DEF WhileRunning, Removing
<1>8. Admitted'
  BY DEF Admitted
<1>9. QED  BY <1>1, <1>2, <1>3, <1>4, <1>5, <1>6, <1>7, <1>8

\* The two ways a reclaimer goes on from its look at the directory.
LEMMA ReclaimerLocks ==
  ASSUME WorkspaceInv, NEW r \in Reclaimers, at[r] = "locking", session = Nobody, session' = r,
         Goto(r, "marker"), UNCHANGED <<dir, closed, lease, open, hold, child, aged>>
  PROVE  WorkspaceInv'
<1> USE WorkspaceConstants DEF WorkspaceInv, Goto, Removers, Processes
<1>1. Typed'
  BY DEF Typed, WorkspaceTypeOK, StepsOf, Steps
<1>2. Shaped'
  BY DEF Shaped, Opened, Excluding, Sharing
<1>3. Exclusive'
  BY DEF Exclusive
<1>4. WhileHere'
  BY DEF Typed, WhileHere, Retiring
<1>5. WhileAllocating'
  BY DEF Typed, WhileAllocating
<1>6. WhileLive'
  BY DEF WhileLive
<1>7. WhileRunning'
  BY DEF WhileRunning, Removing
<1>8. Admitted'
  BY DEF Admitted
<1>9. QED  BY <1>1, <1>2, <1>3, <1>4, <1>5, <1>6, <1>7, <1>8

LEMMA ReclaimerGoes ==
  ASSUME WorkspaceInv, NEW r \in Reclaimers,
         NEW n \in {"idle", "retire closure", "retire lease"}, at[r] \in {"idle", "locking"},
         n # "idle" => aged /\ ~dir.here, Goto(r, n),
         UNCHANGED <<dir, closed, lease, session, open, hold, child, aged>>
  PROVE  WorkspaceInv'
<1> USE WorkspaceConstants DEF WorkspaceInv, Goto, Removers, Processes
<1>1. Typed'
  <2>1. n \in Steps /\ n \in StepsOf(r)
    BY DEF Steps, StepsOf, Allocating, Live, Removing, Retiring, Opened
  <2>2. WorkspaceTypeOK'
    BY DEF Typed, WorkspaceTypeOK
  <2>3. QED  BY <2>1, <2>2, Moves
<1>2. Shaped'
  BY DEF Typed, Shaped, Opened, Excluding, Sharing
<1>3. Exclusive'
  BY DEF Exclusive
<1>4. WhileHere'
  BY DEF Typed, WhileHere, Retiring
<1>5. WhileAllocating'
  BY DEF Typed, WhileAllocating
<1>6. WhileLive'
  BY DEF Typed, WhileLive
<1>7. WhileRunning'
  BY DEF Typed, WhileRunning, Removing
<1>8. Admitted'
  BY DEF Typed, Admitted
<1>9. QED  BY <1>1, <1>2, <1>3, <1>4, <1>5, <1>6, <1>7, <1>8

LEMMA TryLockKeeps ==
  ASSUME WorkspaceInv, NEW r \in Reclaimers, TryLock(r)
  PROVE  WorkspaceInv'
BY ReclaimerLocks, ReclaimerGoes DEF TryLock

LEMMA CheckMarkerKeeps ==
  ASSUME WorkspaceInv, NEW r \in Reclaimers, CheckMarker(r)
  PROVE  WorkspaceInv'
<1> USE WorkspaceConstants DEF WorkspaceInv, CheckMarker, Goto, Removers, Processes
<1>1. Typed'
  <2>1. \A n \in {"failed", "close"} : n \in Steps /\ n \in StepsOf(r)
    BY DEF Steps, StepsOf, Allocating, Live, Removing, Retiring, Opened
  <2>2. WorkspaceTypeOK'
    BY DEF Typed, WorkspaceTypeOK
  <2>3. QED  BY <2>1, <2>2, Moves
<1>2. Shaped'
  BY DEF Shaped, Opened, Excluding, Sharing
<1>3. Exclusive'
  BY DEF Exclusive
<1>4. WhileHere'
  BY DEF Typed, WhileHere, Retiring
<1>5. WhileAllocating'
  BY DEF Typed, WhileAllocating
<1>6. WhileLive'
  BY DEF WhileLive
<1>7. WhileRunning'
  BY DEF WhileRunning, Removing
<1>8. Admitted'
  BY DEF Admitted
<1>9. QED  BY <1>1, <1>2, <1>3, <1>4, <1>5, <1>6, <1>7, <1>8

LEMMA FindOrphanKeeps ==
  ASSUME WorkspaceInv, NEW r \in Reclaimers, FindOrphan(r)
  PROVE  WorkspaceInv'
BY ReclaimerGoes DEF FindOrphan

LEMMA RetireOrphanKeeps ==
  ASSUME WorkspaceInv, NEW r \in Reclaimers, RetireOrphan(r)
  PROVE  WorkspaceInv'
<1> USE WorkspaceConstants DEF WorkspaceInv, RetireOrphan, Goto, Removers, Processes
<1>1. Typed'
  <2>1. "idle" \in Steps /\ "idle" \in StepsOf(r)
    BY DEF Steps, StepsOf, Allocating, Live, Removing, Retiring, Opened
  <2>2. WorkspaceTypeOK'
    BY DEF Typed, WorkspaceTypeOK
  <2>3. QED  BY <2>1, <2>2, Moves
<1>2. Shaped'
  BY DEF Typed, Shaped, Opened, Excluding, Sharing
<1>3. Exclusive'
  BY DEF Exclusive
<1>4. WhileHere'
  BY DEF WhileHere, Retiring
<1>5. WhileAllocating'
  BY DEF Typed, WhileAllocating
<1>6. WhileLive'
  BY DEF Typed, WhileLive
<1>7. WhileRunning'
  BY DEF Typed, WhileRunning, Removing
<1>8. Admitted'
  BY DEF Typed, Admitted
<1>9. QED  BY <1>1, <1>2, <1>3, <1>4, <1>5, <1>6, <1>7, <1>8

LEMMA BeginStageKeeps ==
  ASSUME WorkspaceInv, NEW s \in Stagers, BeginStage(s)
  PROVE  WorkspaceInv'
<1> USE WorkspaceConstants DEF WorkspaceInv, BeginStage, Goto, Removers, Processes
<1>1. Typed'
  <2>1. "spooled" \in Steps /\ "spooled" \in StepsOf(s)
    BY DEF Steps, StepsOf, Allocating, Live, Removing, Retiring, Opened
  <2>2. WorkspaceTypeOK'
    BY DEF Typed, WorkspaceTypeOK
  <2>3. QED  BY <2>1, <2>2, Moves
<1>2. Shaped'
  BY DEF Shaped, Opened, Excluding, Sharing
<1>3. Exclusive'
  BY DEF Exclusive
<1>4. WhileHere'
  BY DEF Typed, WhileHere, Retiring
<1>5. WhileAllocating'
  BY DEF Typed, WhileAllocating
<1>6. WhileLive'
  BY DEF WhileLive
<1>7. WhileRunning'
  BY DEF WhileRunning
<1>8. Admitted'
  BY DEF Admitted
<1>9. QED  BY <1>1, <1>2, <1>3, <1>4, <1>5, <1>6, <1>7, <1>8

\* The ways a stage process goes on: with what it has, leaving the lease, with
\* the lease opened, and with the lock on it.
LEMMA StagerGoes ==
  ASSUME WorkspaceInv, NEW s \in Stagers, NEW n \in {"idle", "open", "extracting"}, Goto(s, n),
         CASE n = "idle" -> at[s] = "spooled" [] n = "open" -> at[s] = "shared"
           [] n = "extracting" -> at[s] = "open" /\ dir.here,
         UNCHANGED <<dir, closed, lease, session, open, hold, child, aged>>
  PROVE  WorkspaceInv'
<1> USE WorkspaceConstants DEF WorkspaceInv, Goto, Removers, Processes
<1>1. Typed'
  <2>1. n \in Steps /\ n \in StepsOf(s)
    BY DEF Steps, StepsOf, Allocating, Live, Removing, Retiring, Opened
  <2>2. WorkspaceTypeOK'
    BY DEF Typed, WorkspaceTypeOK
  <2>3. QED  BY <2>1, <2>2, Moves
<1>2. Shaped'
  BY DEF Typed, Shaped, Opened, Excluding, Sharing
<1>3. Exclusive'
  BY DEF Exclusive
<1>4. WhileHere'
  BY DEF Typed, WhileHere, Retiring
<1>5. WhileAllocating'
  BY DEF Typed, WhileAllocating
<1>6. WhileLive'
  BY DEF WhileLive
<1>7. WhileRunning'
  BY DEF WhileRunning
<1>8. Admitted'
  BY DEF Typed, Admitted
<1>9. QED  BY <1>1, <1>2, <1>3, <1>4, <1>5, <1>6, <1>7, <1>8

LEMMA StagerLeaves ==
  ASSUME WorkspaceInv, NEW s \in Stagers, Leave(s, "idle"),
         UNCHANGED <<dir, closed, lease, session, child, aged>>
  PROVE  WorkspaceInv'
<1> USE WorkspaceConstants DEF WorkspaceInv, Goto, Leave, Removers, Processes
<1>1. Typed'
  <2>1. "idle" \in Steps /\ "idle" \in StepsOf(s)
    BY DEF Steps, StepsOf, Allocating, Live, Removing, Retiring, Opened
  <2>2. WorkspaceTypeOK'
    BY DEF Typed, WorkspaceTypeOK
  <2>3. QED  BY <2>1, <2>2, Moves
<1>2. Shaped'
  BY DEF Typed, WorkspaceTypeOK, Shaped, Opened, Excluding, Sharing
<1>3. Exclusive'
  BY DEF Typed, WorkspaceTypeOK, Exclusive
<1>4. WhileHere'
  BY DEF Typed, WorkspaceTypeOK, WhileHere, Retiring
<1>5. WhileAllocating'
  BY DEF Typed, WhileAllocating
<1>6. WhileLive'
  BY DEF WhileLive
<1>7. WhileRunning'
  BY DEF WhileRunning, Live
<1>8. Admitted'
  BY DEF Admitted
<1>9. QED  BY <1>1, <1>2, <1>3, <1>4, <1>5, <1>6, <1>7, <1>8

LEMMA StagerOpens ==
  ASSUME WorkspaceInv, NEW s \in Stagers, at[s] = "spooled", lease # NoInode,
         Goto(s, "opened"), open' = [open EXCEPT ![s] = lease],
         UNCHANGED <<dir, closed, lease, session, hold, child, aged>>
  PROVE  WorkspaceInv'
<1> USE WorkspaceConstants DEF WorkspaceInv, Goto, Removers, Processes
<1>1. Typed'
  <2>1. "opened" \in Steps /\ "opened" \in StepsOf(s)
    BY DEF Steps, StepsOf, Allocating, Live, Removing, Retiring, Opened
  <2>2. WorkspaceTypeOK'
    BY DEF Typed, WorkspaceTypeOK
  <2>3. QED  BY <2>1, <2>2, Moves
<1>2. Shaped'
  BY DEF Typed, WorkspaceTypeOK, Shaped, Opened, Excluding, Sharing
<1>3. Exclusive'
  BY DEF Typed, WorkspaceTypeOK, Shaped, Exclusive, Opened
<1>4. WhileHere'
  BY DEF Typed, WorkspaceTypeOK, WhileHere, Retiring
<1>5. WhileAllocating'
  BY DEF Typed, WhileAllocating
<1>6. WhileLive'
  BY DEF WhileLive
<1>7. WhileRunning'
  BY DEF WhileRunning
<1>8. Admitted'
  BY DEF Admitted
<1>9. QED  BY <1>1, <1>2, <1>3, <1>4, <1>5, <1>6, <1>7, <1>8

LEMMA OpenForStageKeeps ==
  ASSUME WorkspaceInv, NEW s \in Stagers, OpenForStage(s)
  PROVE  WorkspaceInv'
BY StagerGoes, StagerOpens DEF OpenForStage

LEMMA StagerShares ==
  ASSUME WorkspaceInv, NEW s \in Stagers, at[s] = "opened", ~LockedOut(s, {"exclusive"}),
         Goto(s, "shared"), hold' = [hold EXCEPT ![s] = "shared"],
         UNCHANGED <<dir, closed, lease, session, open, child, aged>>
  PROVE  WorkspaceInv'
<1> USE WorkspaceConstants DEF WorkspaceInv, Goto, Removers, Processes
<1>1. Typed'
  <2>1. "shared" \in Steps /\ "shared" \in StepsOf(s)
    BY DEF Steps, StepsOf, Allocating, Live, Removing, Retiring, Opened
  <2>2. WorkspaceTypeOK'
    BY DEF Typed, WorkspaceTypeOK, Opened, Shaped
  <2>3. QED  BY <2>1, <2>2, Moves
<1>2. Shaped'
  BY DEF Typed, WorkspaceTypeOK, Shaped, Opened, Excluding, Sharing
<1>3. Exclusive'
  BY DEF Exclusive, LockedOut
<1>4. WhileHere'
  BY DEF Typed, WhileHere, Retiring
<1>5. WhileAllocating'
  BY DEF Typed, WhileAllocating
<1>6. WhileLive'
  BY DEF WhileLive
<1>7. WhileRunning'
  BY DEF WhileRunning
<1>8. Admitted'
  BY DEF Admitted
<1>9. QED  BY <1>1, <1>2, <1>3, <1>4, <1>5, <1>6, <1>7, <1>8

LEMMA ShareLeaseKeeps ==
  ASSUME WorkspaceInv, NEW s \in Stagers, ShareLease(s)
  PROVE  WorkspaceInv'
BY StagerShares, StagerLeaves DEF ShareLease

LEMMA CheckClosureKeeps ==
  ASSUME WorkspaceInv, NEW s \in Stagers, CheckClosure(s)
  PROVE  WorkspaceInv'
BY StagerGoes, StagerLeaves DEF CheckClosure

LEMMA CheckDirectoryKeeps ==
  ASSUME WorkspaceInv, NEW s \in Stagers, CheckDirectory(s)
  PROVE  WorkspaceInv'
BY StagerGoes, StagerLeaves DEF CheckDirectory

LEMMA ExtractKeeps ==
  ASSUME WorkspaceInv, NEW s \in Stagers, Extract(s)
  PROVE  WorkspaceInv'
<1> USE WorkspaceConstants DEF WorkspaceInv, Extract, Removers, Processes
<1>1. Typed'
  BY DEF Typed, WorkspaceTypeOK
<1>2. Shaped'
  BY DEF Shaped
<1>3. Exclusive'
  BY DEF Exclusive
<1>4. WhileHere'
  BY DEF WhileHere, Admitted
<1>5. WhileAllocating'
  BY DEF WhileAllocating
<1>6. WhileLive'
  BY DEF WhileLive
<1>7. WhileRunning'
  BY DEF WhileRunning
<1>8. Admitted'
  BY DEF Admitted
<1>9. QED  BY <1>1, <1>2, <1>3, <1>4, <1>5, <1>6, <1>7, <1>8

LEMMA EndStageKeeps ==
  ASSUME WorkspaceInv, NEW s \in Stagers, EndStage(s)
  PROVE  WorkspaceInv'
BY StagerLeaves DEF EndStage

LEMMA CrashKeeps == ASSUME WorkspaceInv, NEW c \in Processes, Crash(c) PROVE WorkspaceInv'
<1> USE WorkspaceConstants DEF WorkspaceInv, Crash, Goto, Leave, Removers, Processes
<1>1. Typed'
  BY DEF Typed, WorkspaceTypeOK, StepsOf, Steps
<1>2. Shaped'
  BY DEF Typed, WorkspaceTypeOK, Shaped, Opened, Excluding, Sharing
<1>3. Exclusive'
  BY DEF Typed, WorkspaceTypeOK, Exclusive
<1>4. WhileHere'
  BY DEF Typed, WorkspaceTypeOK, WhileHere, Retiring
<1>5. WhileAllocating'
  BY DEF Typed, WhileAllocating, Allocating
<1>6. WhileLive'
  BY DEF Typed, WhileLive, Live
<1>7. WhileRunning'
  BY DEF WhileRunning, Removing
<1>8. Admitted'
  BY DEF Admitted
<1>9. QED  BY <1>1, <1>2, <1>3, <1>4, <1>5, <1>6, <1>7, <1>8

LEMMA ChildExitsKeeps == ASSUME WorkspaceInv, ChildExits PROVE WorkspaceInv'
<1> USE WorkspaceConstants DEF WorkspaceInv, ChildExits, Removers, Processes
<1>1. Typed'
  BY DEF Typed, WorkspaceTypeOK
<1>2. Shaped'
  BY DEF Shaped
<1>3. Exclusive'
  BY DEF Exclusive
<1>4. WhileHere'
  BY DEF WhileHere
<1>5. WhileAllocating'
  BY DEF WhileAllocating
<1>6. WhileLive'
  BY DEF WhileLive
<1>7. WhileRunning'
  BY DEF WhileRunning
<1>8. Admitted'
  BY DEF Admitted
<1>9. QED  BY <1>1, <1>2, <1>3, <1>4, <1>5, <1>6, <1>7, <1>8

LEMMA AgesKeeps == ASSUME WorkspaceInv, Ages PROVE WorkspaceInv'
<1> USE WorkspaceConstants DEF WorkspaceInv, Ages, Removers, Processes
<1>1. Typed'
  BY DEF Typed, WorkspaceTypeOK
<1>2. Shaped'
  BY DEF Shaped
<1>3. Exclusive'
  BY DEF Exclusive
<1>4. WhileHere'
  BY DEF WhileHere
<1>5. WhileAllocating'
  BY DEF WhileAllocating
<1>6. WhileLive'
  BY DEF WhileLive
<1>7. WhileRunning'
  BY DEF WhileRunning
<1>8. Admitted'
  BY DEF Admitted
<1>9. QED  BY <1>1, <1>2, <1>3, <1>4, <1>5, <1>6, <1>7, <1>8

----------------------------------------------------------------------------
LEMMA StepWorkspace == WorkspaceInv /\ [Next]_vars => WorkspaceInv'
<1> SUFFICES ASSUME WorkspaceInv, [Next]_vars PROVE WorkspaceInv'
  OBVIOUS
<1>1. CASE UNCHANGED vars
  <2>1. Typed' /\ Shaped' /\ Exclusive' /\ WhileHere'
    BY <1>1 DEF vars, WorkspaceInv, Typed, WorkspaceTypeOK, Shaped, Exclusive, WhileHere
  <2>2. WhileAllocating' /\ WhileLive' /\ WhileRunning' /\ Admitted'
    BY <1>1 DEF vars, WorkspaceInv, WhileAllocating, WhileLive, WhileRunning, Admitted
  <2>3. QED  BY <2>1, <2>2 DEF WorkspaceInv
<1>2. CASE Own
  BY <1>2, MakeDirectoryKeeps, CreateLockKeeps, TakeLockKeeps, CreateLeaseKeeps,
     AllocationFailsKeeps, MarkChildKeeps, SpawnChildKeeps, EndSessionKeeps,
     DisposeChildKeeps, ReleaseWorkspaceKeeps DEF Own
<1>3. ASSUME NEW p \in Removers, Remove(p) PROVE WorkspaceInv'
  BY <1>3, CloseAdmissionKeeps, OpenLeaseKeeps, LockLeaseKeeps, GiveUpKeeps,
     RemoveContentKeeps, RemoveDirectoryKeeps, RemovalFailsKeeps, UnlinkClosureKeeps,
     UnlinkLeaseKeeps, CloseLockKeeps DEF Remove
<1>4. ASSUME NEW r \in Reclaimers, Reclaim(r) PROVE WorkspaceInv'
  BY <1>4, InspectKeeps, TryLockKeeps, CheckMarkerKeeps, FindOrphanKeeps, RetireOrphanKeeps
     DEF Reclaim
<1>5. ASSUME NEW s \in Stagers, Stage(s) PROVE WorkspaceInv'
  BY <1>5, BeginStageKeeps, OpenForStageKeeps, ShareLeaseKeeps, CheckClosureKeeps,
     CheckDirectoryKeeps, ExtractKeeps, EndStageKeeps DEF Stage
<1>6. QED
  BY <1>1, <1>2, <1>3, <1>4, <1>5, CrashKeeps, ChildExitsKeeps, AgesKeeps DEF Next

LEMMA AlwaysWorkspace == Spec => []WorkspaceInv
BY InitWorkspace, StepWorkspace, PTL DEF Spec

\* An upload that passed stage_lease keeps its directory until it ends: nobody
\* is past the exclusive lease in remove_workspace meanwhile, whichever inode
\* the two of them opened.
THEOREM AdmittedUploadsAreKept == Spec => []UploadsKeepTheirWorkspace
<1>1. WorkspaceInv => UploadsKeepTheirWorkspace
  <2> SUFFICES ASSUME WorkspaceInv, NEW s \in Stagers, at[s] = "extracting",
                      NEW p \in Removers, at[p] = "remove"
               PROVE  FALSE
    BY DEF WorkspaceInv, Admitted, UploadsKeepTheirWorkspace
  <2>1. open[p] = lease /\ open[s] = lease
    BY DEF WorkspaceInv, Shaped, Admitted, WhileHere, Opened, Processes
  <2>2. hold[p] = "exclusive" /\ hold[s] = "shared"
    BY DEF WorkspaceInv, Shaped, Excluding, Sharing, Processes
  <2>3. QED
    BY <2>1, <2>2, WorkspaceConstants DEF WorkspaceInv, Exclusive, Removers, Processes
<1>2. QED  BY <1>1, AlwaysWorkspace, PTL

\* reclaim_stale_workspaces takes neither a live session's workspace, however
\* old, nor one whose OpenOCD may still run after its helper died.
THEOREM WantedWorkspacesAreKept == Spec => []WantedIsKept
<1>1. WorkspaceInv => WantedIsKept
  BY DEF WorkspaceInv, WantedIsKept, WhileLive, WhileRunning, Live, Removing
<1>2. QED  BY <1>1, AlwaysWorkspace, PTL

\* Two processes never remove one directory at once (remove_workspace).
THEOREM RemovalIsExclusive == Spec => []OneRemover
<1>1. WorkspaceInv => OneRemover
  <2> SUFFICES ASSUME WorkspaceInv, NEW p \in Removers, NEW q \in Removers, dir.here,
                      at[p] = "remove", at[q] = "remove", p # q
               PROVE  FALSE
    BY DEF OneRemover
  <2>1. open[p] = lease /\ open[q] = lease
    BY DEF WorkspaceInv, Shaped, WhileHere, Opened, Processes
  <2>2. hold[p] = "exclusive" /\ hold[q] = "exclusive"
    BY DEF WorkspaceInv, Shaped, Excluding, Processes
  <2>3. QED  BY <2>1, <2>2 DEF WorkspaceInv, Exclusive, Processes
<1>2. QED  BY <1>1, AlwaysWorkspace, PTL

----------------------------------------------------------------------------
\* Workspace implements UploadAdmission.  Phase and Uploading are the
\* substitutes that Workspace.tla gives for its variables, AbstractStep its
\* steps in their terms.
Phase ==
  IF at[Owner] = "start" THEN "open"
  ELSE IF ~dir.here THEN "gone" ELSE IF closed THEN "closed" ELSE "open"

Uploading == {s \in Stagers : at[s] = "extracting" \/ (at[s] = "open" /\ dir.here)}

AbstractStep ==
  \/ \E u \in Stagers :
       \/ Phase = "open" /\ Uploading' = Uploading \cup {u} /\ Phase' = Phase
       \/ u \in Uploading /\ Uploading' = Uploading \ {u} /\ Phase' = Phase
  \/ Phase = "open" /\ Phase' = "closed" /\ Uploading' = Uploading
  \/ Phase = "closed" /\ Uploading = {} /\ Phase' = "gone" /\ Uploading' = Uploading
  \/ Phase' = Phase /\ Uploading' = Uploading

LEMMA AbstractSteps == AbstractStep => [Admission!Next]_Admission!vars
BY DEF AbstractStep, Phase, Uploading, Admission!Next, Admission!vars, Admission!Admit,
       Admission!End, Admission!Close, Admission!Remove

\* A step of a helper, or of nobody, that leaves admission alone.
Quiet ==
  /\ \A s \in Stagers : at'[s] = at[s]
  /\ dir'.here = dir.here /\ (dir.here => closed' = closed) /\ at'[Owner] # "start"

LEMMA QuietStep ==
  ASSUME Quiet, at[Owner] # "start" PROVE AbstractStep
BY DEF Quiet, Phase, Uploading, AbstractStep

LEMMA MostAreQuiet ==
  ASSUME WorkspaceInv, at[Owner] # "start",
         \/ Own /\ ~EndSession
         \/ \E p \in Removers : Remove(p) /\ ~CloseAdmission(p) /\ ~RemoveDirectory(p)
         \/ \E r \in Reclaimers : Reclaim(r)
         \/ ChildExits \/ Ages \/ UNCHANGED vars
  PROVE  AbstractStep
<1> USE WorkspaceConstants DEF Goto, Leave, Quiet, WorkspaceInv, Typed, WorkspaceTypeOK,
        Steps,
        Processes, Removers
<1>1. ASSUME CreateLock PROVE Quiet
  BY <1>1 DEF CreateLock
<1>2. ASSUME TakeLock PROVE Quiet
  BY <1>2 DEF TakeLock
<1>3. ASSUME CreateLease PROVE Quiet
  BY <1>3 DEF CreateLease
<1>4. ASSUME AllocationFails PROVE Quiet
  BY <1>4 DEF AllocationFails
<1>5. ASSUME MarkChild PROVE Quiet
  BY <1>5 DEF MarkChild
<1>6. ASSUME SpawnChild PROVE Quiet
  BY <1>6 DEF SpawnChild
<1>7. ASSUME DisposeChild PROVE Quiet
  BY <1>7 DEF DisposeChild
<1>8. ASSUME ReleaseWorkspace PROVE Quiet
  BY <1>8 DEF ReleaseWorkspace
<1>9. ASSUME NEW p \in Removers, OpenLease(p) PROVE Quiet
  BY <1>9 DEF OpenLease
<1>10. ASSUME NEW p \in Removers, LockLease(p) PROVE Quiet
  BY <1>10 DEF LockLease
<1>11. ASSUME NEW p \in Removers, GiveUp(p) PROVE Quiet
  BY <1>11 DEF GiveUp
<1>12. ASSUME NEW p \in Removers, RemoveContent(p) PROVE Quiet
  BY <1>12 DEF RemoveContent
<1>13. ASSUME NEW p \in Removers, RemovalFails(p) PROVE Quiet
  <2>1. at' = [at EXCEPT ![p] = "failed"] /\ UNCHANGED <<dir, closed>>
    BY <1>13 DEF RemovalFails
  <2>2. QED  BY <2>1
<1>14. ASSUME NEW p \in Removers, UnlinkClosure(p) PROVE Quiet
  <2>1. at' = [at EXCEPT ![p] = "metadata"] /\ UNCHANGED dir /\ ~dir.here
    BY <1>14 DEF UnlinkClosure, WhileHere, Retiring
  <2>2. QED  BY <2>1
<1>15. ASSUME NEW p \in Removers, UnlinkLease(p) PROVE Quiet
  BY <1>15 DEF UnlinkLease
<1>16. ASSUME NEW p \in Removers, CloseLock(p) PROVE Quiet
  BY <1>16 DEF CloseLock
<1>17. ASSUME NEW r \in Reclaimers, Inspect(r) PROVE Quiet
  BY <1>17 DEF Inspect
<1>18. ASSUME NEW r \in Reclaimers, TryLock(r) PROVE Quiet
  BY <1>18 DEF TryLock
<1>19. ASSUME NEW r \in Reclaimers, CheckMarker(r) PROVE Quiet
  BY <1>19 DEF CheckMarker
<1>20. ASSUME NEW r \in Reclaimers, FindOrphan(r) PROVE Quiet
  BY <1>20 DEF FindOrphan
<1>21. ASSUME NEW r \in Reclaimers, RetireOrphan(r) PROVE Quiet
  BY <1>21 DEF RetireOrphan, WhileHere, Retiring
<1>22. ASSUME ChildExits PROVE Quiet
  BY <1>22 DEF ChildExits
<1>23. ASSUME Ages PROVE Quiet
  BY <1>23 DEF Ages
<1>24. ASSUME UNCHANGED vars PROVE Quiet
  BY <1>24 DEF vars, Quiet
<1>25. Quiet
  BY <1>1, <1>2, <1>3, <1>4, <1>5, <1>6, <1>7, <1>8, <1>9, <1>10, <1>11, <1>12, <1>13,
     <1>14, <1>15, <1>16, <1>17, <1>18, <1>19, <1>20, <1>21, <1>22, <1>23, <1>24 DEF Own,
     Remove, Reclaim, MakeDirectory
<1>26. QED  BY <1>25, QuietStep

LEMMA MakingIsQuiet == ASSUME WorkspaceInv, MakeDirectory PROVE AbstractStep
<1>1. at' = [at EXCEPT ![Owner] = "directory"] /\ at \in [Processes -> Steps]
  BY DEF MakeDirectory, Goto, WorkspaceInv, Typed
<1>2. \A s \in Stagers : at[s] = "idle" /\ at'[s] = "idle"
  BY <1>1, WorkspaceConstants DEF MakeDirectory, WorkspaceInv, WhileAllocating, Allocating,
     Processes, Removers
<1>3. Uploading = {} /\ Uploading' = {}
  BY <1>2 DEF Uploading
<1>4. Phase = "open" /\ Phase' = "open"
  BY <1>1 DEF MakeDirectory, Phase, WorkspaceInv, WhileAllocating, Allocating, Typed,
     WorkspaceTypeOK, Processes, Removers
<1>5. QED  BY <1>3, <1>4 DEF AbstractStep

LEMMA ClosingIsClose ==
  ASSUME WorkspaceInv, NEW p \in Removers, at[p] \in {"serving", "close"},
         closed' = TRUE, NEW n \in {"ending", "lease"}, Goto(p, n), UNCHANGED dir
  PROVE  AbstractStep
<1>1. at' = [at EXCEPT ![p] = n] /\ at \in [Processes -> Steps]
  BY DEF Goto, WorkspaceInv, Typed
<1>2. \A s \in Stagers : at'[s] = at[s]
  BY <1>1, WorkspaceConstants DEF Processes, Removers
<1>3. at[Owner] # "start" /\ at'[Owner] # "start"
  BY <1>1 DEF WorkspaceInv, WhileAllocating, Allocating, Processes, Removers
<1>4. Uploading' = Uploading  BY <1>2 DEF Uploading
<1>5. (Phase = "open" /\ Phase' = "closed") \/ Phase' = Phase
  BY <1>3 DEF Phase
<1>6. QED  BY <1>4, <1>5 DEF AbstractStep

LEMMA RemovalIsRemove ==
  ASSUME WorkspaceInv, NEW p \in Removers, RemoveDirectory(p) PROVE AbstractStep
<1>1. CASE ~dir.here
  <2>1. at[p] = "remove"
    BY DEF RemoveDirectory
  <2>2. at[Owner] # "start"
    BY <2>1 DEF WorkspaceInv, WhileAllocating, Allocating, Processes, Removers
  <2>3. dir' = [dir EXCEPT !.here = FALSE] /\ UNCHANGED closed
    BY DEF RemoveDirectory
  <2>4. PICK n \in Steps \ {"start"} : at' = [at EXCEPT ![p] = n]
    BY DEF RemoveDirectory, Goto, Steps, Allocating, Retiring, Live, Opened
  <2>5. Quiet
    <3>1. dir.here = FALSE /\ dir'.here = FALSE
      BY <1>1, <2>3 DEF WorkspaceInv, Typed, WorkspaceTypeOK
    <3>2. (\A s \in Stagers : at'[s] = at[s]) /\ at'[Owner] # "start"
      BY <2>2, <2>4, WorkspaceConstants DEF WorkspaceInv, Typed, Processes, Removers
    <3>3. QED  BY <1>1, <3>1, <3>2 DEF Quiet
  <2>6. QED  BY <2>2, <2>5, QuietStep
<1>2. CASE dir.here
  <2>1. at[p] = "remove" /\ hold[p] = "exclusive" /\ open[p] = lease /\ closed
    BY <1>2 DEF RemoveDirectory, WorkspaceInv, Shaped, WhileHere, Excluding, Opened,
       Processes
  <2>2. ASSUME NEW s \in Stagers, at[s] \in {"open", "extracting"} PROVE FALSE
    <3>1. hold[s] = "shared" /\ open[s] = lease /\ s # p
      BY <1>2, <2>2, WorkspaceConstants DEF WorkspaceInv, Shaped, WhileHere, Sharing,
         Opened, Processes, Removers
    <3>2. QED  BY <2>1, <3>1 DEF WorkspaceInv, Exclusive, Processes
  <2>3. at[Owner] # "start" /\ at'[Owner] # "start" /\ \A s \in Stagers : at'[s] = at[s]
    BY <1>2, WorkspaceConstants DEF RemoveDirectory, Goto, WorkspaceInv, Typed,
       WhileAllocating, Allocating, Processes, Removers
  <2>4. Uploading = {} /\ Uploading' = {}
    BY <2>2, <2>3 DEF Uploading
  <2>5. dir'.here = FALSE
    BY DEF RemoveDirectory, WorkspaceInv, Typed, WorkspaceTypeOK
  <2>6. Phase = "closed" /\ Phase' = "gone"
    BY <1>2, <2>1, <2>3, <2>5 DEF Phase
  <2>7. QED  BY <2>4, <2>6 DEF AbstractStep
<1>3. QED  BY <1>1, <1>2

\* A step of a stage process, which alone may admit or end its upload.
LEMMA StagerStep ==
  ASSUME WorkspaceInv, NEW s \in Stagers, \A q \in Processes \ {s} : at'[q] = at[q],
         dir'.here = dir.here, closed' = closed,
         s \notin Uploading => s \notin Uploading' \/ Phase = "open"
  PROVE  AbstractStep
<1>1. at'[Owner] = at[Owner] /\ \A q \in Stagers \ {s} : at'[q] = at[q]
  BY WorkspaceConstants DEF Processes, Removers
<1>2. Phase' = Phase
  BY <1>1 DEF Phase
<1>3. Uploading \subseteq Stagers /\ Uploading' \subseteq Stagers
  BY DEF Uploading
<1>4. \A q \in Stagers \ {s} : q \in Uploading' <=> q \in Uploading
  BY <1>1 DEF Uploading
<1>5. CASE s \in Uploading /\ s \notin Uploading'
  <2>1. Uploading' = Uploading \ {s}  BY <1>3, <1>4, <1>5
  <2>2. QED  BY <1>2, <1>5, <2>1 DEF AbstractStep
<1>6. CASE s \notin Uploading /\ s \in Uploading'
  <2>1. Uploading' = Uploading \cup {s}  BY <1>3, <1>4, <1>6
  <2>2. QED  BY <1>2, <1>6, <2>1 DEF AbstractStep
<1>7. CASE s \in Uploading <=> s \in Uploading'
  <2>1. Uploading' = Uploading  BY <1>3, <1>4, <1>7
  <2>2. QED  BY <1>2, <2>1 DEF AbstractStep
<1>8. QED  BY <1>5, <1>6, <1>7

\* Its next step, with the rest as it was.
LEMMA StagerTo ==
  ASSUME WorkspaceInv, NEW s \in Stagers, NEW n \in StepsOf(s), Goto(s, n),
         dir'.here = dir.here, closed' = closed,
         n = "open" => ~closed,
         n = "extracting" => at[s] = "extracting" \/ (at[s] = "open" /\ dir.here)
  PROVE  AbstractStep
<1>1. at' = [at EXCEPT ![s] = n] /\ at \in [Processes -> Steps]
  BY DEF Goto, WorkspaceInv, Typed
<1>2. at'[s] = n /\ \A q \in Processes \ {s} : at'[q] = at[q]
  BY <1>1 DEF Processes
<1>3. s \notin Uploading /\ s \in Uploading' => n = "open" /\ dir.here
  BY <1>2 DEF Uploading
<1>4. at[Owner] # "start" \/ ~dir.here
  BY DEF WorkspaceInv, WhileAllocating, Allocating
<1>5. s \notin Uploading => s \notin Uploading' \/ Phase = "open"
  BY <1>3, <1>4 DEF Phase
<1>6. QED  BY <1>2, <1>5, StagerStep

LEMMA StagersAreAbstract ==
  ASSUME WorkspaceInv, NEW s \in Stagers, Stage(s) PROVE AbstractStep
<1>0. {"idle", "spooled", "opened", "shared", "open", "extracting"} \subseteq StepsOf(s)
  BY WorkspaceConstants DEF StepsOf
<1>1. CASE BeginStage(s)
  BY <1>0, <1>1, StagerTo DEF BeginStage
<1>2. CASE OpenForStage(s)
  BY <1>0, <1>2, StagerTo DEF OpenForStage
<1>3. CASE ShareLease(s)
  BY <1>0, <1>3, StagerTo DEF ShareLease, Leave
<1>4. CASE CheckClosure(s)
  BY <1>0, <1>4, StagerTo DEF CheckClosure, Leave
<1>5. CASE CheckDirectory(s)
  BY <1>0, <1>5, StagerTo DEF CheckDirectory, Leave
<1>6. CASE Extract(s)
  <2>1. dir'.here = dir.here
    BY <1>6 DEF Extract, WorkspaceInv, Typed, WorkspaceTypeOK, Admitted
  <2>2. Goto(s, "extracting")
    BY <1>6 DEF Extract, Goto, WorkspaceInv, Typed
  <2>3. QED  BY <1>0, <1>6, <2>1, <2>2, StagerTo DEF Extract
<1>7. CASE EndStage(s)
  BY <1>0, <1>7, StagerTo DEF EndStage, Leave
<1>8. QED
  BY <1>1, <1>2, <1>3, <1>4, <1>5, <1>6, <1>7 DEF Stage

LEMMA CrashIsAbstract == ASSUME WorkspaceInv, NEW p \in Processes, Crash(p) PROVE AbstractStep
<1>1. CASE p \in Stagers
  <2>1. Goto(p, "idle") /\ "idle" \in StepsOf(p)
    BY <1>1, WorkspaceConstants DEF Crash, Leave, StepsOf
  <2>2. QED  BY <1>1, <2>1, StagerTo DEF Crash
<1>2. CASE p \in Removers
  <2>1. /\ at' = [at EXCEPT ![p] = IF p = Owner THEN "exited" ELSE "idle"]
        /\ at \in [Processes -> Steps]
    BY DEF Crash, Leave, Goto, WorkspaceInv, Typed
  <2>2. at[Owner] # "start"
    BY <1>2 DEF Crash, WorkspaceInv, WhileAllocating, Allocating, Removers
  <2>3. Quiet
    BY <1>2, <2>1, <2>2, WorkspaceConstants DEF Crash, Quiet, Removers, Processes
  <2>4. QED  BY <2>2, <2>3, QuietStep
<1>3. QED  BY <1>1, <1>2 DEF Processes

LEMMA StepIsAbstract == WorkspaceInv /\ [Next]_vars => AbstractStep
<1> SUFFICES ASSUME WorkspaceInv, [Next]_vars PROVE AbstractStep
  OBVIOUS
<1>1. CASE at[Owner] = "start"
  <2>1. CASE UNCHANGED vars
    BY <2>1 DEF vars, AbstractStep, Phase, Uploading
  <2>2. CASE MakeDirectory
    BY <2>2, MakingIsQuiet
  <2>3. ASSUME NEW s \in Stagers, Stage(s) PROVE AbstractStep
    BY <2>3, StagersAreAbstract
  <2>4. ASSUME NEW p \in Processes, Crash(p) PROVE AbstractStep
    BY <2>4, CrashIsAbstract
  <2>5. CASE ChildExits \/ Ages
    BY <1>1, <2>5 DEF ChildExits, Ages, WorkspaceInv, WhileAllocating, Allocating
  <2>6. \A r \in Reclaimers : at[r] = "idle" /\ ~dir.here /\ ~aged
    BY <1>1 DEF WorkspaceInv, WhileAllocating, Allocating
  <2>7. ASSUME NEW p \in Removers PROVE ~Remove(p)
    BY <1>1, <2>6 DEF Remove, CloseAdmission, OpenLease, LockLease, GiveUp, RemoveContent,
       RemoveDirectory, RemovalFails, UnlinkClosure, UnlinkLease, CloseLock, Removers
  <2>8. ASSUME NEW r \in Reclaimers PROVE ~Reclaim(r)
    BY <2>6 DEF Reclaim, Inspect, TryLock, CheckMarker, FindOrphan, RetireOrphan
  <2>9. Own => MakeDirectory
    BY <1>1 DEF Own, CreateLock, TakeLock, CreateLease, AllocationFails, MarkChild,
       SpawnChild, EndSession, DisposeChild, ReleaseWorkspace
  <2>10. QED
    BY <2>1, <2>2, <2>3, <2>4, <2>5, <2>7, <2>8, <2>9 DEF Next
<1>2. CASE at[Owner] # "start"
  <2>1. CASE EndSession
    BY <2>1, ClosingIsClose DEF EndSession, Removers
  <2>2. ASSUME NEW p \in Removers, CloseAdmission(p) PROVE AbstractStep
    BY <2>2, ClosingIsClose DEF CloseAdmission
  <2>3. ASSUME NEW p \in Removers, RemoveDirectory(p) PROVE AbstractStep
    BY <2>3, RemovalIsRemove
  <2>4. ASSUME NEW s \in Stagers, Stage(s) PROVE AbstractStep
    BY <2>4, StagersAreAbstract
  <2>5. ASSUME NEW p \in Processes, Crash(p) PROVE AbstractStep
    BY <2>5, CrashIsAbstract
  <2>6. QED
    BY <1>2, <2>1, <2>2, <2>3, <2>4, <2>5, MostAreQuiet DEF Next
<1>3. QED  BY <1>1, <1>2

\* The files and locks of a workspace keep UploadAdmission's promise: no upload
\* is admitted once admission is closed, and no directory goes under one that
\* was (stage_lease, close_staging_admission, remove_workspace).
THEOREM UploadsAreAdmitted == Spec => UploadsAreLeased
<1>1. Init => Admission!Init
  BY WorkspaceConstants DEF Init, Admission!Init, Processes, Removers
<1>2. WorkspaceInv /\ [Next]_vars => [Admission!Next]_Admission!vars
  BY StepIsAbstract, AbstractSteps
<1>3. QED
  BY <1>1, <1>2, AlwaysWorkspace, PTL DEF Spec, UploadsAreLeased, Admission!Spec
=============================================================================

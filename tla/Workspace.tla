------------------------------ MODULE Workspace ------------------------------
(***************************************************************************)
(* One session's directory below the helper's workspace root               *)
(* (helper/_workspace.py): the helper that allocated it, the stage         *)
(* processes that upload into it (helper/staging.py), and the helpers of   *)
(* other sessions that reclaim what is stale.  They share nothing but      *)
(* files and flock, and each may be killed at any step.  Names are random  *)
(* and never used again, so one workspace is enough.                       *)
(*                                                                         *)
(* The lease file may be unlinked and created again while a process has    *)
(* the old one open, so a lock belongs to an inode, not to the path.       *)
(***************************************************************************)
EXTENDS Naturals, FiniteSets

CONSTANTS
  Owner,        \* the helper whose session it is
  Stagers,      \* stage processes; one that ended may start again
  Reclaimers,   \* other helpers, in reclaim_stale_workspaces
  Inodes,       \* inode numbers for the lease file, used again when free
  NoInode, Nobody,
  MayCrash      \* the processes that may be killed

Removers  == {Owner} \cup Reclaimers
Processes == Removers \cup Stagers

ASSUME WorkspaceConstants ==
  /\ Owner \notin Stagers \cup Reclaimers /\ Stagers \cap Reclaimers = {}
  /\ NoInode \notin Inodes /\ Nobody \notin Processes
  /\ MayCrash \subseteq Processes

VARIABLES
  dir,      \* the directory: is it here, and its lock, marker and staged files
  closed,   \* the closure file, .NAME.closed
  lease,    \* inode of the lease file, .NAME.lease
  session,  \* holder of the flock on .session.lock
  open,     \* per process, the lease inode it has open
  hold,     \* per process, its flock on that inode
  at,       \* per process, its next step
  child,    \* the OpenOCD group: none, running or gone
  aged      \* whether the directory is older than STALE_SESSION_AGE

vars == <<dir, closed, lease, session, open, hold, at, child, aged>>

Allocating == {"start", "directory", "lock file", "contents"}

Removing == {"close", "lease", "wait", "remove", "closure", "metadata"}

Init ==
  /\ dir = [here |-> FALSE, lock |-> FALSE, marker |-> FALSE, staged |-> FALSE]
  /\ closed = FALSE /\ lease = NoInode /\ session = Nobody
  /\ open = [p \in Processes |-> NoInode]
  /\ hold = [p \in Processes |-> "none"]
  /\ at = [p \in Processes |-> IF p = Owner THEN "start" ELSE "idle"]
  /\ child = "none" /\ aged = FALSE

Goto(p, step) == at' = [at EXCEPT ![p] = step]

\* Leaves the block in which p had the lease file open.
Leave(p, step) ==
  /\ Goto(p, step)
  /\ open' = [open EXCEPT ![p] = NoInode]
  /\ hold' = [hold EXCEPT ![p] = "none"]

\* Another open file description holds one of these locks on p's inode.
LockedOut(p, kinds) ==
  \E q \in Processes \ {p} : open[q] = open[p] /\ hold[q] \in kinds

Unused(i) == i # lease /\ \A q \in Processes : open[q] # i

----------------------------------------------------------------------------
\* The owner: new_workspace, then its session.

MakeDirectory ==
  /\ at[Owner] = "start"
  /\ dir' = [dir EXCEPT !.here = TRUE]
  /\ Goto(Owner, "directory")
  /\ UNCHANGED <<closed, lease, session, open, hold, child, aged>>

CreateLock ==
  /\ at[Owner] = "directory"
  /\ dir' = [dir EXCEPT !.lock = TRUE]
  /\ Goto(Owner, "lock file")
  /\ UNCHANGED <<closed, lease, session, open, hold, child, aged>>

TakeLock ==
  /\ at[Owner] = "lock file"
  /\ session = Nobody
  /\ session' = Owner
  /\ Goto(Owner, "contents")
  /\ UNCHANGED <<dir, closed, lease, open, hold, child, aged>>

CreateLease ==
  /\ at[Owner] = "contents"
  /\ \E i \in Inodes : Unused(i) /\ lease' = i
  /\ Goto(Owner, "serving")
  /\ UNCHANGED <<dir, closed, session, open, hold, child, aged>>

\* Any step of the allocation raises, and its rollback removes the workspace.
AllocationFails ==
  /\ at[Owner] \in {"directory", "lock file", "contents"}
  /\ Goto(Owner, "close")
  /\ UNCHANGED <<dir, closed, lease, session, open, hold, child, aged>>

\* _start_attempt publishes the marker before it spawns.
MarkChild ==
  /\ at[Owner] = "serving" /\ ~dir.marker
  /\ dir' = [dir EXCEPT !.marker = TRUE]
  /\ Goto(Owner, "spawning")
  /\ UNCHANGED <<closed, lease, session, open, hold, child, aged>>

SpawnChild ==
  /\ at[Owner] = "spawning"
  /\ child' \in {"none", "running"}
  /\ Goto(Owner, "serving")
  /\ UNCHANGED <<dir, closed, lease, session, open, hold, aged>>

\* The coordinator closes staging as soon as the session is Terminating.
EndSession ==
  /\ at[Owner] = "serving"
  /\ closed' = TRUE
  /\ Goto(Owner, "ending")
  /\ UNCHANGED <<dir, lease, session, open, hold, child, aged>>

DisposeChild ==
  /\ at[Owner] = "ending" /\ child = "running"
  /\ child' = "gone"
  /\ UNCHANGED <<dir, closed, lease, session, open, hold, at, aged>>

\* release_workspace: removal only after a confirmed disposal; it goes on
\* when the marker cannot be unlinked.
ReleaseWorkspace ==
  /\ at[Owner] = "ending"
  /\ \/ /\ child # "running"
        /\ dir' \in {dir, [dir EXCEPT !.marker = FALSE]}
        /\ Goto(Owner, "close")
     \/ Goto(Owner, "failed") /\ UNCHANGED dir
  /\ UNCHANGED <<closed, lease, session, open, hold, child, aged>>

----------------------------------------------------------------------------
\* remove_workspace, by the owner or a reclaimer.

CloseAdmission(p) ==
  /\ at[p] = "close"
  /\ closed' = TRUE
  /\ Goto(p, "lease")
  /\ UNCHANGED <<dir, lease, session, open, hold, child, aged>>

\* open("a+b"): the lease may never have been created, or be gone already.
OpenLease(p) ==
  /\ at[p] = "lease"
  /\ \/ lease # NoInode /\ UNCHANGED lease
     \/ lease = NoInode /\ \E i \in Inodes : Unused(i) /\ lease' = i
  /\ open' = [open EXCEPT ![p] = lease']
  /\ Goto(p, "wait")
  /\ UNCHANGED <<dir, closed, session, hold, child, aged>>

\* Mutant of LockLease: the lease file is unlinked as soon as it is locked.
LockLeaseUnlinked(p) ==
  /\ at[p] = "wait" /\ ~LockedOut(p, {"shared", "exclusive"})
  /\ hold' = [hold EXCEPT ![p] = "exclusive"]
  /\ lease' = NoInode
  /\ Goto(p, "remove")
  /\ UNCHANGED <<dir, closed, session, open, child, aged>>

LockLease(p) ==
  /\ at[p] = "wait" /\ ~LockedOut(p, {"shared", "exclusive"})
  /\ hold' = [hold EXCEPT ![p] = "exclusive"]
  /\ Goto(p, "remove")
  /\ UNCHANGED <<dir, closed, lease, session, open, child, aged>>

\* WORKSPACE_LEASE_TIMEOUT
GiveUp(p) ==
  /\ at[p] = "wait" /\ LockedOut(p, {"shared", "exclusive"})
  /\ Leave(p, "failed")
  /\ UNCHANGED <<dir, closed, lease, session, child, aged>>

\* rmtree unlinks the contents in any order, ...
RemoveContent(p) ==
  /\ at[p] = "remove"
  /\ \E entry \in {"lock", "marker", "staged"} :
       dir[entry] /\ dir' = [dir EXCEPT ![entry] = FALSE]
  /\ UNCHANGED <<closed, lease, session, open, hold, at, child, aged>>

\* ... then the directory, which may already be gone; ...
RemoveDirectory(p) ==
  /\ at[p] = "remove" /\ ~dir.lock /\ ~dir.marker /\ ~dir.staged
  /\ dir' = [dir EXCEPT !.here = FALSE]
  /\ Goto(p, "closure")
  /\ UNCHANGED <<closed, lease, session, open, hold, child, aged>>

\* ... or it raises.
RemovalFails(p) ==
  /\ at[p] = "remove" /\ dir.here
  /\ Leave(p, "failed")
  /\ UNCHANGED <<dir, closed, lease, session, child, aged>>

UnlinkClosure(p) ==
  /\ at[p] = "closure"
  /\ closed' = FALSE
  /\ Goto(p, "metadata")
  /\ UNCHANGED <<dir, lease, session, open, hold, child, aged>>

UnlinkLease(p) ==
  /\ at[p] = "metadata"
  /\ lease' = NoInode
  /\ Leave(p, "done")
  /\ UNCHANGED <<dir, closed, session, child, aged>>

\* The session lock is closed after the removal, done or not.
CloseLock(p) ==
  /\ at[p] \in {"done", "failed"}
  /\ session' = IF session = p THEN Nobody ELSE session
  /\ Goto(p, IF p = Owner THEN "exited" ELSE "idle")
  /\ UNCHANGED <<dir, closed, lease, open, hold, child, aged>>

----------------------------------------------------------------------------
\* A reclaimer: reclaim_stale_workspaces.

\* Mutant of Inspect: a workspace without its lock file is left alone.
InspectLocked(r) ==
  /\ at[r] = "idle" /\ dir.here /\ aged /\ dir.lock
  /\ Goto(r, "locking")
  /\ UNCHANGED <<dir, closed, lease, session, open, hold, child, aged>>

Inspect(r) ==
  /\ at[r] = "idle" /\ dir.here /\ aged
  /\ Goto(r, IF dir.lock THEN "locking" ELSE "marker")
  /\ UNCHANGED <<dir, closed, lease, session, open, hold, child, aged>>

\* Mutant of TryLock: the lock is not tried.
TryLockNot(r) ==
  /\ at[r] = "locking"
  /\ Goto(r, "marker")
  /\ UNCHANGED <<dir, closed, lease, session, open, hold, child, aged>>

TryLock(r) ==
  /\ at[r] = "locking"
  /\ \/ /\ session = Nobody /\ session' = r
        /\ Goto(r, "marker")
     \/ /\ session # Nobody \/ ~dir.lock
        /\ Goto(r, "idle") /\ UNCHANGED session
  /\ UNCHANGED <<dir, closed, lease, open, hold, child, aged>>

\* _reclaim_unmarked_workspace: no marker, or no directory any more.
CheckMarker(r) ==
  /\ at[r] = "marker"
  /\ Goto(r, IF dir.marker THEN "failed" ELSE "close")
  /\ UNCHANGED <<dir, closed, lease, session, open, hold, child, aged>>

\* Metadata whose workspace is gone is retired, with no lock at all.
FindOrphan(r) ==
  /\ at[r] = "idle" /\ aged /\ ~dir.here
  /\ \/ closed /\ Goto(r, "retire closure")
     \/ lease # NoInode /\ Goto(r, "retire lease")
  /\ UNCHANGED <<dir, closed, lease, session, open, hold, child, aged>>

RetireOrphan(r) ==
  /\ \/ at[r] = "retire closure" /\ closed' = FALSE /\ UNCHANGED lease
     \/ at[r] = "retire lease" /\ lease' = NoInode /\ UNCHANGED closed
  /\ Goto(r, "idle")
  /\ UNCHANGED <<dir, session, open, hold, child, aged>>

----------------------------------------------------------------------------
\* A stage process: stage(), stage_lease.

\* It resolves the workspace and reads the whole archive from its input.
BeginStage(s) ==
  /\ at[s] = "idle" /\ dir.here
  /\ Goto(s, "spooled")
  /\ UNCHANGED <<dir, closed, lease, session, open, hold, child, aged>>

\* open("r+b") never creates the lease.
OpenForStage(s) ==
  /\ at[s] = "spooled"
  /\ IF lease = NoInode THEN Goto(s, "idle") /\ UNCHANGED open
     ELSE Goto(s, "opened") /\ open' = [open EXCEPT ![s] = lease]
  /\ UNCHANGED <<dir, closed, lease, session, hold, child, aged>>

ShareLease(s) ==
  /\ at[s] = "opened"
  /\ IF LockedOut(s, {"exclusive"}) THEN Leave(s, "idle")
     ELSE /\ Goto(s, "shared")
          /\ hold' = [hold EXCEPT ![s] = "shared"]
          /\ UNCHANGED open
  /\ UNCHANGED <<dir, closed, lease, session, child, aged>>

\* Mutant of CheckClosure: the shared lease is taken for admission.
CheckClosureNot(s) ==
  /\ at[s] = "shared"
  /\ Goto(s, "open")
  /\ UNCHANGED <<dir, closed, lease, session, open, hold, child, aged>>

CheckClosure(s) ==
  /\ at[s] = "shared"
  /\ IF closed THEN Leave(s, "idle") ELSE Goto(s, "open") /\ UNCHANGED <<open, hold>>
  /\ UNCHANGED <<dir, closed, lease, session, child, aged>>

\* Mutant of CheckDirectory: a lock on a retired lease is taken for admission.
CheckDirectoryNot(s) ==
  /\ at[s] = "open"
  /\ Goto(s, "extracting")
  /\ UNCHANGED <<dir, closed, lease, session, open, hold, child, aged>>

CheckDirectory(s) ==
  /\ at[s] = "open"
  /\ IF dir.here THEN Goto(s, "extracting") /\ UNCHANGED <<open, hold>>
     ELSE Leave(s, "idle")
  /\ UNCHANGED <<dir, closed, lease, session, child, aged>>

\* mkdir(parents=True) would make the workspace again if it were gone.
Extract(s) ==
  /\ at[s] = "extracting"
  /\ dir' = [dir EXCEPT !.here = TRUE, !.staged = TRUE]
  /\ UNCHANGED <<closed, lease, session, open, hold, at, child, aged>>

EndStage(s) ==
  /\ at[s] = "extracting"
  /\ Leave(s, "idle")
  /\ UNCHANGED <<dir, closed, lease, session, child, aged>>

----------------------------------------------------------------------------
\* The kernel drops a dead process's locks; a child outlives its helper.
Crash(p) ==
  /\ p \in MayCrash /\ at[p] \notin {"start", "idle", "exited"}
  /\ Leave(p, IF p = Owner THEN "exited" ELSE "idle")
  /\ session' = IF session = p THEN Nobody ELSE session
  /\ UNCHANGED <<dir, closed, lease, child, aged>>

ChildExits ==
  /\ child = "running" /\ child' = "gone"
  /\ UNCHANGED <<dir, closed, lease, session, open, hold, at, aged>>

\* No allocation takes STALE_SESSION_AGE; a session may.
Ages ==
  /\ at[Owner] \notin Allocating /\ ~aged
  /\ aged' = TRUE
  /\ UNCHANGED <<dir, closed, lease, session, open, hold, at, child>>

Own == \/ MakeDirectory \/ CreateLock \/ TakeLock \/ CreateLease \/ AllocationFails
       \/ MarkChild \/ SpawnChild \/ EndSession \/ DisposeChild \/ ReleaseWorkspace

Remove(p) ==
  \/ CloseAdmission(p) \/ OpenLease(p) \/ LockLease(p) \/ GiveUp(p)
  \/ RemoveContent(p) \/ RemoveDirectory(p) \/ RemovalFails(p)
  \/ UnlinkClosure(p) \/ UnlinkLease(p) \/ CloseLock(p)

Reclaim(r) ==
  \/ Inspect(r) \/ TryLock(r) \/ CheckMarker(r) \/ FindOrphan(r) \/ RetireOrphan(r)

Stage(s) ==
  \/ BeginStage(s) \/ OpenForStage(s) \/ ShareLease(s) \/ CheckClosure(s)
  \/ CheckDirectory(s) \/ Extract(s) \/ EndStage(s)

Next ==
  \/ Own
  \/ \E p \in Removers : Remove(p)
  \/ \E r \in Reclaimers : Reclaim(r)
  \/ \E s \in Stagers : Stage(s)
  \/ \E p \in Processes : Crash(p)
  \/ ChildExits \/ Ages

Spec == Init /\ [][Next]_vars

\* Helpers keep being started, not all of them are killed, and each does its
\* work; rmtree does not fail for ever; an upload that was begun ends, and its
\* client, which ends with the session, does not begin another for ever.
Fairness ==
  /\ WF_vars(Ages)
  /\ \A r \in Reclaimers :
       /\ WF_vars(Remove(r)) /\ WF_vars(Reclaim(r))
       /\ SF_vars(RemoveContent(r) \/ RemoveDirectory(r))
       /\ <>[][~Crash(r)]_vars
  /\ \A s \in Stagers :
       /\ WF_vars(at[s] # "idle" /\ Stage(s))
       /\ <>[][~BeginStage(s)]_vars

LiveSpec == Spec /\ Fairness

----------------------------------------------------------------------------
\* The values of the variables; a lock is held through an open file only.
WorkspaceTypeOK ==
  /\ dir \in [here : BOOLEAN, lock : BOOLEAN, marker : BOOLEAN, staged : BOOLEAN]
  /\ closed \in BOOLEAN /\ aged \in BOOLEAN
  /\ lease \in Inodes \cup {NoInode}
  /\ session \in Removers \cup {Nobody}
  /\ open \in [Processes -> Inodes \cup {NoInode}]
  /\ hold \in [Processes -> {"none", "shared", "exclusive"}]
  /\ child \in {"none", "running", "gone"}
  /\ \A p \in Processes : hold[p] # "none" => open[p] # NoInode

\* An upload that was admitted keeps its workspace until it ends: nobody has
\* begun to remove it, whichever lease inode each of them holds (stage_lease,
\* remove_workspace).
UploadsKeepTheirWorkspace ==
  \A s \in Stagers : at[s] = "extracting" =>
    dir.here /\ \A p \in Removers : at[p] # "remove"

\* A session that lives keeps its workspace whatever its age, and no reclaimer
\* even begins to remove it.  While OpenOCD may still run its workspace stays
\* also after the helper died or gave up: the marker outlives both.
WantedIsKept ==
  /\ at[Owner] \in {"serving", "spawning", "ending"} =>
       dir.here /\ dir.lock /\ \A r \in Reclaimers : at[r] \notin Removing
  /\ child = "running" =>
       dir.here /\ dir.marker /\ \A p \in Removers : at[p] # "remove"

\* Two helpers never remove the same directory at once.
OneRemover ==
  \A p, q \in Removers :
    dir.here /\ at[p] = "remove" /\ at[q] = "remove" => p = q

\* Uploads and removal implement UploadAdmission.
Admission == INSTANCE UploadAdmission WITH
  Uploads  <- Stagers,
  phase    <- IF at[Owner] = "start" THEN "open"
              ELSE IF ~dir.here THEN "gone"
              ELSE IF closed THEN "closed" ELSE "open",
  admitted <- {s \in Stagers : at[s] = "extracting" \/ (at[s] = "open" /\ dir.here)}

UploadsAreLeased == Admission!Spec

\* What a dead session left is reclaimed, unless its marker is left, with or
\* without a child that runs: no other leftover of a crash at any step stands
\* in the way.
StaleIsReclaimed ==
  dir.here /\ ~dir.marker /\ at[Owner] = "exited" ~> ~dir.here
=============================================================================

------------------------- MODULE HelperInstallation -------------------------
(***************************************************************************)
(* The helpers installed on a remote host, one file per digest of a bundle *)
(* (controller/_deployment_bootstrap.py, run over SSH by deploy_helper of  *)
(* controller/_deployment.py).  Clients with equal and with different      *)
(* bundles install, use and reclaim them at once, and each remote process  *)
(* may be killed at any step.                                              *)
(***************************************************************************)
EXTENDS HostClients

CONSTANTS
  Digests,     \* digests of helper bundles
  Truncated    \* the digest of a bundle of which only a part arrived

Names == Digests \cup {Truncated}

ASSUME InstallationConstants == Truncated \notin Digests /\ None \notin Names

VARIABLES
  step,   \* per client, the next step of its installation
  wants,  \* per client, the digest of its own bundle
  got,    \* per client, the digest of what arrived on its bootstrap's stdin
  lock,   \* holder of the flock on .deploy.lock
  file,   \* per digest, what is in helper-DIGEST.py
  aged,   \* digests whose file is older than STALE_HELPER_AGE_SECONDS
  tmp,    \* per client, its temporary file
  scan    \* per client, helpers it has not looked at yet, and the one it
          \* found old enough to unlink

installVars == <<step, wants, got, lock, file, aged, tmp, scan>>

NoScan == [left |-> {}, victim |-> None]

InstallInit ==
  /\ step = [c \in Clients |-> "idle"]
  /\ wants = [c \in Clients |-> Truncated] /\ got = wants
  /\ lock = None /\ file = [d \in Names |-> "none"] /\ aged = {}
  /\ tmp = [c \in Clients |-> "none"] /\ scan = [c \in Clients |-> NoScan]

GoOn(c, next) == step' = [step EXCEPT ![c] = next]

----------------------------------------------------------------------------
\* The installation program, main() of _deployment_bootstrap.py

\* A client with some version of the bundle; its connection may be lost before
\* the bootstrap has read it all.
Upload(c) ==
  /\ step[c] = "idle"
  /\ \E d \in Digests : \E arrived \in {d, Truncated} :
       wants' = [wants EXCEPT ![c] = d] /\ got' = [got EXCEPT ![c] = arrived]
  /\ GoOn(c, "lock")
  /\ UNCHANGED <<lock, file, aged, tmp, scan>>

\* Mutant: the lock is left out.
LockDeploymentNever(c) ==
  /\ step[c] = "lock"
  /\ GoOn(c, "check")
  /\ UNCHANGED <<wants, got, lock, file, aged, tmp, scan>>

LockDeployment(c) ==
  /\ step[c] = "lock" /\ lock = None
  /\ lock' = c
  /\ GoOn(c, "check")
  /\ UNCHANGED <<wants, got, file, aged, tmp, scan>>

\* The installed file is used again only if its content has the digest.
CheckInstalled(c) ==
  /\ step[c] = "check"
  /\ GoOn(c, IF file[got[c]] = "whole" THEN "touch" ELSE "create")
  /\ UNCHANGED <<wants, got, lock, file, aged, tmp, scan>>

\* mkstemp, and the write in pieces.
WriteTemporary(c) ==
  /\ step[c] \in {"create", "write"}
  /\ tmp' = [tmp EXCEPT ![c] = IF step[c] = "create" THEN "part" ELSE "whole"]
  /\ GoOn(c, IF step[c] = "create" THEN "write" ELSE "replace")
  /\ UNCHANGED <<wants, got, lock, file, aged, scan>>

Replace(c) ==
  /\ step[c] = "replace"
  /\ file' = [file EXCEPT ![got[c]] = tmp[c]]
  /\ aged' = aged \ {got[c]}
  /\ tmp' = [tmp EXCEPT ![c] = "none"]
  /\ GoOn(c, "touch")
  /\ UNCHANGED <<wants, got, lock, scan>>

\* Mutant: the failure leaves the lock to nobody.
InstallationFailsLocked(c) ==
  /\ step[c] \in {"create", "write", "replace"}
  /\ tmp' = [tmp EXCEPT ![c] = "none"]
  /\ GoOn(c, "over")
  /\ UNCHANGED <<wants, got, lock, file, aged, scan>>

\* mkstemp, write, fsync or replace raises: the temporary file is unlinked,
\* and the lock closed.
InstallationFails(c) ==
  /\ step[c] \in {"create", "write", "replace"}
  /\ tmp' = [tmp EXCEPT ![c] = "none"]
  /\ lock' = None
  /\ GoOn(c, "over")
  /\ UNCHANGED <<wants, got, file, aged, scan>>

\* chmod and utime keep other clients from reclaiming the file for a day.
Touch(c) ==
  /\ step[c] = "touch"
  /\ IF file[got[c]] = "none"
     THEN lock' = None /\ GoOn(c, "over") /\ UNCHANGED <<aged, scan>>
     ELSE /\ aged' = aged \ {got[c]}
          /\ scan' = [scan EXCEPT ![c].left = Names \ {got[c]}]
          /\ GoOn(c, "scan") /\ UNCHANGED lock
  /\ UNCHANGED <<wants, got, file, tmp>>

\* stat, and if it is old enough, unlink in a step of its own.
Inspect(c, d) ==
  /\ step[c] = "scan" /\ scan[c].victim = None /\ d \in scan[c].left
  /\ scan' = [scan EXCEPT ![c] =
                [left   |-> @.left \ {d},
                 victim |-> IF d \in aged /\ file[d] # "none" THEN d ELSE None]]
  /\ UNCHANGED <<step, wants, got, lock, file, aged, tmp>>

Reclaim(c) ==
  /\ step[c] = "scan" /\ scan[c].victim # None
  /\ file' = [file EXCEPT ![scan[c].victim] = "none"]
  /\ scan' = [scan EXCEPT ![c].victim = None]
  /\ UNCHANGED <<step, wants, got, lock, aged, tmp>>

Unlock(c) ==
  /\ step[c] = "scan" /\ scan[c] = NoScan
  /\ lock' = None
  /\ GoOn(c, "answer")
  /\ UNCHANGED <<wants, got, file, aged, tmp, scan>>

\* The path is resolved without the lock, and DEPLOYED sent; deploy_helper
\* compares the digest in it with that of its own bundle, unless its timeout
\* has passed and it gave up.
Answer(c) ==
  /\ step[c] = "answer"
  /\ \/ file[got[c]] # "none" /\ got[c] = wants[c] /\ GoOn(c, "using")
     \/ GoOn(c, "over")
  /\ UNCHANGED <<wants, got, lock, file, aged, tmp, scan>>

\* The client has run what it wanted of the helper and may come again.
EndUse(c) ==
  /\ step[c] \in {"using", "over"}
  /\ GoOn(c, "idle")
  /\ wants' = [wants EXCEPT ![c] = Truncated] /\ got' = [got EXCEPT ![c] = Truncated]
  /\ UNCHANGED <<lock, file, aged, tmp, scan>>

----------------------------------------------------------------------------
Installing == {"check", "create", "write", "replace", "touch", "scan"}

\* The bootstrap is killed.  Its temporary file stays, but no later step looks
\* at it.
Killed(c) ==
  /\ step[c] \in Installing \cup {"lock", "answer"}
  /\ lock' = IF lock = c THEN None ELSE lock
  /\ tmp' = [tmp EXCEPT ![c] = "none"] /\ scan' = [scan EXCEPT ![c] = NoScan]
  /\ GoOn(c, "over")
  /\ UNCHANGED <<wants, got, file, aged>>

\* Nobody relies on the file of d, having found it whole: the assumption is
\* that a client uses a helper within a day of its deployment, and that files
\* in use are not damaged.
Unused(d) == \A c \in Clients :
  got[c] = d => step[c] \notin {"touch", "scan", "answer", "using"}

DayPasses(d) ==
  /\ Unused(d)
  /\ aged' = aged \cup {d}
  /\ UNCHANGED <<step, wants, got, lock, file, tmp, scan>>

Damage(d) ==
  /\ Unused(d) /\ file[d] = "whole"
  /\ file' = [file EXCEPT ![d] = "damaged"]
  /\ UNCHANGED <<step, wants, got, lock, aged, tmp, scan>>

Install(c) ==
  \/ LockDeployment(c) \/ CheckInstalled(c) \/ WriteTemporary(c) \/ Replace(c)
  \/ InstallationFails(c) \/ Touch(c) \/ (\E d \in Names : Inspect(c, d))
  \/ Reclaim(c) \/ Unlock(c) \/ Answer(c)

InstallNext ==
  \/ \E c \in Clients : Upload(c) \/ Install(c) \/ EndUse(c) \/ Killed(c)
  \/ \E d \in Names : DayPasses(d) \/ Damage(d)

InstallSpec == InstallInit /\ [][InstallNext]_installVars

\* A bootstrap that is not killed runs, and flock is granted to one that keeps
\* waiting while others come and go.
InstallFairness ==
  \A c \in Clients : WF_installVars(Install(c)) /\ SF_installVars(LockDeployment(c))

----------------------------------------------------------------------------
Steps == Installing \cup {"idle", "lock", "answer", "using", "over"}

\* The values of the variables: no incomplete file is ever put at the name of a
\* digest.
InstallTypeOK ==
  /\ step \in [Clients -> Steps]
  /\ wants \in [Clients -> Names] /\ got \in [Clients -> Names]
  /\ lock \in Clients \cup {None}
  /\ file \in [Names -> {"none", "damaged", "whole"}] /\ aged \subseteq Names
  /\ tmp \in [Clients -> {"none", "part", "whole"}]
  /\ scan \in [Clients -> [left : SUBSET Names, victim : Names \cup {None}]]

\* A client that accepted DEPLOYED has the whole helper of its own bundle, for
\* as long as it uses it: no other client's installation or reclamation, crash
\* of a bootstrap, damage found on the host, or connection lost during the
\* upload puts anything else in its place.
DeployedIsWhole == \A c \in Clients : step[c] = "using" => file[wants[c]] = "whole"

\* Every installation is decided, whoever died with the lock.
InstallationEnds ==
  \A c \in Clients : step[c] = "lock" ~> step[c] \in {"answer", "using", "over"}
=============================================================================

-------------------------- MODULE SharedHost_proofs --------------------------
(***************************************************************************)
(* Proofs of what HelperInstallation.tla and AddressLease.tla state, for   *)
(* any clients, bundles, addresses and ports, any number of attempts and   *)
(* any use of the ports by others.                                         *)
(*                                                                         *)
(* Both invariants are stated per client.  A step of one client touches    *)
(* only what nobody has or what it has itself (InstallApart, LeaseApart),  *)
(* and takes a helper away only while it holds the lock and finds the file *)
(* old.  That leaves every other client's part alone, so each action is    *)
(* shown to keep its own part.                                             *)
(***************************************************************************)
EXTENDS HelperInstallation, AddressLease, TLAPS

----------------------------------------------------------------------------
\* The installation: who accepted DEPLOYED has a whole helper while it uses it.

Relying == {"touch", "scan", "answer", "using"}

\* Nobody installs or reclaims without the lock; the file that a client found or
\* put in place is whole; from its touch on it is young; and only an old file is
\* chosen to be unlinked.
InstallSound(c) ==
  /\ step[c] \in Installing => lock = c
  /\ step[c] = "replace" => tmp[c] = "whole"
  /\ step[c] \in Relying => file[got[c]] = "whole"
  /\ step[c] \in Relying \ {"touch"} => got[c] \notin aged
  /\ scan[c].victim # None => step[c] = "scan" /\ scan[c].victim \in aged
  /\ step[c] = "using" => got[c] = wants[c]

InstallInv == InstallTypeOK /\ \A c \in Clients : InstallSound(c)

InstallApart(c) ==
  /\ \A d \in Clients \ {c} :
       /\ step'[d] = step[d] /\ wants'[d] = wants[d] /\ got'[d] = got[d]
       /\ tmp'[d] = tmp[d] /\ scan'[d] = scan[d]
  /\ lock' = lock \/ {lock, lock'} \subseteq {c, None}
  /\ \A n \in Names :
       file'[n] = file[n] \/ file'[n] = "whole" \/ (n \in aged /\ lock = c)
  /\ aged' = aged \/ (aged' \subseteq aged /\ lock = c)

Scans == [left : SUBSET Names, victim : Names \cup {None}]

----------------------------------------------------------------------------
LEMMA InstallDistinct == None \notin Clients \cup Names /\ Truncated \in Names
BY ClientsAssumption, InstallationConstants DEF Names

LEMMA OthersInstallSound ==
  ASSUME InstallInv, NEW c \in Clients, InstallApart(c), NEW d \in Clients \ {c}
  PROVE  InstallSound(d)'
<1>1. InstallSound(d) /\ got[d] \in Names
  BY DEF InstallInv, InstallTypeOK
<1>2. /\ step'[d] = step[d] /\ wants'[d] = wants[d] /\ got'[d] = got[d]
      /\ tmp'[d] = tmp[d] /\ scan'[d] = scan[d]
  BY DEF InstallApart
<1>3. lock = d => lock' = d /\ aged' = aged
  BY InstallDistinct DEF InstallApart
<1>4. aged' \subseteq aged
  BY DEF InstallApart
<1>5. step[d] \in Relying => file'[got[d]] = "whole"
  <2>1. \/ file'[got[d]] = file[got[d]] \/ file'[got[d]] = "whole"
        \/ got[d] \in aged /\ lock = c
    BY <1>1 DEF InstallApart
  <2>2. QED  BY <1>1, <2>1 DEF InstallSound, Relying, Installing
<1>6. QED  BY <1>1, <1>2, <1>3, <1>4, <1>5 DEF InstallSound, Relying, Installing

LEMMA InstallStepOf ==
  ASSUME InstallInv, NEW c \in Clients, InstallTypeOK', InstallApart(c), InstallSound(c)'
  PROVE  InstallInv'
BY OthersInstallSound DEF InstallInv

\* The variables one by one

LEMMA InstallGoesOn ==
  ASSUME InstallInv, NEW c \in Clients, NEW s \in Steps, GoOn(c, s)
  PROVE  /\ step' \in [Clients -> Steps] /\ step'[c] = s
         /\ \A d \in Clients \ {c} : step'[d] = step[d]
<1>1. step \in [Clients -> Steps] /\ step' = [step EXCEPT ![c] = s]
  BY DEF GoOn, InstallInv, InstallTypeOK
<1>2. QED  BY <1>1

LEMMA Bundles ==
  ASSUME InstallInv, NEW c \in Clients, NEW w \in Names, NEW g \in Names,
         wants' = [wants EXCEPT ![c] = w], got' = [got EXCEPT ![c] = g]
  PROVE  /\ wants' \in [Clients -> Names] /\ got' \in [Clients -> Names]
         /\ \A d \in Clients \ {c} : wants'[d] = wants[d] /\ got'[d] = got[d]
<1>1. wants \in [Clients -> Names] /\ got \in [Clients -> Names]
  BY DEF InstallInv, InstallTypeOK
<1>2. QED  BY <1>1

LEMMA Temporary ==
  ASSUME InstallInv, NEW c \in Clients, NEW t \in {"none", "part", "whole"},
         tmp' = [tmp EXCEPT ![c] = t]
  PROVE  /\ tmp' \in [Clients -> {"none", "part", "whole"}] /\ tmp'[c] = t
         /\ \A d \in Clients \ {c} : tmp'[d] = tmp[d]
<1>1. tmp \in [Clients -> {"none", "part", "whole"}]  BY DEF InstallInv, InstallTypeOK
<1>2. QED  BY <1>1

LEMMA Files ==
  ASSUME InstallInv, NEW n \in Names, NEW f \in {"none", "damaged", "whole"},
         file' = [file EXCEPT ![n] = f]
  PROVE  /\ file' \in [Names -> {"none", "damaged", "whole"}] /\ file'[n] = f
         /\ \A m \in Names \ {n} : file'[m] = file[m]
<1>1. file \in [Names -> {"none", "damaged", "whole"}]  BY DEF InstallInv, InstallTypeOK
<1>2. QED  BY <1>1

LEMMA Scanning ==
  ASSUME InstallInv, NEW c \in Clients, NEW s \in Scans, scan' = [scan EXCEPT ![c] = s]
  PROVE  /\ scan' \in [Clients -> Scans] /\ scan'[c] = s
         /\ \A d \in Clients \ {c} : scan'[d] = scan[d]
<1>1. scan \in [Clients -> Scans]  BY DEF InstallInv, InstallTypeOK, Scans
<1>2. QED  BY <1>1

----------------------------------------------------------------------------
\* The steps

LEMMA UploadKeeps ==
  ASSUME InstallInv, NEW c \in Clients, Upload(c)
  PROVE  InstallInv'
<1>0. InstallSound(c) /\ got[c] \in Names  BY DEF InstallInv, InstallTypeOK
<1>1. step[c] = "idle" /\ UNCHANGED <<lock, file, aged, tmp, scan>>
  BY DEF Upload
<1>2. /\ step' \in [Clients -> Steps] /\ step'[c] = "lock"
      /\ \A d \in Clients \ {c} : step'[d] = step[d]
  BY InstallGoesOn DEF Upload, Steps, Installing
<1>3. /\ wants' \in [Clients -> Names] /\ got' \in [Clients -> Names]
      /\ \A d \in Clients \ {c} : wants'[d] = wants[d] /\ got'[d] = got[d]
  BY Bundles, InstallDistinct DEF Upload, Names
<1>4. InstallTypeOK'  BY <1>0, <1>1, <1>2, <1>3 DEF InstallInv, InstallTypeOK, Scans
<1>5. InstallApart(c)  BY <1>0, <1>1, <1>2, <1>3
                         DEF InstallApart, InstallSound, Installing, Relying
<1>6. InstallSound(c)'  BY <1>0, <1>1, <1>2, <1>3, InstallDistinct
                          DEF InstallSound, Relying, Installing
<1>7. QED  BY <1>4, <1>5, <1>6, InstallStepOf

LEMMA LockKeeps ==
  ASSUME InstallInv, NEW c \in Clients, LockDeployment(c)
  PROVE  InstallInv'
<1>0. InstallSound(c) /\ got[c] \in Names  BY DEF InstallInv, InstallTypeOK
<1>1. /\ step[c] = "lock" /\ lock = None /\ lock' = c
      /\ UNCHANGED <<wants, got, file, aged, tmp, scan>>
  BY DEF LockDeployment
<1>2. /\ step' \in [Clients -> Steps] /\ step'[c] = "check"
      /\ \A d \in Clients \ {c} : step'[d] = step[d]
  BY InstallGoesOn DEF LockDeployment, Steps, Installing
<1>3. InstallTypeOK'  BY <1>0, <1>1, <1>2 DEF InstallInv, InstallTypeOK, Scans
<1>4. InstallApart(c)  BY <1>0, <1>1, <1>2
                         DEF InstallApart, InstallSound, Installing, Relying
<1>5. InstallSound(c)'  BY <1>0, <1>1, <1>2, InstallDistinct
                          DEF InstallSound, Relying, Installing
<1>6. QED  BY <1>3, <1>4, <1>5, InstallStepOf

LEMMA CheckKeeps ==
  ASSUME InstallInv, NEW c \in Clients, CheckInstalled(c)
  PROVE  InstallInv'
<1>0. InstallSound(c) /\ got[c] \in Names  BY DEF InstallInv, InstallTypeOK
<1>1. /\ step[c] = "check" /\ UNCHANGED <<wants, got, lock, file, aged, tmp, scan>>
  BY DEF CheckInstalled
<1>2. /\ step' \in [Clients -> Steps]
      /\ step'[c] = IF file[got[c]] = "whole" THEN "touch" ELSE "create"
      /\ \A d \in Clients \ {c} : step'[d] = step[d]
  BY InstallGoesOn DEF CheckInstalled, Steps, Installing
<1>3. InstallTypeOK'  BY <1>0, <1>1, <1>2 DEF InstallInv, InstallTypeOK, Scans
<1>4. InstallApart(c)  BY <1>0, <1>1, <1>2
                         DEF InstallApart, InstallSound, Installing, Relying
<1>5. InstallSound(c)'  BY <1>0, <1>1, <1>2, InstallDistinct
                          DEF InstallSound, Relying, Installing
<1>6. QED  BY <1>3, <1>4, <1>5, InstallStepOf

LEMMA WriteKeeps ==
  ASSUME InstallInv, NEW c \in Clients, WriteTemporary(c)
  PROVE  InstallInv'
<1>0. InstallSound(c) /\ got[c] \in Names  BY DEF InstallInv, InstallTypeOK
<1>1. /\ step[c] \in {"create", "write"}
      /\ UNCHANGED <<wants, got, lock, file, aged, scan>>
  BY DEF WriteTemporary
<1>2. /\ step' \in [Clients -> Steps]
      /\ step'[c] = IF step[c] = "create" THEN "write" ELSE "replace"
      /\ \A d \in Clients \ {c} : step'[d] = step[d]
  BY InstallGoesOn DEF WriteTemporary, Steps, Installing
<1>3. /\ tmp' \in [Clients -> {"none", "part", "whole"}]
      /\ tmp'[c] = IF step[c] = "create" THEN "part" ELSE "whole"
      /\ \A d \in Clients \ {c} : tmp'[d] = tmp[d]
  BY Temporary DEF WriteTemporary
<1>4. InstallTypeOK'  BY <1>0, <1>1, <1>2, <1>3 DEF InstallInv, InstallTypeOK, Scans
<1>5. InstallApart(c)  BY <1>0, <1>1, <1>2, <1>3
                         DEF InstallApart, InstallSound, Installing, Relying
<1>6. InstallSound(c)'  BY <1>0, <1>1, <1>2, <1>3, InstallDistinct
                          DEF InstallSound, Relying, Installing
<1>7. QED  BY <1>4, <1>5, <1>6, InstallStepOf

LEMMA ReplaceKeeps ==
  ASSUME InstallInv, NEW c \in Clients, Replace(c)
  PROVE  InstallInv'
<1>0. InstallSound(c) /\ got[c] \in Names  BY DEF InstallInv, InstallTypeOK
<1>1. /\ step[c] = "replace" /\ lock = c /\ tmp[c] = "whole"
      /\ aged' = aged \ {got[c]} /\ UNCHANGED <<wants, got, lock, scan>>
  BY <1>0 DEF Replace, InstallSound, Installing
<1>2. /\ step' \in [Clients -> Steps] /\ step'[c] = "touch"
      /\ \A d \in Clients \ {c} : step'[d] = step[d]
  BY InstallGoesOn DEF Replace, Steps, Installing
<1>3. /\ tmp' \in [Clients -> {"none", "part", "whole"}] /\ tmp'[c] = "none"
      /\ \A d \in Clients \ {c} : tmp'[d] = tmp[d]
  BY Temporary DEF Replace
<1>4. /\ file' \in [Names -> {"none", "damaged", "whole"}] /\ file'[got[c]] = "whole"
      /\ \A m \in Names \ {got[c]} : file'[m] = file[m]
  BY <1>0, <1>1, Files DEF Replace
<1>5. InstallTypeOK'  BY <1>0, <1>1, <1>2, <1>3, <1>4 DEF InstallInv, InstallTypeOK, Scans
<1>6. InstallApart(c)  BY <1>0, <1>1, <1>2, <1>3, <1>4
                         DEF InstallApart, InstallSound, Installing, Relying
<1>7. InstallSound(c)'  BY <1>0, <1>1, <1>2, <1>3, <1>4, InstallDistinct
                          DEF InstallSound, Relying, Installing
<1>8. QED  BY <1>5, <1>6, <1>7, InstallStepOf

LEMMA FailureKeeps ==
  ASSUME InstallInv, NEW c \in Clients, InstallationFails(c)
  PROVE  InstallInv'
<1>0. InstallSound(c) /\ got[c] \in Names  BY DEF InstallInv, InstallTypeOK
<1>1. /\ step[c] \in {"create", "write", "replace"} /\ lock = c /\ lock' = None
      /\ UNCHANGED <<wants, got, file, aged, scan>>
  BY <1>0 DEF InstallationFails, InstallSound, Installing
<1>2. /\ step' \in [Clients -> Steps] /\ step'[c] = "over"
      /\ \A d \in Clients \ {c} : step'[d] = step[d]
  BY InstallGoesOn DEF InstallationFails, Steps, Installing
<1>3. /\ tmp' \in [Clients -> {"none", "part", "whole"}] /\ tmp'[c] = "none"
      /\ \A d \in Clients \ {c} : tmp'[d] = tmp[d]
  BY Temporary DEF InstallationFails
<1>4. InstallTypeOK'  BY <1>0, <1>1, <1>2, <1>3 DEF InstallInv, InstallTypeOK, Scans
<1>5. InstallApart(c)  BY <1>0, <1>1, <1>2, <1>3
                         DEF InstallApart, InstallSound, Installing, Relying
<1>6. InstallSound(c)'  BY <1>0, <1>1, <1>2, <1>3, InstallDistinct
                          DEF InstallSound, Relying, Installing
<1>7. QED  BY <1>4, <1>5, <1>6, InstallStepOf

LEMMA TouchKeeps ==
  ASSUME InstallInv, NEW c \in Clients, Touch(c)
  PROVE  InstallInv'
<1>0. InstallSound(c) /\ got[c] \in Names  BY DEF InstallInv, InstallTypeOK
<1>1. /\ step[c] = "touch" /\ lock = c /\ file[got[c]] = "whole"
      /\ aged' = aged \ {got[c]} /\ UNCHANGED <<wants, got, lock, file, tmp>>
  BY <1>0 DEF Touch, InstallSound, Installing, Relying
<1>2. /\ step' \in [Clients -> Steps] /\ step'[c] = "scan"
      /\ \A d \in Clients \ {c} : step'[d] = step[d]
  BY <1>1, InstallGoesOn DEF Touch, Steps, Installing
<1>3. /\ scan' \in [Clients -> Scans] /\ scan'[c] = [left |-> Names \ {got[c]}, victim |-> None]
      /\ \A d \in Clients \ {c} : scan'[d] = scan[d]
  <2>1. scan[c] \in Scans /\ scan[c].victim = None
    BY <1>0, <1>1 DEF InstallInv, InstallTypeOK, Scans, InstallSound
  <2>2. [scan[c] EXCEPT !.left = Names \ {got[c]}]
          = [left |-> Names \ {got[c]}, victim |-> None]
    BY <2>1 DEF Scans
  <2>3. scan' = [scan EXCEPT ![c] = [scan[c] EXCEPT !.left = Names \ {got[c]}]]
    BY <1>1 DEF Touch
  <2>4. [left |-> Names \ {got[c]}, victim |-> None] \in Scans
    BY DEF Scans
  <2>5. QED  BY <2>2, <2>3, <2>4, Scanning
<1>4. InstallTypeOK'  BY <1>0, <1>1, <1>2, <1>3 DEF InstallInv, InstallTypeOK, Scans
<1>5. InstallApart(c)  BY <1>0, <1>1, <1>2, <1>3
                         DEF InstallApart, InstallSound, Installing, Relying
<1>6. InstallSound(c)'  BY <1>0, <1>1, <1>2, <1>3, InstallDistinct
                          DEF InstallSound, Relying, Installing
<1>7. QED  BY <1>4, <1>5, <1>6, InstallStepOf

LEMMA InspectKeeps ==
  ASSUME InstallInv, NEW c \in Clients, NEW n \in Names, Inspect(c, n)
  PROVE  InstallInv'
<1>0. InstallSound(c) /\ got[c] \in Names  BY DEF InstallInv, InstallTypeOK
<1>1. /\ step[c] = "scan" /\ UNCHANGED <<step, wants, got, lock, file, aged, tmp>>
  BY DEF Inspect
<1>2. PICK v \in aged \cup {None} :
        scan' = [scan EXCEPT ![c] = [left |-> scan[c].left \ {n}, victim |-> v]]
  BY DEF Inspect
<1>3. /\ scan' \in [Clients -> Scans] /\ scan'[c] = [left |-> scan[c].left \ {n}, victim |-> v]
      /\ \A d \in Clients \ {c} : scan'[d] = scan[d]
  <2>1. scan[c].left \subseteq Names /\ aged \subseteq Names
    BY DEF InstallInv, InstallTypeOK
  <2>2. [left |-> scan[c].left \ {n}, victim |-> v] \in Scans
    BY <2>1 DEF Scans
  <2>3. QED  BY <1>2, <2>2, Scanning
<1>4. InstallTypeOK'  BY <1>0, <1>1, <1>2, <1>3 DEF InstallInv, InstallTypeOK, Scans
<1>5. InstallApart(c)  BY <1>0, <1>1, <1>2, <1>3
                         DEF InstallApart, InstallSound, Installing, Relying
<1>6. InstallSound(c)'
  BY <1>0, <1>1, <1>2, <1>3 DEF InstallSound, Relying, Installing
<1>7. QED  BY <1>4, <1>5, <1>6, InstallStepOf

LEMMA ReclaimKeeps ==
  ASSUME InstallInv, NEW c \in Clients, Reclaim(c)
  PROVE  InstallInv'
<1>0. InstallSound(c) /\ got[c] \in Names  BY DEF InstallInv, InstallTypeOK
<1>1. /\ step[c] = "scan" /\ lock = c /\ scan[c].victim \in aged
      /\ scan[c].victim \in Names /\ scan[c].victim # got[c]
      /\ UNCHANGED <<step, wants, got, lock, aged, tmp>>
  <2>1. /\ step[c] = "scan" /\ scan[c].victim # None
        /\ UNCHANGED <<step, wants, got, lock, aged, tmp>>
    BY DEF Reclaim
  <2>2. aged \subseteq Names  BY DEF InstallInv, InstallTypeOK
  <2>3. QED  BY <1>0, <2>1, <2>2 DEF InstallSound, Installing, Relying
<1>2. /\ file' \in [Names -> {"none", "damaged", "whole"}] /\ file'[scan[c].victim] = "none"
      /\ \A m \in Names \ {scan[c].victim} : file'[m] = file[m]
  BY <1>1, Files DEF Reclaim
<1>3. /\ scan' \in [Clients -> Scans] /\ scan'[c] = [left |-> scan[c].left, victim |-> None]
      /\ \A d \in Clients \ {c} : scan'[d] = scan[d]
  <2>1. scan[c] \in Scans  BY DEF InstallInv, InstallTypeOK, Scans
  <2>2. [scan[c] EXCEPT !.victim = None] = [left |-> scan[c].left, victim |-> None]
    BY <2>1 DEF Scans
  <2>3. scan' = [scan EXCEPT ![c] = [scan[c] EXCEPT !.victim = None]]
    BY DEF Reclaim
  <2>4. [left |-> scan[c].left, victim |-> None] \in Scans
    BY <2>1 DEF Scans
  <2>5. QED  BY <2>2, <2>3, <2>4, Scanning
<1>4. InstallTypeOK'  BY <1>0, <1>1, <1>2, <1>3 DEF InstallInv, InstallTypeOK, Scans
<1>5. InstallApart(c)  BY <1>0, <1>1, <1>2, <1>3
                         DEF InstallApart, InstallSound, Installing, Relying
<1>6. InstallSound(c)'  BY <1>0, <1>1, <1>2, <1>3, InstallDistinct
                          DEF InstallSound, Relying, Installing
<1>7. QED  BY <1>4, <1>5, <1>6, InstallStepOf

LEMMA UnlockKeeps ==
  ASSUME InstallInv, NEW c \in Clients, Unlock(c)
  PROVE  InstallInv'
<1>0. InstallSound(c) /\ got[c] \in Names  BY DEF InstallInv, InstallTypeOK
<1>1. /\ step[c] = "scan" /\ lock = c /\ lock' = None /\ scan[c].victim = None
      /\ UNCHANGED <<wants, got, file, aged, tmp, scan>>
  BY <1>0 DEF Unlock, NoScan, InstallSound, Installing
<1>2. /\ step' \in [Clients -> Steps] /\ step'[c] = "answer"
      /\ \A d \in Clients \ {c} : step'[d] = step[d]
  BY InstallGoesOn DEF Unlock, Steps, Installing
<1>3. InstallTypeOK'  BY <1>0, <1>1, <1>2 DEF InstallInv, InstallTypeOK, Scans
<1>4. InstallApart(c)  BY <1>0, <1>1, <1>2
                         DEF InstallApart, InstallSound, Installing, Relying
<1>5. InstallSound(c)'  BY <1>0, <1>1, <1>2, InstallDistinct
                          DEF InstallSound, Relying, Installing
<1>6. QED  BY <1>3, <1>4, <1>5, InstallStepOf

LEMMA AnswerKeeps ==
  ASSUME InstallInv, NEW c \in Clients, Answer(c)
  PROVE  InstallInv'
<1>0. InstallSound(c) /\ got[c] \in Names  BY DEF InstallInv, InstallTypeOK
<1>1. PICK s \in {"using", "over"} : (s = "using" => got[c] = wants[c]) /\ GoOn(c, s)
  BY DEF Answer
<1>2. step[c] = "answer" /\ UNCHANGED <<wants, got, lock, file, aged, tmp, scan>>
  BY DEF Answer
<1>3. /\ step' \in [Clients -> Steps] /\ step'[c] = s
      /\ \A d \in Clients \ {c} : step'[d] = step[d]
  BY <1>1, InstallGoesOn DEF Steps
<1>4. InstallTypeOK'  BY <1>0, <1>1, <1>2, <1>3 DEF InstallInv, InstallTypeOK, Scans
<1>5. InstallApart(c)  BY <1>0, <1>1, <1>2, <1>3
                         DEF InstallApart, InstallSound, Installing, Relying
<1>6. InstallSound(c)'  BY <1>0, <1>1, <1>2, <1>3, InstallDistinct
                          DEF InstallSound, Relying, Installing
<1>7. QED  BY <1>4, <1>5, <1>6, InstallStepOf

LEMMA EndUseKeeps ==
  ASSUME InstallInv, NEW c \in Clients, EndUse(c)
  PROVE  InstallInv'
<1>0. InstallSound(c) /\ got[c] \in Names  BY DEF InstallInv, InstallTypeOK
<1>1. step[c] \in {"using", "over"} /\ UNCHANGED <<lock, file, aged, tmp, scan>>
  BY DEF EndUse
<1>2. /\ step' \in [Clients -> Steps] /\ step'[c] = "idle"
      /\ \A d \in Clients \ {c} : step'[d] = step[d]
  BY InstallGoesOn DEF EndUse, Steps, Installing
<1>3. /\ wants' \in [Clients -> Names] /\ got' \in [Clients -> Names]
      /\ \A d \in Clients \ {c} : wants'[d] = wants[d] /\ got'[d] = got[d]
  BY Bundles, InstallDistinct DEF EndUse
<1>4. InstallTypeOK'  BY <1>0, <1>1, <1>2, <1>3 DEF InstallInv, InstallTypeOK, Scans
<1>5. InstallApart(c)  BY <1>0, <1>1, <1>2, <1>3
                         DEF InstallApart, InstallSound, Installing, Relying
<1>6. InstallSound(c)'  BY <1>0, <1>1, <1>2, <1>3, InstallDistinct
                          DEF InstallSound, Relying, Installing
<1>7. QED  BY <1>4, <1>5, <1>6, InstallStepOf

LEMMA KilledKeeps ==
  ASSUME InstallInv, NEW c \in Clients, Killed(c)
  PROVE  InstallInv'
<1>0. InstallSound(c) /\ got[c] \in Names  BY DEF InstallInv, InstallTypeOK
<1>1. /\ lock' = (IF lock = c THEN None ELSE lock) /\ UNCHANGED <<wants, got, file, aged>>
  BY DEF Killed
<1>2. /\ step' \in [Clients -> Steps] /\ step'[c] = "over"
      /\ \A d \in Clients \ {c} : step'[d] = step[d]
  BY InstallGoesOn DEF Killed, Steps, Installing
<1>3. /\ tmp' \in [Clients -> {"none", "part", "whole"}] /\ tmp'[c] = "none"
      /\ \A d \in Clients \ {c} : tmp'[d] = tmp[d]
  BY Temporary DEF Killed
<1>4. /\ scan' \in [Clients -> Scans] /\ scan'[c] = NoScan
      /\ \A d \in Clients \ {c} : scan'[d] = scan[d]
  <2>1. NoScan \in Scans  BY DEF NoScan, Scans
  <2>2. QED  BY <2>1, Scanning DEF Killed
<1>5. NoScan.victim = None
  BY DEF NoScan
<1>6. InstallTypeOK'  BY <1>0, <1>1, <1>2, <1>3, <1>4, <1>5
                        DEF InstallInv, InstallTypeOK, Scans
<1>7. InstallApart(c)  BY <1>0, <1>1, <1>2, <1>3, <1>4, <1>5
                         DEF InstallApart, InstallSound, Installing, Relying
<1>8. InstallSound(c)'  BY <1>0, <1>1, <1>2, <1>3, <1>4, <1>5, InstallDistinct
                          DEF InstallSound, Relying, Installing
<1>9. QED  BY <1>6, <1>7, <1>8, InstallStepOf

\* Time passes, and files are damaged, only where nobody relies on them.
LEMMA WorldKeeps ==
  ASSUME InstallInv, NEW n \in Names, DayPasses(n) \/ Damage(n)
  PROVE  InstallInv'
<1>1. /\ UNCHANGED <<step, wants, got, lock, tmp, scan>> /\ Unused(n)
      /\ aged \subseteq aged' /\ aged' \subseteq aged \cup {n}
  BY DEF DayPasses, Damage
<1>2. /\ file' \in [Names -> {"none", "damaged", "whole"}]
      /\ \A m \in Names \ {n} : file'[m] = file[m]
  <2>1. CASE DayPasses(n)
    BY <2>1 DEF DayPasses, InstallInv, InstallTypeOK
  <2>2. CASE Damage(n)
    BY <2>2, Files DEF Damage
  <2>3. QED  BY <2>1, <2>2
<1>3. InstallTypeOK'
  BY <1>1, <1>2 DEF InstallInv, InstallTypeOK
<1>4. ASSUME NEW c \in Clients PROVE InstallSound(c)'
  <2>1. InstallSound(c) /\ got[c] \in Names  BY DEF InstallInv, InstallTypeOK
  <2>2. step[c] \in Relying => got[c] # n
    BY <1>1 DEF Unused, Relying
  <2>3. QED  BY <1>1, <1>2, <2>1, <2>2 DEF InstallSound, Relying
<1>5. QED  BY <1>3, <1>4 DEF InstallInv

----------------------------------------------------------------------------
LEMMA InitInstalled == InstallInit => InstallInv
<1> SUFFICES ASSUME InstallInit PROVE InstallInv
  OBVIOUS
<1>1. NoScan \in Scans /\ NoScan.victim = None  BY DEF NoScan, Scans
<1>2. InstallTypeOK
  BY <1>1, InstallDistinct DEF InstallInit, InstallTypeOK, Scans, Steps
<1>3. ASSUME NEW c \in Clients PROVE InstallSound(c)
  BY <1>1 DEF InstallInit, InstallSound, Relying, Installing
<1>4. QED  BY <1>2, <1>3 DEF InstallInv

LEMMA StepInstalled == InstallInv /\ [InstallNext]_installVars => InstallInv'
<1> SUFFICES ASSUME InstallInv, [InstallNext]_installVars PROVE InstallInv'
  OBVIOUS
<1>1. CASE UNCHANGED installVars
  <2>1. InstallTypeOK'  BY <1>1 DEF installVars, InstallInv, InstallTypeOK
  <2>2. ASSUME NEW c \in Clients PROVE InstallSound(c)'
    BY <1>1 DEF installVars, InstallInv, InstallSound
  <2>3. QED  BY <2>1, <2>2 DEF InstallInv
<1>2. ASSUME NEW c \in Clients, Install(c) PROVE InstallInv'
  BY <1>2, LockKeeps, CheckKeeps, WriteKeeps, ReplaceKeeps, FailureKeeps, TouchKeeps,
     InspectKeeps, ReclaimKeeps, UnlockKeeps, AnswerKeeps DEF Install
<1>3. QED
  BY <1>1, <1>2, UploadKeeps, EndUseKeeps, KilledKeeps, WorldKeeps DEF InstallNext

LEMMA AlwaysInstalled == InstallSpec => []InstallInv
<1>1. QED  BY InitInstalled, StepInstalled, PTL DEF InstallSpec

----------------------------------------------------------------------------
\* Whoever accepted DEPLOYED has the whole helper of its own bundle while it
\* uses it, however many clients install, reclaim and are killed meanwhile.
THEOREM UsedHelperIsWhole == InstallSpec => []DeployedIsWhole
<1>1. ASSUME InstallInv, NEW c \in Clients, step[c] = "using"
      PROVE  file[wants[c]] = "whole"
  BY <1>1 DEF InstallInv, InstallSound, Relying
<1>2. InstallInv => DeployedIsWhole
  BY <1>1 DEF DeployedIsWhole
<1>3. QED  BY <1>2, AlwaysInstalled, PTL

----------------------------------------------------------------------------
\* The lease of an address.

Holding == {"probe", "roll back", "settle", "listen", "serve", "end"}

\* A session holds the lease of its address from the bind of the name to its
\* end, and no other; it binds ports under its lease only; and its probes are
\* closed when OpenOCD is to listen.
LeaseSound(c) ==
  /\ at[c] \in Holding \cup {"lease"} => address[c] \in Addresses
  /\ at[c] \in Holding => lease[address[c]] = c
  /\ \A a \in Addresses : lease[a] = c => address[c] = a /\ at[c] \in Holding
  /\ \A a \in Addresses, p \in Ports :
       port[a][p] = c => lease[a] = c /\ at[c] # "listen"

LeaseInv == LeaseTypeOK /\ \A c \in Clients : LeaseSound(c)

LeaseApart(c) ==
  /\ \A d \in Clients \ {c} : at'[d] = at[d] /\ address'[d] = address[d]
  /\ \A a \in Addresses : lease'[a] = lease[a] \/ {lease[a], lease'[a]} \subseteq {c, None}
  /\ \A a \in Addresses, p \in Ports :
       port'[a][p] = port[a][p] \/ {port[a][p], port'[a][p]} \subseteq {c, None, Foreign}

PortMaps == [Addresses -> [Ports -> Clients \cup {None, Foreign}]]

----------------------------------------------------------------------------
LEMMA LeaseDistinct ==
  /\ None \notin Clients \cup Addresses /\ Foreign \notin Clients /\ Foreign # None
  /\ MaxAttempts \in Nat
BY ClientsAssumption, LeaseConstants

LEMMA OthersLeaseSound ==
  ASSUME LeaseInv, NEW c, LeaseApart(c), NEW d \in Clients \ {c}
  PROVE  LeaseSound(d)'
<1>1. LeaseSound(d) /\ at'[d] = at[d] /\ address'[d] = address[d]
  BY DEF LeaseInv, LeaseApart
<1>2. \A a \in Addresses : lease'[a] = d <=> lease[a] = d
  BY LeaseDistinct DEF LeaseApart
<1>3. \A a \in Addresses, p \in Ports : port'[a][p] = d <=> port[a][p] = d
  BY LeaseDistinct DEF LeaseApart
<1>4. QED  BY <1>1, <1>2, <1>3 DEF LeaseSound, Holding

LEMMA LeaseStepOf ==
  ASSUME LeaseInv, NEW c \in Clients, LeaseTypeOK', LeaseApart(c), LeaseSound(c)'
  PROVE  LeaseInv'
BY OthersLeaseSound DEF LeaseInv

\* The variables one by one

LEMMA Goes ==
  ASSUME LeaseInv, NEW c \in Clients, NEW s \in Stages, Goto(c, s)
  PROVE  /\ at' \in [Clients -> Stages] /\ at'[c] = s
         /\ \A d \in Clients \ {c} : at'[d] = at[d]
<1>1. at \in [Clients -> Stages] /\ at' = [at EXCEPT ![c] = s]
  BY DEF Goto, LeaseInv, LeaseTypeOK
<1>2. QED  BY <1>1

LEMMA Aims ==
  ASSUME LeaseInv, NEW c \in Clients, NEW a \in Addresses \cup {None},
         address' = [address EXCEPT ![c] = a]
  PROVE  /\ address' \in [Clients -> Addresses \cup {None}] /\ address'[c] = a
         /\ \A d \in Clients \ {c} : address'[d] = address[d]
<1>1. address \in [Clients -> Addresses \cup {None}]  BY DEF LeaseInv, LeaseTypeOK
<1>2. QED  BY <1>1

LEMMA Leases ==
  ASSUME LeaseInv, NEW a \in Addresses, NEW o \in Clients \cup {None},
         lease' = [lease EXCEPT ![a] = o]
  PROVE  /\ lease' \in [Addresses -> Clients \cup {None}] /\ lease'[a] = o
         /\ \A b \in Addresses \ {a} : lease'[b] = lease[b]
<1>1. lease \in [Addresses -> Clients \cup {None}]  BY DEF LeaseInv, LeaseTypeOK
<1>2. QED  BY <1>1

LEMMA Frees ==
  ASSUME LeaseInv, NEW c \in Clients, lease' = Freed(c)
  PROVE  /\ lease' \in [Addresses -> Clients \cup {None}]
         /\ \A b \in Addresses : lease'[b] = IF lease[b] = c THEN None ELSE lease[b]
<1>1. lease \in [Addresses -> Clients \cup {None}]  BY DEF LeaseInv, LeaseTypeOK
<1>2. QED  BY <1>1 DEF Freed

LEMMA Closes ==
  ASSUME LeaseInv, NEW c \in Clients, port' \in {Closed(c), Orphaned(c)}
  PROVE  /\ port' \in PortMaps
         /\ \A a \in Addresses, p \in Ports :
              IF port[a][p] = c THEN port'[a][p] \in {None, Foreign}
                                ELSE port'[a][p] = port[a][p]
<1>1. port \in PortMaps  BY DEF LeaseInv, LeaseTypeOK, PortMaps
<1>2. CASE port' = Closed(c)  BY <1>1, <1>2 DEF Closed, PortMaps
<1>3. CASE port' = Orphaned(c)  BY <1>1, <1>3 DEF Orphaned, PortMaps
<1>4. QED  BY <1>2, <1>3

LEMMA Draws ==
  ASSUME LeaseInv, NEW c \in Clients,
         \/ UNCHANGED tries
         \/ tries' = [tries EXCEPT ![c] = 0]
         \/ tries[c] # MaxAttempts /\ tries' = [tries EXCEPT ![c] = @ + 1]
  PROVE  tries' \in [Clients -> 0 .. MaxAttempts]
<1>1. tries \in [Clients -> 0 .. MaxAttempts]  BY DEF LeaseInv, LeaseTypeOK
<1>2. CASE tries' = [tries EXCEPT ![c] = 0]
  BY <1>1, <1>2, LeaseDistinct
<1>3. CASE tries[c] # MaxAttempts /\ tries' = [tries EXCEPT ![c] = @ + 1]
  <2>1. tries[c] \in 0 .. MaxAttempts  BY <1>1
  <2>2. tries[c] + 1 \in 0 .. MaxAttempts  BY LeaseDistinct, <1>3, <2>1
  <2>3. QED  BY <1>1, <1>3, <2>2
<1>4. QED  BY <1>1, <1>2, <1>3

----------------------------------------------------------------------------
\* The steps

LEMMA LaunchKeeps ==
  ASSUME LeaseInv, NEW c \in Clients, Launch(c)
  PROVE  LeaseInv'
<1>1. PICK a \in Addresses \cup {None} :
        /\ address' = [address EXCEPT ![c] = a]
        /\ Goto(c, IF a = None THEN "draw" ELSE "lease")
  BY DEF Launch, LeaseInv, LeaseTypeOK
<1>2. at[c] = "launch" /\ UNCHANGED <<cache, tries, lease, port>>
  BY DEF Launch
<1>3. /\ at' \in [Clients -> Stages] /\ at'[c] = IF a = None THEN "draw" ELSE "lease"
      /\ \A d \in Clients \ {c} : at'[d] = at[d]
  BY <1>1, Goes DEF Stages
<1>4. /\ address' \in [Clients -> Addresses \cup {None}] /\ address'[c] = a
      /\ \A d \in Clients \ {c} : address'[d] = address[d]
  BY <1>1, Aims
<1>5. LeaseTypeOK'  BY <1>1, <1>2, <1>3, <1>4 DEF LeaseInv, LeaseTypeOK, PortMaps
<1>6. LeaseApart(c)  BY <1>1, <1>2, <1>3, <1>4 DEF LeaseApart
<1>7. LeaseSound(c)  BY DEF LeaseInv
<1>8. LeaseSound(c)'  BY <1>1, <1>2, <1>3, <1>4, <1>7, LeaseDistinct
                        DEF LeaseSound, Holding
<1>9. QED  BY <1>5, <1>6, <1>8, LeaseStepOf

LEMMA DrawKeeps ==
  ASSUME LeaseInv, NEW c \in Clients, Draw(c)
  PROVE  LeaseInv'
<1>1. PICK a \in Addresses \cup {None} :
        /\ address' = [address EXCEPT ![c] = a]
        /\ Goto(c, IF a = None THEN "over" ELSE "lease")
  BY LeaseDistinct DEF Draw
<1>2. at[c] = "draw" /\ UNCHANGED <<cache, lease, port>>
  BY DEF Draw
<1>3. tries' \in [Clients -> 0 .. MaxAttempts]
  BY Draws DEF Draw
<1>4. /\ at' \in [Clients -> Stages] /\ at'[c] = IF a = None THEN "over" ELSE "lease"
      /\ \A d \in Clients \ {c} : at'[d] = at[d]
  BY <1>1, Goes DEF Stages
<1>5. /\ address' \in [Clients -> Addresses \cup {None}] /\ address'[c] = a
      /\ \A d \in Clients \ {c} : address'[d] = address[d]
  BY <1>1, Aims
<1>6. LeaseTypeOK'  BY <1>1, <1>2, <1>3, <1>4, <1>5 DEF LeaseInv, LeaseTypeOK, PortMaps
<1>7. LeaseApart(c)  BY <1>1, <1>2, <1>3, <1>4, <1>5 DEF LeaseApart
<1>8. LeaseSound(c)  BY DEF LeaseInv
<1>9. LeaseSound(c)'  BY <1>1, <1>2, <1>3, <1>4, <1>5, <1>8, LeaseDistinct
                        DEF LeaseSound, Holding
<1>10. QED  BY <1>6, <1>7, <1>9, LeaseStepOf

\* The name is taken; the probes are bound, or one is taken; a port is taken from
\* OpenOCD, or the address is remembered.
LEMMA LeaseGoesOn ==
  ASSUME LeaseInv, NEW c \in Clients, NEW s \in Stages, Goto(c, s),
         \/ at[c] = "lease" /\ s = "draw"
         \/ at[c] = "probe" /\ s \in {"settle", "roll back"}
         \/ at[c] \in {"listen", "serve"} /\ s = "end",
         cache' \in {cache, address[c]}, UNCHANGED <<address, tries, lease, port>>
  PROVE  LeaseInv'
<1>1. /\ at' \in [Clients -> Stages] /\ at'[c] = s
      /\ \A d \in Clients \ {c} : at'[d] = at[d]
  BY Goes
<1>2. cache' \in Addresses \cup {None}
  BY DEF LeaseInv, LeaseTypeOK
<1>3. UNCHANGED <<address, tries, lease, port>>
  OBVIOUS
<1>4. \/ at[c] = "lease" /\ s = "draw"
      \/ at[c] = "probe" /\ s \in {"settle", "roll back"}
      \/ at[c] \in {"listen", "serve"} /\ s = "end"
  OBVIOUS
<1>5. LeaseTypeOK'  BY <1>1, <1>2, <1>3, <1>4 DEF LeaseInv, LeaseTypeOK, PortMaps
<1>6. LeaseApart(c)  BY <1>1, <1>2, <1>3, <1>4 DEF LeaseApart
<1>7. LeaseSound(c)  BY DEF LeaseInv
<1>8. LeaseSound(c)'  BY <1>1, <1>2, <1>3, <1>4, <1>7, LeaseDistinct
                        DEF LeaseSound, Holding
<1>9. QED  BY <1>5, <1>6, <1>8, LeaseStepOf

LEMMA NameFails ==
  ASSUME LeaseInv, NEW c \in Clients, at[c] = "lease", Goto(c, "over"),
         address' = [address EXCEPT ![c] = None], UNCHANGED <<cache, tries, lease, port>>
  PROVE  LeaseInv'
<1>1. /\ at' \in [Clients -> Stages] /\ at'[c] = "over"
      /\ \A d \in Clients \ {c} : at'[d] = at[d]
  BY Goes DEF Stages
<1>2. /\ address' \in [Clients -> Addresses \cup {None}] /\ address'[c] = None
      /\ \A d \in Clients \ {c} : address'[d] = address[d]
  BY Aims
<1>3. LeaseTypeOK'  BY <1>1, <1>2 DEF LeaseInv, LeaseTypeOK, PortMaps
<1>4. LeaseApart(c)  BY <1>1, <1>2 DEF LeaseApart
<1>5. LeaseSound(c)  BY DEF LeaseInv
<1>6. LeaseSound(c)'  BY <1>1, <1>2, <1>5, LeaseDistinct DEF LeaseSound, Holding
<1>7. QED  BY <1>3, <1>4, <1>6, LeaseStepOf

LEMMA NameBound ==
  ASSUME LeaseInv, NEW c \in Clients, at[c] = "lease", lease[address[c]] = None,
         lease' = [lease EXCEPT ![address[c]] = c], Goto(c, "probe"),
         UNCHANGED <<cache, address, tries, port>>
  PROVE  LeaseInv'
<1>1. address[c] \in Addresses
  BY DEF LeaseInv, LeaseSound
<1>2. /\ at' \in [Clients -> Stages] /\ at'[c] = "probe"
      /\ \A d \in Clients \ {c} : at'[d] = at[d]
  BY Goes DEF Stages
<1>3. /\ lease' \in [Addresses -> Clients \cup {None}] /\ lease'[address[c]] = c
      /\ \A b \in Addresses \ {address[c]} : lease'[b] = lease[b]
  BY <1>1, Leases
<1>4. LeaseTypeOK'  BY <1>1, <1>2, <1>3 DEF LeaseInv, LeaseTypeOK, PortMaps
<1>5. LeaseApart(c)  BY <1>1, <1>2, <1>3 DEF LeaseApart
<1>6. LeaseSound(c)  BY DEF LeaseInv
<1>7. LeaseSound(c)'  BY <1>1, <1>2, <1>3, <1>6, LeaseDistinct DEF LeaseSound, Holding
<1>8. QED  BY <1>4, <1>5, <1>7, LeaseStepOf

LEMMA LeaseKeeps ==
  ASSUME LeaseInv, NEW c \in Clients, Lease(c)
  PROVE  LeaseInv'
BY LeaseGoesOn, NameFails, NameBound DEF Lease, Stages

LEMMA ProbeBinds ==
  ASSUME LeaseInv, NEW c \in Clients, NEW q \in Ports, at[c] = "probe",
         port[address[c]][q] = None, port' = [port EXCEPT ![address[c]][q] = c],
         UNCHANGED <<at, cache, address, tries, lease>>
  PROVE  LeaseInv'
<1>1. address[c] \in Addresses /\ lease[address[c]] = c
  BY DEF LeaseInv, LeaseSound, Holding
<1>2. /\ port' \in PortMaps
      /\ \A a \in Addresses, p \in Ports :
           port'[a][p] = IF a = address[c] /\ p = q THEN c ELSE port[a][p]
  <2>1. port \in PortMaps  BY DEF LeaseInv, LeaseTypeOK, PortMaps
  <2>2. QED  BY <1>1, <2>1 DEF PortMaps
<1>3. LeaseTypeOK'  BY <1>1, <1>2 DEF LeaseInv, LeaseTypeOK, PortMaps
<1>4. LeaseApart(c)  BY <1>1, <1>2 DEF LeaseApart
<1>5. LeaseSound(c)  BY DEF LeaseInv
<1>6. LeaseSound(c)'
  <2>1. \A a \in Addresses, p \in Ports : port'[a][p] = c => lease[a] = c
    BY <1>1, <1>2, <1>5 DEF LeaseSound
  <2>2. QED  BY <1>1, <2>1, <1>5 DEF LeaseSound, Holding
<1>7. QED  BY <1>3, <1>4, <1>6, LeaseStepOf

LEMMA ProbeKeeps ==
  ASSUME LeaseInv, NEW c \in Clients, Probe(c)
  PROVE  LeaseInv'
<1> DEFINE q == Cardinality(Bound(c, address[c])) + 1
<1>1. /\ at[c] = "probe" /\ UNCHANGED <<cache, address, tries, lease>>
      /\ \/ Goto(c, "settle") /\ UNCHANGED port
         \/ Goto(c, "roll back") /\ UNCHANGED port
         \/ /\ q \in Ports /\ port[address[c]][q] = None /\ UNCHANGED at
            /\ port' = [port EXCEPT ![address[c]][q] = c]
  BY DEF Probe
<1> HIDE DEF q
<1>2. QED  BY <1>1, ProbeBinds, LeaseGoesOn DEF Stages

LEMMA RollsBack ==
  ASSUME LeaseInv, NEW c \in Clients, at[c] = "roll back", port' = Closed(c),
         lease' = [lease EXCEPT ![address[c]] = None], Goto(c, "draw"),
         UNCHANGED <<cache, address, tries>>
  PROVE  LeaseInv'
<1>1. address[c] \in Addresses /\ lease[address[c]] = c
  BY DEF LeaseInv, LeaseSound, Holding
<1>2. /\ at' \in [Clients -> Stages] /\ at'[c] = "draw"
      /\ \A d \in Clients \ {c} : at'[d] = at[d]
  BY Goes DEF Stages
<1>3. /\ lease' \in [Addresses -> Clients \cup {None}] /\ lease'[address[c]] = None
      /\ \A b \in Addresses \ {address[c]} : lease'[b] = lease[b]
  BY <1>1, Leases
<1>4. /\ port' \in PortMaps
      /\ \A a \in Addresses, p \in Ports :
           IF port[a][p] = c THEN port'[a][p] \in {None, Foreign}
                             ELSE port'[a][p] = port[a][p]
  BY Closes
<1>5. LeaseTypeOK'  BY <1>1, <1>2, <1>3, <1>4 DEF LeaseInv, LeaseTypeOK, PortMaps
<1>6. LeaseApart(c)
  <2>1. \A d \in Clients \ {c} : at'[d] = at[d] /\ address'[d] = address[d]
    BY <1>2
  <2>2. \A a \in Addresses :
          lease'[a] = lease[a] \/ {lease[a], lease'[a]} \subseteq {c, None}
    BY <1>1, <1>3
  <2>3. \A a \in Addresses, p \in Ports :
          \/ port'[a][p] = port[a][p]
          \/ {port[a][p], port'[a][p]} \subseteq {c, None, Foreign}
    BY <1>4
  <2>4. QED  BY <2>1, <2>2, <2>3 DEF LeaseApart
<1>7. LeaseSound(c)  BY DEF LeaseInv
<1>8. LeaseSound(c)'
  <2>1. \A a \in Addresses : lease'[a] # c
    BY <1>1, <1>3, <1>7, LeaseDistinct DEF LeaseSound
  <2>2. \A a \in Addresses, p \in Ports : port'[a][p] # c
    BY <1>4, LeaseDistinct
  <2>3. QED  BY <1>2, <2>1, <2>2 DEF LeaseSound, Holding
<1>9. QED  BY <1>5, <1>6, <1>8, LeaseStepOf

\* The close of a failed candidate, or of the probes, fails.
LEMMA GivesUp ==
  ASSUME LeaseInv, NEW c \in Clients, at[c] \in {"roll back", "settle"}, port' = Closed(c),
         lease' = [lease EXCEPT ![address[c]] = None], Goto(c, "over"),
         address' = [address EXCEPT ![c] = None], UNCHANGED <<cache, tries>>
  PROVE  LeaseInv'
<1>1. address[c] \in Addresses /\ lease[address[c]] = c
  BY DEF LeaseInv, LeaseSound, Holding
<1>2. /\ at' \in [Clients -> Stages] /\ at'[c] = "over"
      /\ \A d \in Clients \ {c} : at'[d] = at[d]
  BY Goes DEF Stages
<1>3. /\ lease' \in [Addresses -> Clients \cup {None}] /\ lease'[address[c]] = None
      /\ \A b \in Addresses \ {address[c]} : lease'[b] = lease[b]
  BY <1>1, Leases
<1>4. /\ port' \in PortMaps
      /\ \A a \in Addresses, p \in Ports :
           IF port[a][p] = c THEN port'[a][p] \in {None, Foreign}
                             ELSE port'[a][p] = port[a][p]
  BY Closes
<1>5. /\ address' \in [Clients -> Addresses \cup {None}] /\ address'[c] = None
      /\ \A d \in Clients \ {c} : address'[d] = address[d]
  BY Aims
<1>6. LeaseTypeOK'  BY <1>1, <1>2, <1>3, <1>4, <1>5 DEF LeaseInv, LeaseTypeOK, PortMaps
<1>7. LeaseApart(c)
  <2>1. \A a \in Addresses : lease'[a] = lease[a] \/ {lease[a], lease'[a]} \subseteq {c, None}
    BY <1>1, <1>3
  <2>2. \A a \in Addresses, p \in Ports :
          port'[a][p] = port[a][p] \/ {port[a][p], port'[a][p]} \subseteq {c, None, Foreign}
    BY <1>4
  <2>3. QED  BY <1>2, <1>5, <2>1, <2>2 DEF LeaseApart
<1>8. LeaseSound(c)  BY DEF LeaseInv
<1>9. LeaseSound(c)'
  <2>1. \A a \in Addresses : lease'[a] # c
    BY <1>1, <1>3, <1>8, LeaseDistinct DEF LeaseSound
  <2>2. \A a \in Addresses, p \in Ports : port'[a][p] # c
    BY <1>4, LeaseDistinct
  <2>3. QED  BY <1>2, <2>1, <2>2 DEF LeaseSound, Holding
<1>10. QED  BY <1>6, <1>7, <1>9, LeaseStepOf

LEMMA HandsOver ==
  ASSUME LeaseInv, NEW c \in Clients, at[c] = "settle", port' = Closed(c), Goto(c, "listen"),
         UNCHANGED <<cache, address, tries, lease>>
  PROVE  LeaseInv'
<1>1. /\ at' \in [Clients -> Stages] /\ at'[c] = "listen"
      /\ \A d \in Clients \ {c} : at'[d] = at[d]
  BY Goes DEF Stages
<1>2. /\ port' \in PortMaps
      /\ \A a \in Addresses, p \in Ports :
           IF port[a][p] = c THEN port'[a][p] \in {None, Foreign}
                             ELSE port'[a][p] = port[a][p]
  BY Closes
<1>3. LeaseTypeOK'  BY <1>1, <1>2 DEF LeaseInv, LeaseTypeOK, PortMaps
<1>4. LeaseApart(c)  BY <1>1, <1>2 DEF LeaseApart
<1>5. LeaseSound(c)  BY DEF LeaseInv
<1>6. LeaseSound(c)'  BY <1>1, <1>2, <1>5, LeaseDistinct DEF LeaseSound, Holding
<1>7. QED  BY <1>3, <1>4, <1>6, LeaseStepOf

LEMMA RollBackKeeps ==
  ASSUME LeaseInv, NEW c \in Clients, RollBack(c)
  PROVE  LeaseInv'
BY RollsBack, GivesUp DEF RollBack

LEMMA SettleKeeps ==
  ASSUME LeaseInv, NEW c \in Clients, Settle(c)
  PROVE  LeaseInv'
BY HandsOver, GivesUp DEF Settle

LEMMA Listens ==
  ASSUME LeaseInv, NEW c \in Clients, at[c] = "listen", Goto(c, "serve"),
         port' = [port EXCEPT ![address[c]] = [p \in Ports |-> c]],
         \A p \in Ports : port[address[c]][p] = None,
         UNCHANGED <<cache, address, tries, lease>>
  PROVE  LeaseInv'
<1>1. address[c] \in Addresses /\ lease[address[c]] = c
  BY DEF LeaseInv, LeaseSound, Holding
<1>2. /\ port' \in PortMaps
      /\ \A a \in Addresses, p \in Ports :
           port'[a][p] = IF a = address[c] THEN c ELSE port[a][p]
  <2>1. port \in PortMaps  BY DEF LeaseInv, LeaseTypeOK, PortMaps
  <2>2. QED  BY <1>1, <2>1 DEF PortMaps
<1>3. /\ at' \in [Clients -> Stages] /\ at'[c] = "serve"
      /\ \A d \in Clients \ {c} : at'[d] = at[d]
  BY Goes DEF Stages
<1>4. \A p \in Ports : port[address[c]][p] = None
  OBVIOUS
<1>5. LeaseTypeOK'  BY <1>1, <1>2, <1>3, <1>4 DEF LeaseInv, LeaseTypeOK, PortMaps
<1>6. LeaseApart(c)  BY <1>1, <1>2, <1>3, <1>4 DEF LeaseApart
<1>7. LeaseSound(c)  BY DEF LeaseInv
<1>8. LeaseSound(c)'
  <2>1. \A a \in Addresses, p \in Ports : port'[a][p] = c => lease[a] = c
    BY <1>1, <1>2, <1>7 DEF LeaseSound
  <2>2. QED  BY <1>1, <1>3, <2>1, <1>7 DEF LeaseSound, Holding
<1>9. QED  BY <1>5, <1>6, <1>8, LeaseStepOf

LEMMA ListenKeeps ==
  ASSUME LeaseInv, NEW c \in Clients, Listen(c)
  PROVE  LeaseInv'
BY Listens, LeaseGoesOn DEF Listen, Stages

LEMMA RememberKeeps ==
  ASSUME LeaseInv, NEW c \in Clients, Remember(c)
  PROVE  LeaseInv'
BY LeaseGoesOn DEF Remember, Stages

\* A session that ends or is killed has no lease and no port any more.
LEMMA Ends ==
  ASSUME LeaseInv, NEW c \in Clients, Goto(c, "over"), lease' = Freed(c),
         port' \in {Closed(c), Orphaned(c)}, address' = [address EXCEPT ![c] = None],
         UNCHANGED <<cache, tries>>
  PROVE  LeaseInv'
<1>1. /\ at' \in [Clients -> Stages] /\ at'[c] = "over"
      /\ \A d \in Clients \ {c} : at'[d] = at[d]
  BY Goes DEF Stages
<1>2. /\ lease' \in [Addresses -> Clients \cup {None}]
      /\ \A b \in Addresses : lease'[b] = IF lease[b] = c THEN None ELSE lease[b]
  BY Frees
<1>3. /\ port' \in PortMaps
      /\ \A a \in Addresses, p \in Ports :
           IF port[a][p] = c THEN port'[a][p] \in {None, Foreign}
                             ELSE port'[a][p] = port[a][p]
  BY Closes
<1>4. /\ address' \in [Clients -> Addresses \cup {None}] /\ address'[c] = None
      /\ \A d \in Clients \ {c} : address'[d] = address[d]
  BY Aims
<1>5. LeaseTypeOK'  BY <1>1, <1>2, <1>3, <1>4 DEF LeaseInv, LeaseTypeOK, PortMaps
<1>6. LeaseApart(c)  BY <1>1, <1>2, <1>3, <1>4 DEF LeaseApart
<1>7. LeaseSound(c)  BY DEF LeaseInv
<1>8. LeaseSound(c)'
  <2>1. \A a \in Addresses : lease'[a] # c
    BY <1>2, LeaseDistinct
  <2>2. \A a \in Addresses, p \in Ports : port'[a][p] # c
    BY <1>3, LeaseDistinct
  <2>3. QED  BY <1>1, <2>1, <2>2 DEF LeaseSound, Holding
<1>9. QED  BY <1>5, <1>6, <1>8, LeaseStepOf

LEMMA NextSessionKeeps ==
  ASSUME LeaseInv, NEW c \in Clients, NextSession(c)
  PROVE  LeaseInv'
<1>1. at[c] = "over" /\ UNCHANGED <<cache, address, lease, port>>
  BY DEF NextSession
<1>2. /\ at' \in [Clients -> Stages] /\ at'[c] = "launch"
      /\ \A d \in Clients \ {c} : at'[d] = at[d]
  BY Goes DEF NextSession, Stages
<1>3. tries' \in [Clients -> 0 .. MaxAttempts]
  BY Draws DEF NextSession
<1>4. LeaseTypeOK'  BY <1>1, <1>2, <1>3 DEF LeaseInv, LeaseTypeOK, PortMaps
<1>5. LeaseApart(c)  BY <1>1, <1>2, <1>3 DEF LeaseApart
<1>6. LeaseSound(c)  BY DEF LeaseInv
<1>7. LeaseSound(c)'  BY <1>1, <1>2, <1>3, <1>6, LeaseDistinct DEF LeaseSound, Holding
<1>8. QED  BY <1>4, <1>5, <1>7, LeaseStepOf

LEMMA OthersClosePorts ==
  ASSUME LeaseInv, NEW b \in Addresses, OthersClose(b)
  PROVE  /\ port' \in PortMaps
         /\ \A a \in Addresses, p \in Ports :
              port'[a][p] = port[a][p] \/ {port[a][p], port'[a][p]} \subseteq {None, Foreign}
<1> DEFINE f == [p \in Ports |-> IF port[b][p] = Foreign THEN None ELSE port[b][p]]
<1>1. port \in PortMaps  BY DEF LeaseInv, LeaseTypeOK, PortMaps
<1>2. port' = [port EXCEPT ![b] = f]  BY DEF OthersClose
<1>3. /\ f \in [Ports -> Clients \cup {None, Foreign}]
      /\ \A p \in Ports : 
           f[p] = IF port[b][p] = Foreign THEN None ELSE port[b][p]
  <2>1. port[b] \in [Ports -> Clients \cup {None, Foreign}]  BY <1>1 DEF PortMaps
  <2>2. \A p \in Ports : f[p] = IF port[b][p] = Foreign THEN None ELSE port[b][p]
    OBVIOUS
  <2>3. \A p \in Ports : f[p] \in Clients \cup {None, Foreign}
    BY <2>1, <2>2
  <2>4. f \in [Ports -> Clients \cup {None, Foreign}]
    BY <2>3
  <2> HIDE DEF f
  <2>5. QED  BY <2>2, <2>4, Zenon
<1> HIDE DEF f
<1>4. QED  BY <1>1, <1>2, <1>3 DEF PortMaps

LEMMA OthersBindPort ==
  ASSUME LeaseInv, NEW b \in Addresses, NEW q \in Ports, OthersBind(b, q)
  PROVE  /\ port' \in PortMaps
         /\ \A a \in Addresses, p \in Ports :
              port'[a][p] = port[a][p] \/ {port[a][p], port'[a][p]} \subseteq {None, Foreign}
<1>1. port \in PortMaps  BY DEF LeaseInv, LeaseTypeOK, PortMaps
<1>2. port' = [port EXCEPT ![b][q] = Foreign] /\ port[b][q] = None  BY DEF OthersBind
<1>3. QED  BY <1>1, <1>2 DEF PortMaps

LEMMA OthersKeep ==
  ASSUME LeaseInv,
         \E a \in Addresses : OthersClose(a) \/ \E p \in Ports : OthersBind(a, p)
  PROVE  LeaseInv'
<1>1. UNCHANGED <<at, cache, address, tries, lease>>
  BY DEF OthersClose, OthersBind
<1>2. /\ port' \in PortMaps
      /\ \A a \in Addresses, p \in Ports :
           port'[a][p] = port[a][p] \/ {port[a][p], port'[a][p]} \subseteq {None, Foreign}
  BY OthersClosePorts, OthersBindPort
<1>3. LeaseTypeOK'  BY <1>1, <1>2 DEF LeaseInv, LeaseTypeOK, PortMaps
<1>4. LeaseApart(None)  BY <1>1, <1>2 DEF LeaseApart
<1>5. QED  BY <1>3, <1>4, OthersLeaseSound, LeaseDistinct DEF LeaseInv

----------------------------------------------------------------------------
LEMMA InitLeased == LeaseInit => LeaseInv
<1> SUFFICES ASSUME LeaseInit PROVE LeaseInv
  OBVIOUS
<1>1. LeaseTypeOK  BY LeaseDistinct DEF LeaseInit, LeaseTypeOK, Stages
<1>2. ASSUME NEW c \in Clients PROVE LeaseSound(c)
  BY LeaseDistinct DEF LeaseInit, LeaseSound, Holding
<1>3. QED  BY <1>1, <1>2 DEF LeaseInv

LEMMA StepLeased == LeaseInv /\ [LeaseNext]_leaseVars => LeaseInv'
<1> SUFFICES ASSUME LeaseInv, [LeaseNext]_leaseVars PROVE LeaseInv'
  OBVIOUS
<1>1. CASE UNCHANGED leaseVars
  <2>1. LeaseTypeOK'  BY <1>1 DEF leaseVars, LeaseInv, LeaseTypeOK
  <2>2. ASSUME NEW c \in Clients PROVE LeaseSound(c)'
    BY <1>1 DEF leaseVars, LeaseInv, LeaseSound
  <2>3. QED  BY <2>1, <2>2 DEF LeaseInv
<1>2. ASSUME NEW c \in Clients, Allocate(c) PROVE LeaseInv'
  BY <1>2, DrawKeeps, LeaseKeeps, ProbeKeeps, RollBackKeeps, SettleKeeps DEF Allocate
<1>3. ASSUME NEW c \in Clients, EndSession(c) PROVE LeaseInv'
  BY <1>3, Ends DEF EndSession
<1>4. ASSUME NEW c \in Clients, Crash(c) PROVE LeaseInv'
  BY <1>4, Ends DEF Crash
<1>5. QED
  BY <1>1, <1>2, <1>3, <1>4, LaunchKeeps, ListenKeeps, RememberKeeps,
     NextSessionKeeps, OthersKeep DEF LeaseNext

LEMMA AlwaysLeased == LeaseSpec => []LeaseInv
<1>1. QED  BY InitLeased, StepLeased, PTL DEF LeaseSpec

----------------------------------------------------------------------------
\* The lease covers every listener port of a session from its first probe to
\* its end, whoever else leases, probes, crashes or binds on the host.
THEOREM PortsAreCovered == LeaseSpec => []LeaseCoversPorts
<1>1. LeaseInv => LeaseCoversPorts
  <2> SUFFICES ASSUME LeaseInv PROVE LeaseCoversPorts
    OBVIOUS
  <2>1. ASSUME NEW c \in Clients, at[c] \in {"probe", "settle", "listen", "serve", "end"}
        PROVE  lease[address[c]] = c
    BY <2>1 DEF LeaseInv, LeaseSound, Holding
  <2>2. ASSUME NEW a \in Addresses, NEW p \in Ports, port[a][p] \in Clients
        PROVE  lease[a] = port[a][p]
    BY <2>2 DEF LeaseInv, LeaseSound
  <2>3. QED  BY <2>1, <2>2 DEF LeaseCoversPorts
<1>2. QED  BY <1>1, AlwaysLeased, PTL

\* No allocation, failed, rolled back or handed over, leaves a lease or a probe
\* of the helper behind.
THEOREM NothingLeaks == LeaseSpec => []NoLeaseOrProbeLeaks
<1>1. ASSUME LeaseInv, NEW c \in Clients
      PROVE  /\ \A a \in Addresses : lease[a] = c =>
                  address[c] = a /\ at[c] \notin {"launch", "draw", "lease", "over"}
             /\ at[c] \notin {"probe", "roll back", "settle", "serve", "end"} =>
                  \A a \in Addresses : Bound(c, a) = {}
  <2>1. LeaseSound(c)  BY <1>1 DEF LeaseInv
  <2>2. QED  BY <2>1 DEF LeaseSound, Holding, Bound
<1>2. LeaseInv => NoLeaseOrProbeLeaks
  BY <1>1 DEF NoLeaseOrProbeLeaks
<1>3. QED  BY <1>2, AlwaysLeased, PTL
=============================================================================

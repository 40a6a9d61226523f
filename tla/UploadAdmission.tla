--------------------------- MODULE UploadAdmission ---------------------------
(***************************************************************************)
(* What a remote workspace promises to uploads: one is admitted only while *)
(* admission is open, and the workspace goes only after admission was      *)
(* closed and every admitted upload has ended.  Workspace.tla implements   *)
(* this with two files, two kinds of locks and no common process.          *)
(***************************************************************************)
CONSTANT Uploads

VARIABLES phase, admitted

vars == <<phase, admitted>>

Init == phase = "open" /\ admitted = {}

Admit(u) == phase = "open" /\ admitted' = admitted \cup {u} /\ UNCHANGED phase

End(u) == u \in admitted /\ admitted' = admitted \ {u} /\ UNCHANGED phase

Close == phase = "open" /\ phase' = "closed" /\ UNCHANGED admitted

Remove == phase = "closed" /\ admitted = {} /\ phase' = "gone" /\ UNCHANGED admitted

Next == (\E u \in Uploads : Admit(u) \/ End(u)) \/ Close \/ Remove

Spec == Init /\ [][Next]_vars
=============================================================================

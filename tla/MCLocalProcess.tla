--------------------------- MODULE MCLocalProcess ---------------------------
\* TLC instance of FiniteCommand and ManagedProcess: the kind of the child is
\* part of the world.
EXTENDS FiniteCommand, ManagedProcess

Calm == [kind |-> "finite", script |-> <<>>, bounded |-> FALSE,
         heeds |-> {"TERM", "KILL"}, lingers |-> FALSE, stalls |-> FALSE,
         faulty |-> FALSE]

\* Filters its input, with a warning; reads nothing; says all before it reads;
\* leaves a process behind; hangs.
Filter == <<"read", "out", "err", "read", "out", "read">>
Scripts ==
  {Filter, <<"out">>, <<"err", "err", "out", "out", "read", "read", "read">>,
   <<"read", "fork", "out">>, <<"out", "hang">>}

FiniteWorlds ==
  {w \in {[Calm EXCEPT !.script = s] : s \in Scripts} : ~Hangs(w)} \cup
  {[Calm EXCEPT !.script = s, !.bounded = TRUE, !.faulty = TRUE,
                !.lingers = TRUE, !.heeds = heeds] :
     s \in Scripts, heeds \in {{}, {"KILL"}, {"TERM", "KILL"}}}

TransportWorlds ==
  {[Calm EXCEPT !.kind = "managed", !.bounded = TRUE, !.heeds = heeds,
                !.lingers = lingers, !.stalls = stalls, !.faulty = faulty] :
     heeds \in {{}, {"KILL"}, {"TERM", "KILL"}},
     lingers \in BOOLEAN, stalls \in BOOLEAN, faulty \in BOOLEAN}

AllWorlds == FiniteWorlds \cup TransportWorlds

Init ==
  /\ world \in Worlds /\ LocalInit /\ FiniteInit /\ ManagedInit
  /\ step = IF world.kind = "finite" THEN "launch" ELSE "spawn"

Finite == world.kind = "finite"

Done == Over /\ UNCHANGED <<localVars, finiteVars, managedVars>>

Next ==
  \/ Finite /\ FiniteNext /\ UNCHANGED managedVars
  \/ ~Finite /\ ManagedNext /\ UNCHANGED finiteVars
  \/ Done

vars == <<localVars, finiteVars, managedVars>>

Spec == Init /\ [][Next]_vars

\* The owner's steps but for a cancellation, every timer among them; a child
\* that is not hanging runs; a thread that is not blocked runs.
Fairness ==
  /\ WF_vars(Finite /\ Owner /\ UNCHANGED managedVars)
  /\ WF_vars(Finite /\ ChildStep /\ UNCHANGED managedVars)
  /\ WF_vars(Finite /\ HolderStep /\ UNCHANGED managedVars)
  /\ WF_vars(~Finite /\ Coordinator /\ UNCHANGED finiteVars)
  /\ WF_vars(~Finite /\ DrainStep /\ UNCHANGED finiteVars)
  /\ WF_vars(~Finite /\ ReaderStep /\ UNCHANGED finiteVars)

LiveSpec == Spec /\ Fairness
=============================================================================

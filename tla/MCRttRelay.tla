----------------------------- MODULE MCRttRelay -----------------------------
\* TLC instances of RttRelay.
EXTENDS RttRelay

\* One direction is stalled and the other goes on.
TargetStalls   == [output |-> 1, typed |-> 4, printed |-> 0,
                   receives |-> {"consumer"}, ends |-> {"result"}]
ConsumerStalls == [output |-> 3, typed |-> 1, printed |-> 0,
                   receives |-> {"target"}, ends |-> {"result"}]

\* Every way to end, in every order, and a printer on the same output.
EndsAnyhow == [output |-> 2, typed |-> 0, printed |-> 1, receives |-> {"consumer"},
               ends |-> {"result", "raises", "press", "hangup"}]

AllWorlds == {TargetStalls, ConsumerStalls, EndsAnyhow}
=============================================================================

------------------------------ MODULE Executor ------------------------------
(***************************************************************************)
(* What the rest of ZeroRPC relies on when it hands work to an "executor"  *)
(* (std::function<void(std::function<void()>)>, the type Timer, Tcp_Server *)
(* and Tcp_Client take).  A task that is submitted waits in line, is       *)
(* started at most once, in submission order, and then runs to its end.    *)
(* Nothing is said about which thread runs it.                             *)
(***************************************************************************)
EXTENDS Sequences

CONSTANT Tasks          \* the individual calls of commit, one task each

VARIABLES queue,        \* submitted, not yet started
          running,      \* started, not yet finished
          finished      \* run to their end

vars == <<queue, running, finished>>

Queued == {queue[i] : i \in DOMAIN queue}

Init ==
    /\ queue = <<>>
    /\ running = {}
    /\ finished = {}

Submit(t) ==
    /\ t \notin Queued \cup running \cup finished
    /\ queue' = Append(queue, t)
    /\ UNCHANGED <<running, finished>>

Start ==
    /\ queue # <<>>
    /\ queue' = Tail(queue)
    /\ running' = running \cup {Head(queue)}
    /\ UNCHANGED finished

Finish(t) ==
    /\ t \in running
    /\ running' = running \ {t}
    /\ finished' = finished \cup {t}
    /\ UNCHANGED queue

\* The executor is torn down: whatever was still waiting is dropped.
Discard ==
    /\ running = {}
    /\ queue' = <<>>
    /\ UNCHANGED <<running, finished>>

Next ==
    \/ \E t \in Tasks : Submit(t) \/ Finish(t)
    \/ Start
    \/ Discard

Spec == Init /\ [][Next]_vars
=============================================================================

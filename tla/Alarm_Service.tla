--------------------------- MODULE Alarm_Service ---------------------------
(***************************************************************************)
(* What a user of Timer is promised: an alarm rings when its time has come *)
(* and not before, once if it is a timeout, once per period and without    *)
(* drift if it is periodic, and not any more once it has been cancelled.   *)
(***************************************************************************)
EXTENDS Integers

CONSTANTS Requests, Waits, NoAlarm

VARIABLES now,
          alarm,        \* what each request asked for, NoAlarm until then
          cancelled,    \* the requests whose alarm was cancelled
          rung          \* how often each alarm has rung

vars == <<now, alarm, cancelled, rung>>

Init ==
    /\ now = 0
    /\ alarm = [r \in Requests |-> NoAlarm]
    /\ cancelled = {}
    /\ rung = [r \in Requests |-> 0]

\* When the n-th ring of an alarm falls due; the first has one extra unit.
RingTime(a, n) == a.from + 1 + n * a.wait

Set(r) ==
    /\ alarm[r] = NoAlarm
    /\ \E from \in 0 .. now, wait \in Waits, periodic \in BOOLEAN :
        alarm' = [alarm EXCEPT
                    ![r] = [from |-> from, wait |-> wait, periodic |-> periodic]]
    /\ UNCHANGED <<now, cancelled, rung>>

Cancel(r) ==
    /\ alarm[r] # NoAlarm
    /\ cancelled' = cancelled \cup {r}
    /\ UNCHANGED <<now, alarm, rung>>

Ring(r) ==
    /\ alarm[r] # NoAlarm /\ r \notin cancelled
    /\ alarm[r].periodic \/ rung[r] = 0
    /\ now >= RingTime(alarm[r], rung[r] + 1)
    /\ rung' = [rung EXCEPT ![r] = @ + 1]
    /\ UNCHANGED <<now, alarm, cancelled>>

Tick ==
    /\ now' = now + 1
    /\ UNCHANGED <<alarm, cancelled, rung>>

Next ==
    \/ \E r \in Requests : Set(r) \/ Cancel(r) \/ Ring(r)
    \/ Tick

Spec == Init /\ [][Next]_vars
=============================================================================

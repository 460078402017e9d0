--------------------------- MODULE DeadMansSwitch ---------------------------
(***************************************************************************)
(* What the release authority promises its owner, with nothing of how it   *)
(* is done: no lock, no checker pass, no grace period, no outbox.  A       *)
(* switch that is armed is released by silence only once a whole window    *)
(* has passed since the last check-in that was accepted; the owner may     *)
(* release at any time; nothing happens to a switch that was released.     *)
(* Release.tla implements this specification when it runs in production.   *)
(***************************************************************************)
EXTENDS Integers

CONSTANT Window             \* the lengths (interval + grace) that can be set

VARIABLES
    now,                    \* the time, in days
    armed,                  \* silence counts
    last,                   \* the time of the last check-in, -1 before the first
    window,                 \* the silence that releases
    released                \* "no", or what released it

vars == <<now, armed, last, window, released>>

Init ==
    /\ now = 0
    /\ armed = FALSE
    /\ last = -1
    /\ window \in Window
    /\ released = "no"

Tick ==
    /\ now' > now
    /\ UNCHANGED <<armed, last, window, released>>

CheckIn ==
    /\ released = "no"
    /\ armed' = TRUE
    /\ last' = now
    /\ UNCHANGED <<now, window, released>>

\* Arming a switch that was never checked in starts its first period.
Configure ==
    /\ released = "no"
    /\ window' \in Window
    /\ armed' \in BOOLEAN
    /\ last' = IF last = -1 /\ armed' THEN now ELSE last
    /\ UNCHANGED <<now, released>>

ReleaseByOwner ==
    /\ released = "no"
    /\ released' = "manual"
    /\ UNCHANGED <<now, armed, last, window>>

ReleaseBySilence ==
    /\ released = "no"
    /\ armed
    /\ last # -1
    /\ now >= last + window
    /\ released' = "inactivity"
    /\ UNCHANGED <<now, armed, last, window>>

Next == Tick \/ CheckIn \/ Configure \/ ReleaseByOwner \/ ReleaseBySilence

Spec == Init /\ [][Next]_vars
=============================================================================

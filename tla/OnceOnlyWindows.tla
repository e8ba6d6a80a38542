--------------------------- MODULE OnceOnlyWindows ---------------------------
(***************************************************************************)
(* What the pipeline of evo-bot-runtime promises about the debounce        *)
(* windows of one contact + conversation pair, with nothing said of        *)
(* instances, locks, timers or crashes.                                    *)
(*                                                                         *)
(* At most one window is open, named after the event that opened it.  An   *)
(* open window is never replaced by another one: it closes first.  A run   *)
(* is launched for the open window, or for the one just closed by a new    *)
(* arrival, and no window ever gets a second run.                          *)
(***************************************************************************)
EXTENDS Naturals, Sequences

CONSTANTS Events, None

VARIABLES
    arrived,    \* events submitted to the pipeline
    open,       \* the open window, or None
    log         \* the windows for which a run was launched, in launch order

vars == <<arrived, open, log>>

Fired == {log[n] : n \in DOMAIN log}

Init == arrived = {} /\ open = None /\ log = <<>>

\* A new event may close the open window, which is then lost or about to fire.
Arrive(ev) ==
    /\ ev \notin arrived
    /\ arrived' = arrived \cup {ev}
    /\ open' \in {open, None}
    /\ UNCHANGED log

Open(ev) ==
    /\ open = None
    /\ ev \in arrived \ Fired
    /\ open' = ev
    /\ UNCHANGED <<arrived, log>>

Close ==
    /\ open' = None
    /\ UNCHANGED <<arrived, log>>

\* The run of a debounce window, or of an event that needs no window.
Fire(ev) ==
    /\ open \in {ev, None}
    /\ ev \in arrived \ Fired
    /\ open' = None
    /\ log' = Append(log, ev)
    /\ UNCHANGED arrived

Next == Close \/ \E ev \in Events : Arrive(ev) \/ Open(ev) \/ Fire(ev)

Spec == Init /\ [][Next]_vars
=============================================================================

------------------------------- MODULE Budget -------------------------------
(***************************************************************************)
(* What RateLimitStore.hit promises (src/src/lib/auth/ratelimit.ts:28-33): *)
(* per key, a budget of Limit[k] attempts for one window, which opens with *)
(* the first attempt that finds none open.  A refusal takes nothing and    *)
(* does not make the window longer.                                        *)
(***************************************************************************)
EXTENDS Integers, Sequences

CONSTANTS Keys, Limit, WINDOW, MaxTime

VARIABLES
  now,
  window,   \* [used, end] of a key whose window is open, NoWindow otherwise
  grants,   \* when each attempt within the budget was made
  refused   \* how many attempts each key was refused

vars == <<now, window, grants, refused>>

NoWindow == [used |-> 0, end |-> 0]

Init ==
  /\ now = 0
  /\ window = [k \in Keys |-> NoWindow]
  /\ grants = [k \in Keys |-> <<>>]
  /\ refused = [k \in Keys |-> 0]

Grant(k) ==
  /\ grants' = [grants EXCEPT ![k] = Append(@, now)]
  /\ UNCHANGED <<now, refused>>

OpenWindow(k) ==
  /\ window[k] = NoWindow
  /\ window' = [window EXCEPT ![k] = [used |-> 1, end |-> now + WINDOW]]
  /\ Grant(k)

TakeFromWindow(k) ==
  /\ window[k] # NoWindow
  /\ window[k].used < Limit[k]
  /\ window' = [window EXCEPT ![k].used = @ + 1]
  /\ Grant(k)

Refuse(k) ==
  /\ window[k] # NoWindow
  /\ window[k].used = Limit[k]
  /\ refused' = [refused EXCEPT ![k] = @ + 1]
  /\ UNCHANGED <<now, window, grants>>

\* A window closes by itself when its time is up.
Tick ==
  /\ now < MaxTime
  /\ now' = now + 1
  /\ window' = [k \in Keys |-> IF window[k].end <= now' THEN NoWindow ELSE window[k]]
  /\ UNCHANGED <<grants, refused>>

\* A store that lives in a process starts anew with it.
StartAnew ==
  /\ window' = [k \in Keys |-> NoWindow]
  /\ grants' = [k \in Keys |-> <<>>]
  /\ UNCHANGED <<now, refused>>

Next ==
  \/ \E k \in Keys : OpenWindow(k) \/ TakeFromWindow(k) \/ Refuse(k)
  \/ Tick
  \/ StartAnew

Spec == Init /\ [][Next]_vars
=============================================================================

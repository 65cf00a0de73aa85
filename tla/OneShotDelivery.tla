-------------------------- MODULE OneShotDelivery --------------------------
(***************************************************************************)
(* What the capability transport promises, with no file, lock or process  *)
(* in sight.  Each key (a capability reference asked for by one profile,  *)
(* session and task of one project) is a one-shot cell: its delivery is   *)
(* started at most once, its verdict is decided at most once, and a       *)
(* caller that is told a verdict is told that one.  A verdict that claims *)
(* delivery is decided only after the delivery was started.               *)
(***************************************************************************)
CONSTANTS Callers,    \* who may ask
          Keys,       \* the claim keys
          Results,    \* the result envelopes; records with a field status
          Undecided   \* the verdict of a key that has none

VARIABLES started,    \* the keys whose delivery was started
          verdict,    \* the verdict of each key
          told        \* the verdict each caller last got, if any, per key

vars == <<started, verdict, told>>

Nothing == [k \in Keys |-> {}]

Init ==
    /\ started = {}
    /\ verdict = [k \in Keys |-> Undecided]
    /\ told = [c \in Callers |-> Nothing]

\* The delivery of k begins: once, and never after the verdict.
Start(k) ==
    /\ k \notin started
    /\ verdict[k] = Undecided
    /\ started' = started \cup {k}
    /\ UNCHANGED <<verdict, told>>

\* The verdict of k is decided, once.
Decide(k, r) ==
    /\ verdict[k] = Undecided
    /\ r.status = "delivered" => k \in started
    /\ verdict' = [verdict EXCEPT ![k] = r]
    /\ UNCHANGED <<started, told>>

\* Caller c is told the verdict of k.
Answer(c, k) ==
    /\ verdict[k] # Undecided
    /\ told' = [told EXCEPT ![c] = [Nothing EXCEPT ![k] = {verdict[k]}]]
    /\ UNCHANGED <<started, verdict>>

\* Caller c asks again, or is gone.
Forget(c) ==
    /\ told' = [told EXCEPT ![c] = Nothing]
    /\ UNCHANGED <<started, verdict>>

Next ==
    \/ \E k \in Keys : Start(k)
    \/ \E k \in Keys, r \in Results : Decide(k, r)
    \/ \E c \in Callers, k \in Keys : Answer(c, k)
    \/ \E c \in Callers : Forget(c)

Spec == Init /\ [][Next]_vars
=============================================================================

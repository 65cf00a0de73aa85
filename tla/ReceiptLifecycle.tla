-------------------------- MODULE ReceiptLifecycle --------------------------
(***************************************************************************)
(* What the lifecycle receipts of bound events promise: the receipt of an  *)
(* event is opened once, walks through one of the legal lifecycles one     *)
(* stage at a time, is never rewritten, and is dropped only when terminal. *)
(***************************************************************************)
EXTENDS Naturals, Sequences

CONSTANTS Events,  \* bound events
          None     \* no receipt

VARIABLE log       \* the stages of the receipt of each event

\* The lifecycles a reader that requires a terminal receipt accepts.
Legal ==
    {<<"received", "intake-ready", "route", "running", "terminal">>,
     <<"received", "intake-ready", "consumer-running", "terminal">>,
     <<"received", "intake-ready", "terminal">>,
     <<"received", "intake-hold", "terminal">>}

\* What a receipt may look like on the way to a legal lifecycle.
Underway ==
    UNION {{SubSeq(l, 1, n) : n \in 1..Len(l)} : l \in Legal}

Init == log = [e \in Events |-> None]

Open(e) ==
    /\ log[e] = None
    /\ log' = [log EXCEPT ![e] = <<"received">>]

Extend(e, stage) ==
    /\ log[e] # None
    /\ Append(log[e], stage) \in Underway
    /\ log' = [log EXCEPT ![e] = Append(@, stage)]

Drop(e) ==
    /\ log[e] \in Legal
    /\ log' = [log EXCEPT ![e] = None]

Stages == {"received", "intake-ready", "intake-hold", "route", "running",
           "consumer-running", "terminal"}

Next ==
    \E e \in Events :
        \/ Open(e)
        \/ \E stage \in Stages : Extend(e, stage)
        \/ Drop(e)

Spec == Init /\ [][Next]_log
=============================================================================

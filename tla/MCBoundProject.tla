--------------------------- MODULE MCBoundProject ---------------------------
(* Who is at it together, two paths of the four, and what is there at first. *)
EXTENDS BoundProject, TLC
CONSTANTS r1, r2, x1, x2, t2
Lock == "runtime.lock.json"
TwoPaths == <<Binding, Lock>>
Written(k) == [scope |-> r1, operation |-> k \in Operations, provider |-> Provider(k),
              target |-> TargetFields[Provider(k)]]
\* x1 is the binding of r1 but for its verification; in x2 the target of the
\* Vercel deployment is what its provider demands, the digest computed again.
EditedBindings ==
    x1 :> [k \in Requested |-> Written(k)] @@
    x2 :> [k \in Requested |->
             IF k # "vercel.deploy" THEN Written(k)
             ELSE [Written(k) EXCEPT !.scope = t2, !.target = IdentityFields["vercel"]]]
Groups == {
    {"a1", "a2", "git"},
    {"a1", "a3"},
    {"a3", "git", "editor"},
    {"u1", "a1", "git"},
    {"u1", "git", "editor"},
    {"l1", "l3"},
    {"l3", "cleaner"},
    {"s1", "s2", "cron"},
    {"s3", "cron", "editor"}}
Bound == \A f \in Paths : file[f] = Desired(f, head)
\* Each group finds what it works on in any state, and the rest in one.
SmallInit ==
    /\ Init
    /\ Retirers \cap cast = {} => listed = None /\ \A n \in Names : legacy[n] = None
    /\ Appliers \cap cast = {} => Bound /\ head = r1
SmallSpec == SmallInit /\ [][Next]_vars /\ \A a \in Appliers : WF_vars(Applying(a))
=============================================================================

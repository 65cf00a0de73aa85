------------------------- MODULE MCProjectOnboarding -------------------------
(* Two operators with slugs of their own and three evaluations, two at a time. *)
EXTENDS ProjectOnboarding, TLC
CONSTANTS e1, e2, s1, s2, c1, i1, i2, i3
OwnSlugs == e1 :> s1 @@ e2 :> s2
OneChannel == e1 :> c1 @@ e2 :> c1
Pairs == {{e1, e2}, {e2, i1}, {e2, i3}, {i1, i2}}
\* Where an intake takes part, nothing of Hermes is there at first.  Where an
\* operator does, the root is a worktree at first and its manifest UTF-8 and no
\* link; two evaluations start in any of these conditions.
SmallInit ==
    /\ Init
    /\ cast \cap Evaluators # {} =>
          /\ \A s \in Slugs : registry[s] = None
          /\ \A c \in Channels : mapping[c] = None
    /\ cast \cap Enrollers # {} => worktree /\ ~linked /\ manifest # "not UTF-8"
SmallSpec == SmallInit /\ [][Next]_vars /\ Fairness
=============================================================================

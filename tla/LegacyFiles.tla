----------------------------- MODULE LegacyFiles -----------------------------
(***************************************************************************)
(* reconcile_legacy of runtime/harness_runtime/project_binding.py: the     *)
(* files that an older installation left in the project are removed when   *)
(* their digest still is that of legacy-files.json, which is then          *)
(* rewritten with those that are not.  Of a file only that comparison      *)
(* counts.  The manifest is rewritten like a managed file, by way of a     *)
(* temporary file that is the same for every call; but what two calls      *)
(* write need not be of one length.                                        *)
(***************************************************************************)
EXTENDS ProjectBinding

CONSTANTS Retirers,   \* the operators that reconcile
          Names,      \* the paths the manifest may name
          Outside,    \* those of them that lead out of the project
          Blank,      \* an empty manifest
          Garbled     \* one with the rest of a longer one at its end

ASSUME NoFileAssumption ==
    /\ None \notin {"original", "modified", Blank, Garbled}
    /\ Blank # Garbled
    /\ \A s \in SUBSET Names : s # None /\ s # Blank /\ s # Garbled

VARIABLES listed,     \* the tool's manifest: the names in it, or None
          spare,      \* its temporary file
          grip,       \* where the file is that an operator has open for writing
          legacy,     \* the file of each name
          retiring,   \* where each operator is in reconcile_legacy
          retired,    \* what its call has looked at
          altered     \* history: the files others changed during its call

manifestVars == <<listed, spare, grip>>
legacyVars == <<manifestVars, legacy, retiring, retired, altered>>

Listings == (SUBSET Names) \cup {None, Blank, Garbled}

NewRetirement == [left |-> {}, removable |-> {}, retained |-> {}]

LegacyInit ==
    /\ listed \in {None, Names}
    /\ spare = None
    /\ grip = [l \in Retirers |-> None]
    /\ legacy \in [Names -> {"original", "modified", None}]
    /\ retiring = [l \in Retirers |-> "idle"]
    /\ retired = [l \in Retirers |-> NewRetirement]
    /\ altered = [l \in Retirers |-> {}]

Readable(manifest) == manifest \notin {None, Blank, Garbled}
IsListed(n) == Readable(listed) /\ n \in listed

Retires(l, label, r) ==
    /\ retiring' = [retiring EXCEPT ![l] = label]
    /\ retired' = [retired EXCEPT ![l] = r]

Retired(l) ==
    /\ Retires(l, "idle", NewRetirement)
    /\ altered' = [altered EXCEPT ![l] = {}]

\* Without a manifest, or with one that cannot be read or is not the tool's,
\* nothing is done.
ReadLegacy(l) ==
    /\ retiring[l] = "idle"
    /\ IF Readable(listed)
       THEN Retires(l, "look", [NewRetirement EXCEPT !.left = listed])
       ELSE UNCHANGED <<retiring, retired>>
    /\ UNCHANGED <<manifestVars, legacy, altered>>

\* Mutant of LookLegacy: a file that was modified is removed like the others.
LookLegacyAny(l, n) ==
    /\ retiring[l] = "look"
    /\ n \in retired[l].left
    /\ Retires(l, "look",
               [retired[l] EXCEPT !.left = @ \ {n}, !.removable = @ \cup {n}])
    /\ UNCHANGED <<manifestVars, legacy, altered>>

\* Mutant of LookLegacy: a path that leads out of the project is not retained.
LookLegacyInside(l, n) ==
    /\ retiring[l] = "look"
    /\ n \in retired[l].left
    /\ LET removed == n \notin Outside /\ legacy[n] = "original"
           kept == n \notin Outside /\ legacy[n] = "modified"
       IN  Retires(l, "look",
                   [retired[l] EXCEPT !.left = @ \ {n},
                       !.removable = IF removed THEN @ \cup {n} ELSE @,
                       !.retained = IF kept THEN @ \cup {n} ELSE @])
    /\ UNCHANGED <<manifestVars, legacy, altered>>

\* retain-invalid, retire-missing, remove or retain-modified.
LookLegacy(l, n) ==
    /\ retiring[l] = "look"
    /\ n \in retired[l].left
    /\ LET removed == n \notin Outside /\ legacy[n] = "original"
           kept == n \in Outside \/ legacy[n] = "modified"
       IN  Retires(l, "look",
                   [retired[l] EXCEPT !.left = @ \ {n},
                       !.removable = IF removed THEN @ \cup {n} ELSE @,
                       !.retained = IF kept THEN @ \cup {n} ELSE @])
    /\ UNCHANGED <<manifestVars, legacy, altered>>

\* Without apply the call only tells what it would do.
LookedLegacy(l) ==
    /\ retiring[l] = "look"
    /\ retired[l].left = {}
    /\ \/ Retired(l)
       \/ Retires(l, "unlink", retired[l]) /\ UNCHANGED altered
    /\ UNCHANGED <<manifestVars, legacy>>

\* A file that is gone by now makes the call fail before the manifest.
UnlinkLegacy(l, n) ==
    /\ retiring[l] = "unlink"
    /\ n \in retired[l].removable
    /\ IF legacy[n] = None
       THEN Retired(l) /\ UNCHANGED legacy
       ELSE /\ legacy' = [legacy EXCEPT ![n] = None]
            /\ Retires(l, "unlink", [retired[l] EXCEPT !.removable = @ \ {n}])
            /\ UNCHANGED altered
    /\ UNCHANGED manifestVars

\* What becomes of who has the file open that is moved to the path, and of who
\* has the file of the path open that is no longer there.
Moved == [l \in Retirers |->
            CASE grip[l] = "tmp" -> "path" [] grip[l] = "path" -> "gone" [] OTHER -> grip[l]]
Displaced == [l \in Retirers |-> IF grip[l] = "path" THEN "gone" ELSE grip[l]]

\* Nothing is retained: the manifest is removed, if it is still there.
ForgetLegacy(l) ==
    /\ retiring[l] = "unlink"
    /\ retired[l].removable = {} /\ retired[l].retained = {}
    /\ listed' = None
    /\ grip' = Displaced
    /\ Retired(l)
    /\ UNCHANGED <<spare, legacy>>

\* _write: the temporary file is opened, and empty.
OpenLegacy(l) ==
    /\ retiring[l] = "unlink"
    /\ retired[l].removable = {} /\ retired[l].retained # {}
    /\ spare' = Blank
    /\ grip' = [grip EXCEPT ![l] = "tmp"]
    /\ Retires(l, "write", retired[l])
    /\ UNCHANGED <<listed, legacy, altered>>

\* The file a manifest is written to, from its start, may have got the content of
\* another call meanwhile, longer or shorter.
Overwritten(old, new) ==
    CASE old = Blank -> {new}
      [] old = Garbled -> {new, Garbled}
      [] OTHER -> IF old \subseteq new THEN {new}
                  ELSE IF new \subseteq old THEN {Garbled} ELSE {new, Garbled}

WriteLegacy(l) ==
    /\ retiring[l] = "write"
    /\ LET new == retired[l].retained
       IN  /\ IF grip[l] = "tmp" THEN spare' \in Overwritten(spare, new)
              ELSE UNCHANGED spare
           /\ IF grip[l] = "path" THEN listed' \in Overwritten(listed, new)
              ELSE UNCHANGED listed
    /\ grip' = [grip EXCEPT ![l] = None]
    /\ Retires(l, "replace", retired[l])
    /\ UNCHANGED <<legacy, altered>>

\* The replacement fails when another call has moved the temporary file away.
ReplaceLegacy(l) ==
    /\ retiring[l] = "replace"
    /\ IF spare = None THEN UNCHANGED manifestVars
       ELSE /\ listed' = spare
            /\ spare' = None
            /\ grip' = Moved
    /\ Retired(l)
    /\ UNCHANGED legacy

\* A step fails or the process dies: the temporary file stays as it is.
RetirerDies(l) ==
    /\ l \in Faulty
    /\ retiring[l] # "idle"
    /\ grip' = [grip EXCEPT ![l] = None]
    /\ Retired(l)
    /\ UNCHANGED <<listed, spare, legacy>>

\* Somebody modifies a file, removes it, or puts a new one there.
AlterLegacy(n) ==
    /\ legacy' \in {[legacy EXCEPT ![n] = c] : c \in {"modified", None}} \ {legacy}
    /\ altered' = [l \in Retirers |-> IF retiring[l] = "idle" THEN altered[l]
                                     ELSE altered[l] \cup {n}]
    /\ UNCHANGED <<manifestVars, retiring, retired>>

Retire(l) ==
    \/ ReadLegacy(l)
    \/ \E n \in Names : LookLegacy(l, n)
    \/ LookedLegacy(l)
    \/ \E n \in Names : UnlinkLegacy(l, n)
    \/ ForgetLegacy(l)
    \/ OpenLegacy(l) \/ WriteLegacy(l) \/ ReplaceLegacy(l)
=============================================================================

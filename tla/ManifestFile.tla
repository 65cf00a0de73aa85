---------------------------- MODULE ManifestFile ----------------------------
(***************************************************************************)
(* manifest.yml in the root of one project: the file that the enrollment   *)
(* of the project and the intake of its Gateway events both create, each   *)
(* with O_EXCL and each with a content of its own, and that both read.     *)
(*                                                                         *)
(* A content is what its readers can tell of it: an empty file, a part of  *)
(* a content that is still being written, the manifest an intake writes    *)
(* (without workspace), the one an enrollment writes (with this root as    *)
(* workspace), and one that somebody else wrote, in UTF-8 or not.  What    *)
(* the two write is ASCII, and so is a part of it.                         *)
(*                                                                         *)
(* The path may be a symbolic link to a file elsewhere: the manifest then  *)
(* is what the link leads to.  A link that leads nowhere, like a           *)
(* directory, is irregular.                                                *)
(***************************************************************************)
CONSTANTS None,    \* no value: here, no file
          Faulty   \* the processes whose steps may fail and that may die

VARIABLES manifest,  \* the content at the path, if any
          linked     \* whether the path is a link to it

Written == {"bootstrap", "enrolled", "foreign", "not UTF-8"}
Torn == {"empty", "partial"}
Contents == Written \cup Torn

\* Nothing that can be read.
Irregular == "irregular"
Manifests == Contents \cup {Irregular, None}

ASSUME NoneAssumption == None \notin Contents \cup {Irregular}

\* os.open with O_CREAT and O_EXCL: the file is there, and empty.
CreateExclusive ==
    /\ manifest = None
    /\ manifest' = "empty"

\* os.open that finds the file.
Exists == manifest # None
=============================================================================

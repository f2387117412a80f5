----------------------------- MODULE ReleaseLog -----------------------------
(***************************************************************************)
(* What the configuration centre promises its clients: for every file a    *)
(* register with the content that is released, if any, and a version.  A   *)
(* client learns of a change by comparing versions, so the content of a    *)
(* register never changes without its version, which grows by exactly one, *)
(* also when the release is withdrawn and when it comes back.              *)
(***************************************************************************)
EXTENDS Naturals

CONSTANTS Files, Contents, Nothing

VARIABLE register

TypeOK == register \in [Files -> [version : Nat, content : Contents \cup {Nothing}]]

Init == register = [f \in Files |-> [version |-> 0, content |-> Nothing]]

\* A file is published, for the first time or again.
Publish(f) ==
  /\ register'[f].content \in Contents
  /\ register' = [register EXCEPT ![f] = [version |-> @.version + 1,
                                          content |-> register'[f].content]]

\* The releases of some files are withdrawn together.
Withdraw ==
  \E fs \in SUBSET {f \in Files : register[f].content # Nothing} :
    register' = [f \in Files |-> IF f \in fs
                                 THEN [version |-> register[f].version + 1, content |-> Nothing]
                                 ELSE register[f]]

Next == (\E f \in Files : Publish(f)) \/ Withdraw

Spec == Init /\ [][Next]_register
=============================================================================

------------------------ MODULE SingleUseAuthorization ------------------------
(***************************************************************************)
(* What the replay ledger promises of human authorizations: each one is     *)
(* used up at most once, gives the right to dispatch to at most one request *)
(* and only in the step that uses it up, and is never given back.           *)
(***************************************************************************)
CONSTANTS
    Holders,    \* who may hold an authorization: the requests
    Packages    \* signed human authorization packages

VARIABLES
    unused,     \* packages nobody has reserved yet
    rights      \* <<h, p>>: h may still act on package p

vars == <<unused, rights>>

Init ==
    /\ unused = Packages
    /\ rights = {}

\* A package is used up; its right goes to one holder, or to nobody when the
\* answer to the reservation is lost.
Use(p) ==
    /\ p \in unused
    /\ unused' = unused \ {p}
    /\ \/ UNCHANGED rights
       \/ \E h \in Holders : rights' = rights \cup {<<h, p>>}

Lapse(h, p) ==
    /\ <<h, p>> \in rights
    /\ rights' = rights \ {<<h, p>>}
    /\ UNCHANGED unused

Next ==
    \/ \E p \in Packages : Use(p)
    \/ \E h \in Holders, p \in Packages : Lapse(h, p)

Spec == Init /\ [][Next]_vars
===============================================================================

---------------------------- MODULE ChatAddresses ----------------------------
(***************************************************************************)
(* Small instances of Chat for model checking.                             *)
(***************************************************************************)
EXTENDS Chat

\* Every shorter address is the beginning of every longer one, as 10.0.0.1 is
\* of 10.0.0.12: written over the longer one it is read as the longer one.
Beginnings == [l \in Long |-> [c \in Client \ Long |-> l]]
=============================================================================

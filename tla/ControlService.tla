---------------------------- MODULE ControlService ----------------------------
(***************************************************************************)
(* What the controller may rely on, whatever the router's memory does: a   *)
(* request is answered at most once, with its own code, and the requests   *)
(* of a connection in the order in which they were written; after the      *)
(* answer to CRASH the turn of the main loop that is under way answers at  *)
(* most one request of each other connection, and then there is silence.   *)
(***************************************************************************)
EXTENDS Naturals, Sequences

CONSTANTS
    Code,  \* the control codes
    CRASH  \* the one that ends the router

VARIABLES
    asked,    \* asked[k]: the requests written to connection k
    answers,  \* answers[k]: the answers given on connection k
    crashed,  \* CRASH was answered
    due       \* the connections that may still get an answer

vars == <<asked, answers, crashed, due>>

Init == asked = <<>> /\ answers = <<>> /\ ~crashed /\ due = {}

Connect ==
    /\ asked' = Append(asked, <<>>)
    /\ answers' = Append(answers, <<>>)
    /\ due' = IF crashed THEN due ELSE DOMAIN asked'
    /\ UNCHANGED crashed

Ask(k) ==
    /\ \E code \in Code : asked' = [asked EXCEPT ![k] = Append(@, code)]
    /\ UNCHANGED <<answers, crashed, due>>

Answer(k) ==
    /\ k \in due
    /\ Len(answers[k]) < Len(asked[k])
    /\ LET code == asked[k][Len(answers[k]) + 1]
       IN  /\ answers' = [answers EXCEPT ![k] = Append(@, code)]
           /\ crashed' = (crashed \/ code = CRASH)
    /\ due' \in SUBSET due
    /\ IF crashed' THEN k \notin due' ELSE due' = due
    /\ UNCHANGED asked

\* A connection ends, or its turn is over.
Leave == crashed /\ due' \in SUBSET due /\ UNCHANGED <<asked, answers, crashed>>

Next == Connect \/ Leave \/ \E k \in DOMAIN asked : Ask(k) \/ Answer(k)

Spec == Init /\ [][Next]_vars
=============================================================================

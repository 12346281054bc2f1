---------------------------- MODULE MCAdmission ----------------------------
(* Admission for TLC: half seconds, two requests, one token of two seconds. *)
EXTENDS Admission, TLC

CONSTANT t1

HalfSeconds == 2

TwoUsers == {[user |-> "first", expires |-> 3], [user |-> "second", expires |-> 1]}

First      == [t \in {t1} |-> "first"]
TwoSeconds == [t \in {t1} |-> 4]

\* The processes are interchangeable, and no property of the runs is one of liveness.
ProcessesAreAlike == Permutations(Processes)

=============================================================================

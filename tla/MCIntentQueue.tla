--------------------------- MODULE MCIntentQueue ---------------------------
(* Small instances of IntentQueue for TLC. *)
EXTENDS IntentQueue, TLC

CONSTANTS r1, r2, r3, w1, w2

Requests == {r1, r2, r3}

(* Three requests of one session; r1 and r2 ask the same thing. *)
OneSession == [r \in Requests |-> "session"]
TwoQueries == [r \in Requests |-> IF r = r3 THEN "other" ELSE "same"]

(* r1 and r2 submit the same question; r3 asks it in another session. *)
TwoSessions == [r \in Requests |-> IF r = r3 THEN "b" ELSE "a"]
OneQuery == [r \in Requests |-> "same"]

(* Three requests that have nothing to do with each other. *)
ThreeSessions == [r \in Requests |-> r]

(* The two requests with the same question are interchangeable. *)
SameSymmetry == Permutations({r1, r2})
WorkerSymmetry == Permutations({w1, w2})
BothSymmetry == SameSymmetry \cup WorkerSymmetry

=============================================================================

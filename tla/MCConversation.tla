--------------------------- MODULE MCConversation ---------------------------
(* A small instance of Conversation for TLC. *)
EXTENDS Conversation, TLC

CONSTANTS t1, t2, t3, x, y, w1, w2

Turns == {t1, t2, t3}

(* A session with two turns and one with one turn, of the same buyer or of  *)
(* two; everyone asks for the same stable advice.                           *)
Sessions == (t1 :> "a") @@ (t2 :> "a") @@ (t3 :> "b")
Queries == [t \in Turns |-> "advice"]

ActorSymmetry == Permutations({w1, w2}) \cup Permutations({x, y})

(* Loading, saving and recording touch nothing of another session; nor do  *)
(* the steps that read preferences, once none will change any more.  They  *)
(* need not be interleaved with the steps of other sessions: while a turn  *)
(* is at one of these, a step is one of its session.  (Left out by that is *)
(* only a crash that takes turns of two sessions at such steps.)           *)
Own == Recording \cup {"restore", "persist"}
       \cup (IF events = MaxEvents THEN {"scope", "inputs", "turn", "remember"} ELSE {})

Alone == {t \in Open : pc[t] \in Own /\ \A u \in Open : SessionOf[u] = SessionOf[t] => u = t}

SessionsCommute ==
  Alone # {} =>
    LET t == CHOOSE t \in Alone : TRUE IN
    \E u \in Turn : SessionOf[u] = SessionOf[t] /\ pc'[u] # pc[u]

=============================================================================

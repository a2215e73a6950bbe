----------------------------- MODULE Dictionary -----------------------------
(***************************************************************************)
(* What a Hash promises the program: a map from keys to values.  Every     *)
(* operation takes effect, and answers, in one step.  ValueMap implements  *)
(* it with an open-addressing table.                                       *)
(***************************************************************************)
CONSTANTS Keys, Values, Missing

VARIABLES
  dict,    \* the value of every key, or Missing
  answer   \* the last operation that finished, and what it answered

Answer(op, key, value) == [op |-> op, key |-> key, value |-> value]

Init ==
  /\ dict = [k \in Keys |-> Missing]
  /\ answer = Answer("none", Missing, Missing)

Get(k) ==
  /\ answer' = Answer("get", k, dict[k])
  /\ UNCHANGED dict

Set(k, v) ==
  /\ answer' = Answer("set", k, v)
  /\ dict' = [dict EXCEPT ![k] = v]

\* A new key the table could not grow for: the store is given up, without an error.
GiveUp(k, v) ==
  /\ dict[k] = Missing
  /\ answer' = Answer("lost", k, v)
  /\ UNCHANGED dict

Remove(k) ==
  /\ answer' = Answer("remove", k, dict[k])
  /\ dict' = [dict EXCEPT ![k] = Missing]

Next ==
  \E k \in Keys :
    \/ Get(k) \/ Remove(k)
    \/ \E v \in Values : Set(k, v) \/ GiveUp(k, v)

Spec == Init /\ [][Next]_<<dict, answer>>
=============================================================================

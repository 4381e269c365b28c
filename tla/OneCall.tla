------------------------------ MODULE OneCall ------------------------------
(***************************************************************************)
(* What the user-provider broker promises about one provider task: its     *)
(* model call is announced before it is made, is made at most once, and    *)
(* the task is answered once, with an answer that does not contradict what *)
(* the user's device has done.                                             *)
(***************************************************************************)
EXTENDS Naturals

CONSTANT Tasks

VARIABLE card   \* what is known of each task

Answers == {"none", "completed", "failed", "unavailable", "unknown"}

Card == [announced: BOOLEAN, calls: Nat, answer: Answers]

Init == card = [t \in Tasks |-> [announced |-> FALSE, calls |-> 0, answer |-> "none"]]

(* The broker records that a device is about to call the provider. *)
Announces(c, d) ==
    /\ c.answer = "none" /\ ~c.announced
    /\ d = [c EXCEPT !.announced = TRUE]

(* The device calls the provider, perhaps after the broker gave up on it. *)
Calls(c, d) ==
    /\ c.announced /\ c.calls = 0
    /\ d = [c EXCEPT !.calls = 1]

(* Only "unknown" may be said of a call whose fate the broker cannot know. *)
IsAnswered(c, d) ==
    /\ c.answer = "none"
    /\ d.answer \in Answers \ {"none"} /\ d = [c EXCEPT !.answer = d.answer]
    /\ d.answer \in {"completed", "failed"} => c.calls = 1
    /\ d.answer = "unavailable" => ~c.announced

Moves(c, d) == Announces(c, d) \/ Calls(c, d) \/ IsAnswered(c, d)

(* One transaction of the broker may move several tasks. *)
Next ==
    /\ card' \in [Tasks -> Card]
    /\ \A t \in Tasks : card'[t] = card[t] \/ Moves(card[t], card'[t])

Spec == Init /\ [][Next]_card

=============================================================================

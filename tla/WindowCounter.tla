--------------------------- MODULE WindowCounter ---------------------------
(***************************************************************************)
(* What a rate limiter promises, whatever it is built on.  Requests are    *)
(* counted per key and per fixed window of time; a window is known by its  *)
(* start.  At most Max[k] requests of a window are admitted, and a request *)
(* is refused only when that many have been.                               *)
(*                                                                         *)
(* Nothing is promised about two windows together: Max[k] requests at the  *)
(* end of one and Max[k] at the start of the next are admitted.            *)
(***************************************************************************)
EXTENDS Naturals

CONSTANTS
    Keys,      \* what is counted separately
    Starts,    \* the starts of windows
    Max        \* Max[k]: the limit of a key in one window

VARIABLES
    admitted,  \* admitted[k][b]: how many requests of window b got through
    answer     \* the last answer given

Verdicts == {"admitted", "refused"}

Init ==
    /\ admitted = [k \in Keys |-> [b \in Starts |-> 0]]
    /\ answer = <<>>

Admit(k, b) ==
    /\ admitted[k][b] < Max[k]
    /\ admitted' = [admitted EXCEPT ![k][b] = @ + 1]
    /\ answer' = <<k, b, "admitted">>

Refuse(k, b) ==
    /\ admitted[k][b] >= Max[k]
    /\ answer' = <<k, b, "refused">>
    /\ UNCHANGED admitted

(* The counter starts over, with the process that kept it. *)
Reset ==
    /\ admitted' = [k \in Keys |-> [b \in Starts |-> 0]]
    /\ answer' = <<>>

Next ==
    \/ \E k \in Keys, b \in Starts : Admit(k, b) \/ Refuse(k, b)
    \/ Reset

Spec == Init /\ [][Next]_<<admitted, answer>>
=============================================================================

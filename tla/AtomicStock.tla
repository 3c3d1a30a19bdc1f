---------------------------- MODULE AtomicStock ----------------------------
(***************************************************************************)
(* What the stock ledger promises to the rest of the system: a request     *)
(* posts a set of movements with fresh keys in one step, and the quantity  *)
(* of every level is the sum of what was posted to it, never negative and  *)
(* never over-reserved.                                                    *)
(***************************************************************************)
EXTENDS Integers, Functions

CONSTANT Levels

VARIABLES quantity,  \* [Levels -> [oh, rs, dm]]
          posted     \* set of [key, level, d]

Nothing == [oh |-> 0, rs |-> 0, dm |-> 0]

\* The sum of the movements in M on level l.
Moved(M, l) ==
    LET on == {m \in M : m.level = l}
    IN  [oh |-> SumFunction([m \in on |-> m.d.oh]),
         rs |-> SumFunction([m \in on |-> m.d.rs]),
         dm |-> SumFunction([m \in on |-> m.d.dm])]

Sound(q) == q.oh >= 0 /\ q.rs >= 0 /\ q.dm >= 0 /\ q.rs + q.dm <= q.oh

Init ==
    /\ quantity = [l \in Levels |-> Nothing]
    /\ posted = {}

\* The movements posted in this step are the new members of posted.
Post ==
    LET new == posted' \ posted
    IN  /\ posted \subseteq posted' /\ new # {}
        /\ \A m \in new, n \in posted' : m.key = n.key => m = n
        /\ quantity' = [l \in Levels |-> Moved(posted', l)]
        /\ \A l \in Levels : Sound(quantity'[l])

Spec == Init /\ [][Post]_<<quantity, posted>>
=============================================================================

--------------------------- MODULE MCJitGiveBack ---------------------------
(* A queue of two occurrences that is taken over and given back.           *)
EXTENDS JitGiveBack

CONSTANTS w1, o1, o2
OneWindow == {w1}
TwoOccurrences == {o1, o2}
NativeUpsets == {"stop", "lists", "write"}
UsersQueue == <<o1, o2>>
=============================================================================

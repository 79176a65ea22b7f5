---------------------------- MODULE MCFetchQueue ----------------------------
(* A region with a grandmaster ladder, a platinum one and two other ones. *)
EXTENDS FetchQueue

CONSTANTS gm, plat, rest1, rest2

MCLadders == {gm, plat, rest1, rest2}
MCKindOf == [l \in MCLadders |-> CASE l = gm -> "gm" [] l = plat -> "plat" [] OTHER -> "rest"]

=============================================================================

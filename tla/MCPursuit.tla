------------------------------- MODULE MCPursuit -------------------------------
(* Two requests at a time, which are alike; so are the tokens.  The pursuit is not *)
(* opened yet, or its bid is in.                                                  *)
EXTENDS Pursuit, TLC

CONSTANTS r1, r2, t1, t2

MCPaths == {<<>>, <<"discovered", "qualified", "bid_confirmed", "bid_decision_pending",
                    "estimating", "submitted">>}
MCSymmetry == Permutations({r1, r2}) \cup Permutations({t1, t2})
================================================================================

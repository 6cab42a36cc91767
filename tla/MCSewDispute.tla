---------------------------- MODULE MCSewDispute ----------------------------
(***************************************************************************)
(* Instances of SewDispute for TLC.  Two resolvers alternate up the        *)
(* ladder, so an escalation always hands the dispute to the other one.     *)
(***************************************************************************)
EXTENDS SewDispute

CONSTANTS r1, r2

MCResolvers == {r1, r2}
MCLadder == [n \in 0..MaxLevel |-> IF n % 2 = 0 THEN r1 ELSE r2]

NoAutoTimes == {<<0, 0>>}
AutoCancel == {<<0, 0>>, <<0, 3>>}
AutoRelease == {<<2, 0>>}
=============================================================================

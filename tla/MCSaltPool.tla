---------------------------- MODULE MCSaltPool ----------------------------
(***************************************************************************)
(* Instances of SaltPool for TLC: a second has two ticks, headers are      *)
(* valid for one second on either side and salts are kept for two seconds, *)
(* the proportions of 30 seconds and 60 seconds in the code.               *)
(***************************************************************************)
EXTENDS SaltPool, TLC

CONSTANTS s1, s2, s3, x1, x2

Msg(x, t, d) == [salt |-> x, timestamp |-> t, defect |-> d]

(* The timestamp that is the smallest int64.                               *)
FarAway == MaxInt64 + 1

(* A good message that may be replayed, one whose time overflows, and      *)
(* another salt in front of one representative of every way in which a     *)
(* first message can be at fault.                                          *)
ReplayMessages ==
  {Msg(x1, 1, "none"), Msg(x2, FarAway, "none")} \cup
  {Msg(x2, 2, d) : d \in {"shortRead", "fixedHeaderTag", "varHeaderTag",
                          "paddingOverrun"}}

SessionSymmetry == Permutations({s1, s2, s3})
============================================================================

------------------------------- MODULE Filtering -------------------------------
(***************************************************************************)
(* Array.prototype.filter of JavaScript, as a recursive function: unlike   *)
(* SelectSeq it can be reasoned about.                                     *)
(***************************************************************************)
EXTENDS Naturals, Sequences

\* The members of s at some positions, in their order.
Kept(s, positions) ==
  LET kept[n \in 0..Len(s)] ==
        IF n = 0 THEN <<>>
        ELSE IF n \in positions THEN Append(kept[n - 1], s[n]) ELSE kept[n - 1]
  IN  kept[Len(s)]

\* Those of its members that are in S; often all of them, and then TLC has nothing to build.
Only(s, S) ==
  IF \A i \in DOMAIN s : s[i] \in S THEN s ELSE Kept(s, {i \in DOMAIN s : s[i] \in S})
================================================================================

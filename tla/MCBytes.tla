--------------------------------- MODULE MCBytes ---------------------------------
(* Instances of Sha1 and Patch, which share nothing: each runs while the   *)
(* other has not begun.                                                    *)
EXTENDS Sha1, Patch

MCFiles == {<< >>, <<1, 1, 1>>, <<2, 0, 1, 2, 1, 0>>}

BytesVars == <<sha1Vars, patchVars>>

Sha1Step == patched = NoPatch /\ Sha1Next /\ UNCHANGED patchVars
PatchStep == pc = "feed" /\ fed = << >> /\ PatchNext /\ UNCHANGED sha1Vars

(* SHA1Final is a call that runs to its end.                               *)
InFinal == patched = NoPatch /\ (FinalMark \/ FinalZero \/ FinalLength) /\ UNCHANGED patchVars

Init == HashInit /\ PatchInit

BytesSpec ==
  /\ Init
  /\ [][Sha1Step \/ PatchStep]_BytesVars
  /\ WF_BytesVars(InFinal)

=============================================================================

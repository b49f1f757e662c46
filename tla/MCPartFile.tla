------------------------------ MODULE MCPartFile ------------------------------
(* Instances of PartFile: a remote file that stays, and one that is replaced *)
(* by a longer and then by a shorter version.                                *)
EXTENDS PartFile

OneVersion    == <<4>>
ThreeVersions == <<3, 4, 2>>
=============================================================================

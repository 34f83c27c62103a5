--------------------------- MODULE MCSkillBundles ---------------------------
(* SkillBundles with two skill paths, the first of which is the default one.   *)
EXTENDS SkillBundles

CONSTANTS p1, p2

SkillPaths == {p1, p2}
OneName == {"a"}
OnePart == {"hooks"}
=============================================================================

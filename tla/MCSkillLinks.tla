---------------------------- MODULE MCSkillLinks ----------------------------
EXTENDS SkillLinks, TLC

Symmetry == Permutations(Skill)
=============================================================================

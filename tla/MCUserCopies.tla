---------------------------- MODULE MCUserCopies ----------------------------
\* MCUserCopies.cfg: one user, who is there from the beginning or registers,
\* and changes the profile while the call before is under way or after it.
\* MCUserRoles.cfg: an administrator and a user he gives a role.
EXTENDS UserCopies, TLC

MCCalls == Permutations(Calls)
=============================================================================

------------------------------ MODULE MCTracker ------------------------------
(* Small instances of Tracker for TLC. *)
EXTENDS Tracker, TLC

CONSTANTS i1, p1, p2, c1, c2

\* Both pull requests refer to the issue.
RefsAll == [p \in PRs |-> Issues]

MainC1 == {c1} \cap Commits

\* A repository where commits are pushed, with up to MaxFaults faults, or one
\* where pull requests move, with up to one.
OneSide ==
  \/ pushed = {} /\ now = 0 /\ faults <= 1
  \/ /\ \A p \in PRs : remotePR[p] = "none"
     /\ \A n \in 1..Len(sent) : sent[n].kind = "push"

\* The pull requests and the issue are alike.
Alike == Permutations(PRs)
=============================================================================

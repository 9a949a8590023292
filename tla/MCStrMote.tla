----------------------------- MODULE MCStrMote ------------------------------
(* Instances of StrMote for TLC.                                              *)
EXTENDS StrMote, TLC

Quiet == [refusals |-> 0, errors |-> 0, flash |-> 0, erase |-> 0, nacks |-> 0, deletions |-> 0]
With(tasks_, packets, faults) ==
  faults @@ Quiet @@ [tids |-> tasks_, runs |-> packets]

\* One task fills both volumes and goes round once, with two NACKs, or one and a
\* flash that fails; two tasks follow each other, one deleted at any point, with a
\* radio error; two whose cids are the same do, with a NACK; an erasure fails.
MCKeeping ==
  {With({1}, 5, [nacks |-> 2]),
   With({1}, 5, [flash |-> 1, nacks |-> 1]),
   With({1, 2}, 2, [errors |-> 1, nacks |-> 1, deletions |-> 1]),
   With({1, 9}, 2, [nacks |-> 1]),
   With({1}, 2, [erase |-> 1, nacks |-> 1])}

\* A task that may be deleted, a radio that refuses and an erasure that fails.
MCAnswering ==
  {With({1}, 2, [refusals |-> 1, erase |-> 1, nacks |-> 1, deletions |-> 1])}
=============================================================================

---------------------------- MODULE MCGitAutosave ----------------------------
EXTENDS GitAutosave, TLC
CONSTANTS r, s

TitlesOf == (r :> {"A", "B"}) @@ (s :> {"A"})

\* What may happen: the closed gate, rebuilds, failures and the autosave are not
\* combined with one another in full, and two rebuilds begin with no file left over
\* and, the titles being alike, with r under the first.
Left == [edits |-> MaxEdits - used.edits, rebuilds |-> MaxRebuilds - used.rebuilds,
         failures |-> MaxFailures - used.failures]
FewChances ==
    CASE git # "none" -> gate /\ Left = [edits |-> 1, rebuilds |-> 0, failures |-> 1]
      [] git = "none" /\ ~gate -> Left = [edits |-> 1, rebuilds |-> 1, failures |-> 0]
      [] OTHER -> Left \in {[edits |-> 2, rebuilds |-> 0, failures |-> 1],
                            [edits |-> 1, rebuilds |-> 1, failures |-> 1]}
                 \/ /\ Left = [edits |-> 1, rebuilds |-> 2, failures |-> 0]
                    /\ table[r] = <<"A", Content(0)>> /\ disk[<<r, "B">>] = Absent

\* s does not exist yet, and one file of r may be left over.
FewFiles ==
    table[s] = Gone /\ head = disk /\ \A p \in Path \ {<<r, "B">>} : disk[p] = Absent

MCInit == Init /\ FewChances /\ FewFiles
MCSpec == MCInit /\ [][Next]_vars /\ Fairness
=============================================================================

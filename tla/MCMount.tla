-------------------------------- MODULE MCMount --------------------------------
EXTENDS Mount

\* Only one row may exist at the start, and the file may have missed it or its end.
Known == CHOOSE r \in Row : TRUE
FewStarts ==
    /\ \A r \in Row \ {Known} : table[r] = "gone" /\ mirror[r] = "gone"
    /\ <<table[Known], mirror[Known]>> \in
          {<<"mine", "gone">>, <<"gone", "other">>, <<"mine", "other">>}

MCInit == Init /\ FewStarts
MCSpec == MCInit /\ [][Next]_vars /\ Fairness
=============================================================================

--------------------------- MODULE MCSqlProposals ---------------------------
(* Small instances of SqlProposals for TLC.                                *)
EXTENDS SqlProposals, TLC

On(lockdown) == [sql_enabled |-> TRUE, emergency_disabled |-> FALSE,
                 safety_lockdown_enabled |-> lockdown]
Killed == [On(FALSE) EXCEPT !.emergency_disabled = TRUE]
Off == [On(FALSE) EXCEPT !.sql_enabled = FALSE]

OpenOnly == {On(FALSE)}
OpenOrKilled == {On(FALSE), Killed}
AllConfigs == {On(FALSE), On(TRUE), Killed, Off}

Interchangeable ==
    Permutations(Proposals) \union Permutations(Requests)
        \union Permutations(Workers) \union Permutations(Users)
=============================================================================

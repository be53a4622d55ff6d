---------------------------- MODULE MCChatTurns ----------------------------
\* A small instance of ChatTurns: the configurations that route differently.
EXTENDS ChatTurns, TLC

CONSTANTS r1, r2, alice, bob

Enabled == [sql |-> TRUE, emergency |-> FALSE, lockdown |-> FALSE, mode |-> "enforce"]

Settings == {Enabled,
             [Enabled EXCEPT !.emergency = TRUE],
             [Enabled EXCEPT !.lockdown = TRUE, !.mode = "monitor"]}

OneSetting == {Enabled}

Alike == Permutations({r1, r2})

=============================================================================

---------------------------- MODULE MCSoundCards ----------------------------
EXTENDS SoundCards

CONSTANTS p1, p2
\* Two pads are the fewest whose cards can be confused.
MCPads == {p1, p2}

\* Both invariants are about what comes before the first guess, and a guess is
\* taken back by nothing but a boot, which starts afresh.
BeforeAnyGuess == ~guessed
=============================================================================

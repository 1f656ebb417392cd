----------------------------- MODULE MCSignals -----------------------------
EXTENDS Signals

\* Two signals of which one is shifted into the place of the other.
TwoSignals == {<<First, 2>>, <<First, 3>>}
=============================================================================

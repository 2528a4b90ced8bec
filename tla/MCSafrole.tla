------------------------------- MODULE MCSafrole -------------------------------
EXTENDS Safrole

CONSTANTS v1, v2, v3

\* Two schedules, of which one has the offender.
MCGenesis == <<v1, v2>>
MCValidatorSets == {MCGenesis, <<v2, v3>>}
==============================================================================

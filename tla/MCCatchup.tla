------------------------------- MODULE MCCatchup -------------------------------
EXTENDS Catchup
MCKrxDays == {0, 2}
MCUsDays == {1}
=============================================================================

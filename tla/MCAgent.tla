------------------------------ MODULE MCAgent ------------------------------
EXTENDS Agent, TLC

CONSTANTS t1, t2

OneTask == {t1}
TwoTasks == {t1, t2}
=============================================================================

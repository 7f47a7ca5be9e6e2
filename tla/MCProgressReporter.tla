------------------------ MODULE MCProgressReporter -------------------------
EXTENDS ProgressReporter, TLC

CONSTANTS u1, u2

MCUser == {u1, u2}
AllOps == {"current_params", "set_concurrency", "stats", "reset"}
Nobody == {}
NoOps == {}
=============================================================================

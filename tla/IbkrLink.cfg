CONSTANT Symbol = {1, 2}
SPECIFICATION FairSpec
\* The model stops after the shutdown.
CHECK_DEADLOCK FALSE
PROPERTIES Reconnects StreamsStart

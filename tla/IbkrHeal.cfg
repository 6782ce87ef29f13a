CONSTANT Symbol = {1}
SPECIFICATION FairSpec
\* The model stops after the shutdown.
CHECK_DEADLOCK FALSE
PROPERTY StreamsHeal

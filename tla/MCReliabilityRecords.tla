------------------------ MODULE MCReliabilityRecords ------------------------
\* The records of an item with two attempts, deaths of the process and a call
\* that raises.
EXTENDS ReliabilityRecords
=============================================================================

---------------------------- MODULE MCTaskWorker ----------------------------
EXTENDS TaskWorker
=============================================================================

----------------------------- MODULE MCJobWorker -----------------------------
EXTENDS JobWorker

CONSTANT w1

=============================================================================

-------------------------- MODULE MCIdleMaintenance --------------------------
EXTENDS IdleMaintenance

\* Requests whose changes are followed by a request for maintenance.  To stage
\* is to remove what was only staged, as far as this model goes.
Committing == {"commit", "defer", "remove"}

\* A reader and a writer.
ReadAndCommit == {"read", "commit"}

=============================================================================

------------------------------ MODULE MCLogsDB ------------------------------
EXTENDS LogsDB
=============================================================================

------------------------------ MODULE MCServer ------------------------------
\* A replica that migrates on start next to a migrate command, as another replica
\* would be until it is migrated.
EXTENDS Server

MCEnv == [s \in Servers |-> "true"]
=============================================================================

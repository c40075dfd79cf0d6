------------------------------ MODULE MC_Session ------------------------------
EXTENDS Session, TLC

CONSTANTS p0, p1, p2, m0, m1, m2

MC_PubQos == (p0 :> 0) @@ (p1 :> 1) @@ (p2 :> 2)
MC_InQos == (m0 :> 0) @@ (m1 :> 1) @@ (m2 :> 2)
MC_InId == (m0 :> 1) @@ (m1 :> 1) @@ (m2 :> 2)

\* Only the publishes and messages named in the cfg's sets are used.
MC_PubQosOf == [t \in PubToks |-> MC_PubQos[t]]
MC_InQosOf == [m \in InMsgs |-> MC_InQos[m]]
MC_InIdOf == [m \in InMsgs |-> MC_InId[m]]
===============================================================================

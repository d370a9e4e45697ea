----------------------------- MODULE MCMonitor -----------------------------
EXTENDS Monitor

MCLog == {<<"/.env", "/v1/user">>}

MCAtFirst == {{<<"pods", "product">>}}

MCWindow == {"15m", "1h"}
MCMins == [w \in MCWindow |-> IF w = "1h" THEN 60 ELSE 15]
MCParseInt == [w \in MCWindow |-> IF w = "1h" THEN 1 ELSE 15]

=============================================================================

------------------------------- MODULE MCWiki -------------------------------
EXTENDS ConversationWiki, TLC
MCConvOf == [t \in Turns |-> IF t = 9 THEN 2 ELSE 1]
MCRole == [t \in Turns |-> IF t \in {2, 4} THEN "assistant" ELSE "user"]
=============================================================================

----------------------------- MODULE MCOpsTasks -----------------------------
EXTENDS OpsTasks
MCDoes == [o \in Ops |-> IF o = "backup" THEN "export" ELSE IF o = "restore" THEN "restore" ELSE "import"]
MCForeign == {[users |-> {2}, solves |-> {2}], [users |-> {1}, solves |-> {2}]}
=============================================================================

---------------------------- MODULE MCRtcStream ----------------------------
EXTENDS RtcStream

\* An upload with a short answer, a download, and both directions at once.
Upload   == {[s \in Side |-> IF s = "client" THEN 5 ELSE 1]}
Download == {[s \in Side |-> IF s = "client" THEN 0 ELSE 5]}
Exchange == {[s \in Side |-> IF s = "client" THEN 4 ELSE 3]}
Everything == Upload \cup Download \cup Exchange
=============================================================================

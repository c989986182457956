---- MODULE MCNetClient ----
EXTENDS NetClient, TLC
====

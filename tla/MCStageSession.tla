---- MODULE MCStageSession ----
EXTENDS StageSession
====

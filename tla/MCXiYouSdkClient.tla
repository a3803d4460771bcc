---- MODULE MCXiYouSdkClient ----
EXTENDS XiYouSdkClient

CONSTANTS c0, c1

MCCalls == {c0, c1}

\* One call that is sent once and one that is sent twice.
MCRetryCount == [c \in MCCalls |-> IF c = c0 THEN 0 ELSE 1]
====

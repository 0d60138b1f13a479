------------------------------ MODULE MCInbox -------------------------------
\* d1 is the shutdown firing, of a workflow that queues; the other firings are
\* of one workflow, whose overflow policy the configuration chooses.
EXTENDS Inbox
CONSTANTS s1, f1, d1, m1, m2, w1, w2, c1, Policy

WfDef == [s \in Starts |-> IF s = d1 THEN w2 ELSE w1]
OnOverflowDef == [w \in Workflows |-> IF w = w2 THEN "queue" ELSE Policy]
CapDef == [w \in Workflows |-> 1]
ConvDef == [m \in Messages |-> c1]
=============================================================================

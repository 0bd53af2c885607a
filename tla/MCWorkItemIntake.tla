-------------------------- MODULE MCWorkItemIntake --------------------------
\* Three issues on two pages, one foreign blocker.
EXTENDS WorkItemIntake

CONSTANTS a, b, c, x

ThreeIssues == <<a, b, c>>
=============================================================================

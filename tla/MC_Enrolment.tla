---------------------------- MODULE MC_Enrolment ----------------------------
EXTENDS Enrolment

CONSTANTS m1, m2, receiver, h1, h2
=============================================================================

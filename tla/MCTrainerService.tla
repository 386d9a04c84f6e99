-------------------------- MODULE MCTrainerService --------------------------
EXTENDS TrainerService

CONSTANTS c1, c2

\* One thread pauses and another resumes; more add no order of their steps.
=============================================================================

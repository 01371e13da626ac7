\* One change of the value and one fault at any place: a session that is lost or ended by
\* the watchdog, a confirmation that is not waited for, or an initialisation of the field.
SPECIFICATION Spec
CONSTANTS
  Changes = 1
  Faults = 1
INVARIANTS TerminationIsLast
PROPERTIES InterrogationEnds Refreshed FailureShown
CHECK_DEADLOCK FALSE

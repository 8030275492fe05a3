\* Two calls and an authorization on a provider that rotates and one that does
\* not: two puts of one provider, or of two, with every failure between them.
CONSTANTS
  Callers = {a1, a2}
  Clis = {c1}
  Providers = {steady, rotates}
  Rotating = {rotates}
  MaxGrant = 2
  Nobody = Nobody
  Torn = Torn
SPECIFICATION Spec
PROPERTIES OnlyFailuresLose CallsEnd
CHECK_DEADLOCK FALSE

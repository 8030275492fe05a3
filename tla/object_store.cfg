\* Two requests of two skills on one object: they put, delete and read it at
\* once, fail and die between any two steps.  No symmetry: liveness is checked.
CONSTANTS
  Callers = {c1, c2}
  NoCaller = NoCaller
  Skills = {s, t}
  Ids = {x}
  Contents = {open, hidden}
  PublicContents = {open}
  Wanted = {hidden}
  Limit = 1
  MaxVersions = 3
SPECIFICATION Spec
INVARIANTS AnswerStands TombstoneOfVersion
PROPERTIES IsVersionedLog RequestsEnd
CHECK_DEADLOCK FALSE

\* Two requests and two seeders on a default domain and another one: every
\* pair of them can race on either domain, with the user in between.  Two
\* terminals give three commands on the configuration file; two chats and the
\* command line write a skill three times.
CONSTANTS
  Requests = {r1, r2}
  Seeders = {s1, s2}
  Domains = {known, other}
  Defaults = {known}
  MaxCount = 1
  Terminals = {t1, t2}
  Ids = {"a", "b"}
  MaxCommands = 3
  Callers = {c1, c2}
  MaxVersions = 3
SYMMETRY Symmetry
SPECIFICATION CommandsSpec
INVARIANTS AllowExplained AgentsAsCommanded TokenOfFirstRun RestartChangesNothing
PROPERTY SettledStands
CHECK_DEADLOCK FALSE

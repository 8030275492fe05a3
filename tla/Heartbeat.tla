----------------------------- MODULE Heartbeat -----------------------------
(***************************************************************************)
(* The heartbeat goroutine of one agent (internal/agent/heartbeat.go) and  *)
(* its spending windows.                                                   *)
(*                                                                         *)
(* In chat mode the heartbeat is the goroutine that calls Chat; in skill   *)
(* mode it runs a code skill while a user's goroutine calls Chat, and with *)
(* the heartbeat off there is the user's only.  A tick of CostWindows is   *)
(* an hour of the day here.                                                *)
(***************************************************************************)
EXTENDS CostWindows

CONSTANTS
  Day,              \* hours of a day
  DefaultInterval,  \* ticks between heartbeats unless configured
  Malformed,        \* a config string that does not parse, or is empty
  IntervalStrings,  \* what heartbeat.interval may hold: a number of ticks ...
  QuietStrings      \* and heartbeat.quiet_hours: a pair of hours ...

ASSUME HeartbeatAssumption ==
  /\ Day \in Nat \ {0} /\ DefaultInterval \in Nat \ {0}
  /\ \A i \in IntervalStrings \ {Malformed} : i \in Nat \ {0}
  /\ \A q \in QuietStrings \ {Malformed} : q \in (0..Day) \X (0..Day)

VARIABLES
  hc,         \* the HeartbeatConfig; mode is "off", "chat" or "skill"
  hour,       \* hour of the day
  elapsed,    \* ticks since the ticker last fired
  due,        \* the ticker's channel holds a tick (it has room for one)
  skill,      \* the heartbeat's skill: "idle" or "running"
  cancelled,  \* ctx is done
  stopped     \* the goroutine has returned

beatVars == <<hc, hour, elapsed, due, skill, cancelled, stopped>>

\* ParseHeartbeatConfig: what does not parse keeps its default, and -1 is
\* no quiet hours.
ParseHeartbeatConfig(mode, interval, quiet) ==
  [mode |-> mode,
   interval |-> IF interval = Malformed THEN DefaultInterval ELSE interval,
   quietStart |-> IF quiet = Malformed THEN -1 ELSE quiet[1],
   quietEnd |-> IF quiet = Malformed THEN 0 ELSE quiet[2]]

HeartbeatInit ==
  /\ Init
  /\ hc \in {ParseHeartbeatConfig(mode, i, q) :
               mode \in {"off", "chat", "skill"},
               i \in IntervalStrings, q \in QuietStrings}
  /\ hour \in 0..(Day - 1)
  /\ elapsed = 0 /\ due = FALSE /\ skill = "idle" /\ cancelled = FALSE
  /\ stopped = (hc.mode = "off")

\* Mutant: quiet hours that pass midnight are quiet only where both hold.
IsQuietHourNoWrap ==
  hc.quietStart >= 0 /\ hour >= hc.quietStart /\ hour < hc.quietEnd

\* isQuietHour
IsQuietHour ==
  /\ hc.quietStart >= 0
  /\ IF hc.quietStart < hc.quietEnd
     THEN hour >= hc.quietStart /\ hour < hc.quietEnd
     ELSE hour >= hc.quietStart \/ hour < hc.quietEnd

\* checkCostWindows
Paused == \E w \in Windows : Exceeded(w)

\* The goroutine is in its select.
Waiting ==
  ~stopped /\ skill = "idle" /\ (hc.mode = "chat" => \A c \in Chats : at[c] = "idle")

-----------------------------------------------------------------------------
\* Mutant: a heartbeat that is left out is the last one.
SkipReturns ==
  /\ Waiting /\ due /\ (IsQuietHour \/ Paused)
  /\ due' = FALSE /\ stopped' = TRUE
  /\ UNCHANGED <<vars, hc, hour, elapsed, skill, cancelled>>

\* A tick in a quiet hour or while the agent is paused is used up.
Skip ==
  /\ Waiting /\ due /\ (IsQuietHour \/ Paused)
  /\ due' = FALSE
  /\ UNCHANGED <<vars, hc, hour, elapsed, skill, cancelled, stopped>>

\* Chat with HEARTBEAT.md: its call does everything a user's call does.
BeatChat(c) ==
  /\ Waiting /\ due /\ hc.mode = "chat" /\ ~IsQuietHour
  /\ Admit(c)
  /\ due' = FALSE
  /\ UNCHANGED <<hc, hour, elapsed, skill, cancelled, stopped>>

\* runSkillHeartbeat (a skill that is missing ends at once).
BeatSkill ==
  /\ Waiting /\ due /\ hc.mode = "skill" /\ ~IsQuietHour /\ ~Paused
  /\ due' = FALSE
  /\ skill' = "running"
  /\ UNCHANGED <<vars, hc, hour, elapsed, cancelled, stopped>>

\* It fails, exits with a code that is not 0, or its output is logged.
SkillEnds ==
  /\ skill = "running"
  /\ skill' = "idle"
  /\ UNCHANGED <<vars, hc, hour, elapsed, due, cancelled, stopped>>

\* The controller cancels ctx; select may still take a tick that is due.
Cancel ==
  /\ ~cancelled /\ ~stopped
  /\ cancelled' = TRUE
  /\ UNCHANGED <<vars, hc, hour, elapsed, due, skill, stopped>>

Stop ==
  /\ Waiting /\ cancelled
  /\ stopped' = TRUE
  /\ UNCHANGED <<vars, hc, hour, elapsed, due, skill, cancelled>>

\* Somebody else's Chat.
UserCalls(c) == hc.mode # "chat" /\ Admit(c) /\ UNCHANGED beatVars

ChatStep(c) ==
  /\ Respond(c) \/ RequestFails(c) \/ Load(c) \/ Store(c)
  /\ UNCHANGED beatVars

\* An hour passes: select has long taken a tick it was waiting for.  A
\* ticker that fires into a full channel drops the tick.
Hour ==
  /\ ~(Waiting /\ (due \/ cancelled))
  /\ Tick
  /\ hour' = (hour + 1) % Day
  /\ elapsed' = (elapsed + 1) % hc.interval
  /\ due' = (~stopped /\ (due \/ elapsed' = 0))
  /\ UNCHANGED <<hc, skill, cancelled, stopped>>

HeartbeatNext ==
  \/ Skip \/ BeatSkill \/ SkillEnds \/ Cancel \/ Stop \/ Hour
  \/ \E c \in Chats : BeatChat(c) \/ UserCalls(c) \/ ChatStep(c)

Select == Skip \/ BeatSkill \/ Stop \/ \E c \in Chats : BeatChat(c)

\* Fairness: time passes whatever is being recorded, and a goroutine that can
\* run does.  No user has to call, nobody has to cancel, and neither a Chat
\* nor a skill has to end: a child of a tool or of the skill that keeps its
\* output open can hold it for ever.
HeartbeatSpec ==
  /\ HeartbeatInit /\ [][HeartbeatNext]_<<vars, beatVars>>
  /\ SF_<<vars, beatVars>>(Hour)
  /\ WF_<<vars, beatVars>>(Select)
  /\ \A c \in Chats : WF_<<vars, beatVars>>((Load(c) \/ Store(c)) /\ UNCHANGED beatVars)

-----------------------------------------------------------------------------
\* The hours from quietStart until quietEnd, past midnight if need be, and
\* the whole day when both are the same.
QuietLength ==
  hc.quietEnd - hc.quietStart + (IF hc.quietStart < hc.quietEnd THEN 0 ELSE Day)

QuietAt(h) ==
  /\ hc.quietStart >= 0
  /\ \E k \in 0..(QuietLength - 1) : hc.quietStart + k \in {h, h + Day}

(***************************************************************************)
(* The heartbeat starts nothing in its quiet hours or while a window is    *)
(* used up by what was really paid (but for what is just being recorded):  *)
(* neither with a tick that fired before and waited for the last heartbeat *)
(* to end, nor after midnight.                                             *)
(***************************************************************************)
QuietKept ==
  [][due /\ ~due' /\ ((\E c \in Chats : at[c] # at'[c]) \/ skill # skill') =>
       /\ ~QuietAt(hour)
       /\ Recording \/ \A w \in Windows : PaidSinceStart(w) < Limit[w]]_<<vars, beatVars>>

\* The ticker, which starts with the controller, fires at these hours.
TickHours == {(hour + k * hc.interval) % Day : k \in 1..Day}

(***************************************************************************)
(* If not all hours its ticker fires at are quiet ones, a chat heartbeat   *)
(* comes again and again until it is cancelled, unless one lasts for ever: *)
(* the hours it spends paused, asleep or busy never keep it from the next  *)
(* one.  (A skill heartbeat can be kept off by a user who uses up the      *)
(* windows.)                                                               *)
(***************************************************************************)
HeartbeatRuns ==
  (\E h \in TickHours : ~QuietAt(h)) =>
    /\ hc.mode = "chat" => []<>(cancelled \/ \E c \in Chats : at[c] = "call")
    /\ hc.mode = "skill" => []<>(cancelled \/ Paused \/ skill = "running")
=============================================================================

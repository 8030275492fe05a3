----------------------------- MODULE Controller -----------------------------
(***************************************************************************)
(* `smithly start` (cmd/smithly/cmd_start.go) from loading the agents to   *)
(* the end of the process: the gateway's chat requests                     *)
(* (internal/gateway/gateway.go), one Telegram channel                     *)
(* (internal/channels/telegram.go) and the goroutine that waits for a      *)
(* signal.  What a chat does is ChatHistory's; here it begins and ends.    *)
(*                                                                         *)
(* Telegram's updates are numbered 1, 2, ...  Its server keeps an update   *)
(* until a getUpdates asks for a larger offset.                            *)
(***************************************************************************)
EXTENDS Integers, Sequences, SequencesExt

CONSTANTS
  Apps,         \* HTTP clients, of one chat request each
  Agents,       \* number of agents in the configuration
  Updates,      \* number of updates Telegram will ever have
  TextUpdates,  \* those that are a message with a text
  MaxStarts     \* bound: times the program is started

VARIABLES
  proc,       \* main: "down", "loading", "starting", "listening", "serving",
              \* "returned" (from gw.Start), "exiting"
  starts,     \* times the program was started
  loaded,     \* agents registered
  server,     \* gw.server is set
  closing,    \* gw.server.Shutdown has closed the listener
  sig,        \* the signal goroutine: "none", "waiting", the server it is
              \* shutting down, "draining" the gateway, "cancel", "done"
  cancelled,  \* ctx is done
  dbOpen,
  exit,       \* how the last process ended
  request,    \* a client's request
  inside,     \* the other servers with a request that they still serve
  tg,         \* the Telegram goroutine: "off", "verifying", "top", "retrying",
              \* "batch", "chatting", "ended"
  offset,     \* Telegram.offset
  batch,      \* updates of the last poll that are not handled yet
  given,      \* updates this process has given to Chat
  sent,       \* updates users have sent so far
  confirmed,  \* Telegram's server has dropped the updates below this
  handled     \* updates whose Chat returned while ctx was not done

mainVars == <<proc, starts, loaded, server, closing, exit>>
sigVars == <<sig, cancelled, dbOpen>>
tgVars == <<tg, offset, batch, given>>
serverVars == <<sent, confirmed, handled>>
requestVars == <<request, inside>>
startVars == <<mainVars, sigVars, requestVars, tgVars, serverVars>>

\* The gatekeeper's proxy and the sidecar, which listen before an agent is
\* loaded, in the order in which they are shut down.
Others == {"gatekeeper", "sidecar"}

Larger(a, b) == IF a > b THEN a ELSE b

StartInit ==
  /\ proc = "down" /\ starts = 0 /\ loaded = 0 /\ server = FALSE
  /\ closing = FALSE /\ exit = "none"
  /\ sig = "none" /\ cancelled = FALSE /\ dbOpen = FALSE
  /\ request = [c \in Apps |-> "none"] /\ inside = {}
  /\ tg = "off" /\ offset = 0 /\ batch = <<>> /\ given = <<>>
  /\ sent = 0 /\ confirmed = 0 /\ handled = {}

Running == proc # "down"

\* The process is gone: its requests get no response, what was in memory
\* (the offset is) is lost.
Gone(how) ==
  /\ proc' = "down" /\ exit' = how
  /\ server' = FALSE /\ closing' = FALSE /\ loaded' = 0
  /\ sig' = "none" /\ cancelled' = FALSE /\ dbOpen' = FALSE
  /\ request' = [c \in Apps |->
                   IF request[c] = "chatting" THEN "lost" ELSE request[c]]
  /\ inside' = {}
  /\ tg' = "off" /\ offset' = 0 /\ batch' = <<>> /\ given' = <<>>
  /\ UNCHANGED <<starts, serverVars>>

-----------------------------------------------------------------------------
\* cmdStart opens the store and starts sidecar and gatekeeper.
Start ==
  /\ ~Running /\ starts < MaxStarts
  /\ proc' = "loading" /\ starts' = starts + 1 /\ dbOpen' = TRUE
  /\ UNCHANGED <<loaded, server, closing, exit, sig, cancelled, requestVars,
                 tgVars, serverVars>>

\* An agent is loaded and registered; its BOOT.md may fail.
LoadAgent ==
  /\ proc = "loading" /\ loaded < Agents
  /\ loaded' = loaded + 1
  /\ UNCHANGED <<proc, starts, server, closing, exit, sigVars, requestVars,
                 tgVars, serverVars>>

\* log.Fatalf: an agent cannot be loaded, or a channel names none.
LoadFails == proc = "loading" /\ Gone("fatal")

\* The channel's and the signal's goroutines.
StartChannels ==
  /\ proc = "loading" /\ loaded = Agents
  /\ proc' = "starting" /\ tg' = "verifying" /\ sig' = "waiting"
  /\ UNCHANGED <<starts, loaded, server, closing, exit, cancelled, dbOpen,
                 requestVars, offset, batch, given, serverVars>>

\* gw.Start: the server is made ...
SetServer ==
  /\ proc = "starting"
  /\ server' = TRUE /\ proc' = "listening"
  /\ UNCHANGED <<starts, loaded, closing, exit, sigVars, requestVars, tgVars,
                 serverVars>>

\* ... and serves.  The port may be taken; Serve after Shutdown returns.
Listen ==
  /\ proc = "listening"
  /\ proc' \in IF closing THEN {"returned"} ELSE {"serving", "returned"}
  /\ UNCHANGED <<starts, loaded, server, closing, exit, sigVars, requestVars,
                 tgVars, serverVars>>

\* Serve returns as soon as its listener is closed, whoever is still served.
ServeReturns ==
  /\ proc = "serving" /\ closing
  /\ proc' = "returned"
  /\ UNCHANGED <<starts, loaded, server, closing, exit, sigVars, requestVars,
                 tgVars, serverVars>>

\* main: an error before ctx is done is fatal.  Either way the store is
\* closed, and goroutines have until the exit to notice.
CloseStore ==
  /\ proc = "returned"
  /\ proc' = "exiting" /\ cancelled' = TRUE /\ dbOpen' = FALSE
  /\ exit' = IF cancelled THEN "clean" ELSE "fatal"
  /\ UNCHANGED <<starts, loaded, server, closing, sig, requestVars, tgVars,
                 serverVars>>

Exit == proc = "exiting" /\ Gone(exit)

\* Killed, out of memory, or a signal before its goroutine waits for it.
Crash == Running /\ starts < MaxStarts /\ Gone("crash")

-----------------------------------------------------------------------------
\* SIGINT or SIGTERM; a second one is ignored.
Signal ==
  /\ sig = "waiting"
  /\ sig' = "gatekeeper"
  /\ UNCHANGED <<mainVars, cancelled, dbOpen, requestVars, tgVars, serverVars>>

\* Shutdown has closed the server's listener.
Stopping(s) ==
  \/ sig \notin {"none", "waiting", "gatekeeper"}
  \/ s = "gatekeeper" /\ sig = "gatekeeper"

\* A request to one of the other servers (one stands for all that it serves).
\* A skill's request to the proxy lasts as long as its site and the skill take.
RequestBegins(s) ==
  /\ Running /\ ~Stopping(s) /\ s \notin inside
  /\ inside' = inside \union {s}
  /\ UNCHANGED <<mainVars, sigVars, request, tgVars, serverVars>>

RequestEnds(s) ==
  /\ s \in inside
  /\ inside' = inside \ {s}
  /\ UNCHANGED <<mainVars, sigVars, request, tgVars, serverVars>>

\* A Shutdown returns when its server has no active request, and nobody
\* cancels its ctx: gatekeeper first, then the sidecar.
ShutDownOther ==
  /\ sig \in Others \ inside
  /\ sig' = IF sig = "gatekeeper" THEN "sidecar" ELSE "gateway"
  /\ UNCHANGED <<mainVars, cancelled, dbOpen, requestVars, tgVars, serverVars>>

\* Mutant: cancelling ctx is taken to stop the gateway.
ShutDownNothing ==
  /\ sig = "gateway"
  /\ sig' = "cancel"
  /\ UNCHANGED <<mainVars, cancelled, dbOpen, requestVars, tgVars, serverVars>>

\* gw.Shutdown closes the listener; it does nothing before gw.Start has made
\* the server.
ShutDownGateway ==
  /\ sig = "gateway"
  /\ IF server THEN closing' = TRUE /\ sig' = "draining"
     ELSE sig' = "cancel" /\ UNCHANGED closing
  /\ UNCHANGED <<proc, starts, loaded, server, exit, cancelled, dbOpen,
                 requestVars, tgVars, serverVars>>

Drained ==
  /\ sig = "draining" /\ \A c \in Apps : request[c] # "chatting"
  /\ sig' = "cancel"
  /\ UNCHANGED <<mainVars, cancelled, dbOpen, requestVars, tgVars, serverVars>>

CancelContext ==
  /\ sig = "cancel"
  /\ sig' = "done" /\ cancelled' = TRUE
  /\ UNCHANGED <<mainVars, dbOpen, requestVars, tgVars, serverVars>>

-----------------------------------------------------------------------------
\* A chat request is refused by the rate limiter, for its token, agent or
\* body, or it calls Chat.
Accept(c) ==
  /\ proc = "serving" /\ ~closing /\ request[c] = "none"
  /\ \E r \in {"refused", "chatting"} : request' = [request EXCEPT ![c] = r]
  /\ UNCHANGED <<mainVars, sigVars, inside, tgVars, serverVars>>

\* Chat returns an answer or an error, and the response reaches the client
\* unless it has gone or chatTimeout has passed.  Without its store a chat
\* cannot end well.
ChatEnds(c) ==
  /\ request[c] = "chatting"
  /\ \E r \in {"error", "lost"} \union (IF dbOpen THEN {"answered"} ELSE {}) :
       request' = [request EXCEPT ![c] = r]
  /\ UNCHANGED <<mainVars, sigVars, inside, tgVars, serverVars>>

-----------------------------------------------------------------------------
UserSends ==
  /\ sent < Updates
  /\ sent' = sent + 1
  /\ UNCHANGED <<mainVars, sigVars, requestVars, tgVars, confirmed, handled>>

\* Telegram.Start: getMe is tried once.
Verify ==
  /\ tg = "verifying"
  /\ tg' \in IF cancelled THEN {"ended"} ELSE {"top", "ended"}
  /\ UNCHANGED <<mainVars, sigVars, requestVars, offset, batch, given, serverVars>>

\* getUpdates: the server drops what is below the offset and answers with
\* some of the rest, from the oldest on.
Poll ==
  /\ tg = "top" /\ ~cancelled
  /\ confirmed' = Larger(confirmed, offset)
  /\ \E last \in 0..sent :
       batch' = [i \in 1..(last + 1 - Larger(confirmed', 1)) |->
                   Larger(confirmed', 1) + i - 1]
  /\ tg' = "batch"
  /\ UNCHANGED <<mainVars, sigVars, requestVars, offset, given, sent, handled>>

\* The request or its answer is lost.
PollFails ==
  /\ tg = "top" /\ ~cancelled
  /\ confirmed' \in {confirmed, Larger(confirmed, offset)}
  /\ tg' = "retrying"
  /\ UNCHANGED <<mainVars, sigVars, requestVars, offset, batch, given, sent, handled>>

\* Five seconds have passed.
Retry ==
  /\ tg = "retrying" /\ ~cancelled
  /\ tg' = "top"
  /\ UNCHANGED <<mainVars, sigVars, requestVars, offset, batch, given, serverVars>>

TelegramEnds ==
  /\ tg \in {"top", "retrying"} /\ cancelled
  /\ tg' = "ended"
  /\ UNCHANGED <<mainVars, sigVars, requestVars, offset, batch, given, serverVars>>

\* Mutant: the offset is the last update's, not the next one's.
TakeSameOffset ==
  /\ tg = "batch" /\ batch # <<>>
  /\ LET u == Head(batch)
     IN  /\ offset' = Larger(offset, u)
         /\ IF u \in TextUpdates
            THEN tg' = "chatting" /\ given' = Append(given, u)
            ELSE UNCHANGED <<tg, given>>
  /\ batch' = Tail(batch)
  /\ UNCHANGED <<mainVars, sigVars, requestVars, serverVars>>

\* Mutant: a message is handled in a goroutine of its own.
TakeAsync ==
  /\ tg = "batch" /\ batch # <<>>
  /\ offset' = Larger(offset, Head(batch) + 1)
  /\ given' = IF Head(batch) \in TextUpdates THEN Append(given, Head(batch)) ELSE given
  /\ batch' = Tail(batch)
  /\ UNCHANGED <<mainVars, sigVars, requestVars, tg, serverVars>>

\* The next update of the batch: the offset passes it before it is handled,
\* and what has no text is dropped.
Take ==
  /\ tg = "batch" /\ batch # <<>>
  /\ LET u == Head(batch)
     IN  /\ offset' = Larger(offset, u + 1)
         /\ IF u \in TextUpdates
            THEN tg' = "chatting" /\ given' = Append(given, u)
            ELSE UNCHANGED <<tg, given>>
  /\ batch' = Tail(batch)
  /\ UNCHANGED <<mainVars, sigVars, requestVars, serverVars>>

\* handleMessage: Chat returns an answer or an error, which is sent in
\* pieces; a message that cannot be sent is only logged.  Once ctx is done
\* Chat and the sending fail.
HandleEnds ==
  /\ tg = "chatting"
  /\ tg' = "batch"
  /\ handled' = IF cancelled THEN handled ELSE handled \union {Last(given)}
  /\ UNCHANGED <<mainVars, sigVars, requestVars, offset, batch, given, sent, confirmed>>

BatchDone ==
  /\ tg = "batch" /\ batch = <<>>
  /\ tg' = "top"
  /\ UNCHANGED <<mainVars, sigVars, requestVars, offset, batch, given, serverVars>>

-----------------------------------------------------------------------------
Loading == LoadAgent \/ LoadFails \/ StartChannels \/ SetServer

Serving == Listen \/ ServeReturns \/ CloseStore \/ Exit

SignalSteps ==
  ShutDownOther \/ ShutDownGateway \/ Drained \/ CancelContext

TelegramSteps ==
  Verify \/ Poll \/ PollFails \/ Retry \/ TelegramEnds \/ Take
  \/ HandleEnds \/ BatchDone

StartNext ==
  \/ Start \/ Crash \/ Signal \/ UserSends
  \/ Loading \/ Serving \/ SignalSteps \/ TelegramSteps
  \/ \E c \in Apps : Accept(c) \/ ChatEnds(c)
  \/ \E s \in Others : RequestBegins(s) \/ RequestEnds(s)

\* Fairness: main, once it serves, and the signal's goroutine run when they
\* can.  No chat and no request has to end: what they wait for may not.
StartFairness == WF_startVars(Serving) /\ WF_startVars(SignalSteps)

StartSpec == StartInit /\ [][StartNext]_startVars /\ StartFairness

-----------------------------------------------------------------------------
(***************************************************************************)
(* No message is lost on Telegram's side: an update with a text that its   *)
(* server has dropped was handled while the program was not ending,        *)
(* whatever polls were lost and whenever the process died, was shut down   *)
(* and was started again.  (What was not handled is delivered again, what  *)
(* was handled before a death possibly too.)                               *)
(***************************************************************************)
ConfirmedIsHandled ==
  \A u \in TextUpdates \cap 1..(confirmed - 1) : u \in handled

(***************************************************************************)
(* One process gives an update to Chat at most once, and in the order of   *)
(* the updates: only a restart makes the agent answer a message again.     *)
(***************************************************************************)
GivenOnceInOrder ==
  \A i \in 1..(Len(given) - 1) : given[i] < given[i + 1]

\* The shutdown waits for a request: of one of the other servers, or a chat.
HeldUp ==
  sig \in inside \/ (sig = "draining" /\ \E c \in Apps : request[c] = "chatting")

(***************************************************************************)
(* A signal that comes once gw.Start has made the server ends the process, *)
(* whatever the order of main's steps and the signal goroutine's, unless a *)
(* request that never ends holds up the Shutdown of its server: nothing    *)
(* else keeps it, a chat of the Telegram channel neither.  (A signal that  *)
(* comes between the signal goroutine's start and the making of the server *)
(* does not: gw.Shutdown finds no server and the gateway then serves for   *)
(* ever, deaf to further signals.)                                         *)
(***************************************************************************)
ShutdownEnds == <>[]HeldUp \/ ((sig = "gatekeeper" /\ server) ~> ~Running)
=============================================================================

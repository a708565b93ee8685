----------------------------- MODULE Lifecycle ------------------------------
(***************************************************************************)
(* The process from main to exit: construction, Run, signals, and the      *)
(* destruction of BoWWServer's members in reverse order while other        *)
(* threads may still run: ticker (joined), watcher and mDNS poll loop      *)
(* (detached), the sound device's worker (joined by alsa_manager_).  One   *)
(* group records with WavWriter or streams live; other groups of a device  *)
(* appear as what they do to its worker.                                   *)
(*                                                                         *)
(* A destroyed object that is used has no defined behaviour: stale records *)
(* by whom, and the model goes on.                                         *)
(***************************************************************************)
EXTENDS WavWriter, Sequences

VARIABLES
  main,      \* where the main thread is
  g_server,  \* the signal handler has a server
  asked,     \* a signal has called Stop
  stopped,   \* endpoint_.stop() was called: it sticks
  running_,
  ticker,    \* the thread: "none", "check", "tick" (holds group_mutex_), "publish", "done"
  watcher,   \* the thread runs
  mdns,      \* the poll loop: "none", "loop", "quitting", "done"
  entries,   \* services in the Avahi entry group
  groups_,   \* the group exists
  live,      \* is_live_streaming_
  worker,    \* of the device: "none", "next", "playing", "trigger", "done"
  queue,     \* its playback_queue: the group's recordings
  audio,     \* the one it plays: -1 if none
  gone,      \* members destroyed so far
  refused,   \* history: listen threw
  stale      \* history: who used a destroyed object

serverVars == <<g_server, asked, stopped, running_>>
mdnsVars   == <<mdns, entries>>
playerVars == <<worker, queue, audio>>
deviceVars == <<live, playerVars>>
goneVars   == <<gone, refused, stale>>
processVars ==
  <<main, serverVars, ticker, watcher, mdnsVars, groups_, deviceVars, goneVars>>
lifeVars == <<vars, processVars>>

\* The members of BoWWServer that matter, in the order of their destruction.
Members == <<"ticker_thread_", "mdns_service_", "alsa_manager_", "groups_",
             "config_manager_", "endpoint_">>

Alive(m) == \E k \in gone+1..Len(Members) : Members[k] = m

NextToGo == IF main = "destroy" /\ gone < Len(Members) THEN Members[gone + 1] ELSE "none"

\* The worker was started and has not found its queue empty.
Playing == worker \in {"next", "playing", "trigger"}

Uses(who, ms) == stale' = IF \A m \in ms : Alive(m) THEN stale ELSE stale \union {who}

-----------------------------------------------------------------------------
(***************************************************************************)
(* The main thread.                                                        *)
(***************************************************************************)
\* Only to an empty group.
Added(n) == IF n = 0 THEN 1 ELSE n

CreateService == entries' = Added(entries)

\* MDNSService::Start may fail; the client may call back before the poll loop runs.
StartMDNS ==
  \/ mdns' = "loop" /\ (CreateService \/ UNCHANGED entries)
  \/ UNCHANGED mdnsVars

\* Help, an unknown option, or a port that is not a number, whose exception nobody
\* catches, end the process before there is a server.
ParseArgs ==
  /\ main = "args"
  /\ main' \in {"construct", "exit"}
  /\ UNCHANGED <<vars, serverVars, ticker, watcher, mdnsVars, groups_, deviceVars, goneVars>>

\* The constructor goes on without the service.
Construct ==
  /\ main = "construct"
  /\ StartMDNS
  /\ main' = "publish"
  /\ UNCHANGED <<vars, serverVars, ticker, watcher, groups_, deviceVars, goneVars>>

PublishServer ==
  /\ main = "publish"
  /\ g_server' = TRUE
  /\ main' = "load"
  /\ UNCHANGED <<vars, asked, stopped, running_, ticker, watcher, mdnsVars, groups_,
                 deviceVars, goneVars>>

\* LoadConfig makes the group, if the file has it.
LoadConfig ==
  /\ main = "load"
  /\ groups_' \in BOOLEAN
  /\ watcher' = TRUE
  /\ main' = "start"
  /\ UNCHANGED <<vars, serverVars, ticker, mdnsVars, deviceVars, goneVars>>

\* running_ is set whatever a signal has set it to.
StartTicker ==
  /\ main = "start"
  /\ running_' = TRUE
  /\ ticker' = "check"
  /\ main' = "listen"
  /\ UNCHANGED <<vars, g_server, asked, stopped, watcher, mdnsVars, groups_,
                 deviceVars, goneVars>>

\* An exception leaves Run and main's block: g_server keeps its value.
Listen ==
  /\ main = "listen"
  /\ \/ main' = "serve" /\ UNCHANGED refused
     \/ main' = "dtor" /\ refused' = TRUE
  /\ UNCHANGED <<vars, serverVars, ticker, watcher, mdnsVars, groups_, deviceVars, gone, stale>>

ServerAfterRun == FALSE

RunReturns ==
  /\ main = "serve"
  /\ stopped
  /\ g_server' = ServerAfterRun
  /\ main' = "dtor"
  /\ UNCHANGED <<vars, asked, stopped, running_, ticker, watcher, mdnsVars, groups_,
                 deviceVars, goneVars>>

\* Mutant: the destructor relies on the signal's Stop.
RunningAfterDtor_Kept == running_

RunningAfterDtor == FALSE

\* The body of the destructor: Stop, the poll loop is told to quit,
StopAll ==
  /\ main = "dtor"
  /\ running_' = RunningAfterDtor
  /\ stopped' = TRUE
  /\ mdns' = IF mdns = "loop" THEN "quitting" ELSE mdns
  /\ main' = "join"
  /\ UNCHANGED <<vars, g_server, asked, ticker, watcher, entries, groups_, deviceVars,
                 goneVars>>

\* Mutant: the ticker is not joined.
Joined_Not == TRUE

Joined == ticker \in {"none", "done"}

\* and the ticker is joined.
JoinTicker ==
  /\ main = "join"
  /\ Joined
  /\ main' = "destroy"
  /\ UNCHANGED <<vars, serverVars, ticker, watcher, mdnsVars, groups_, deviceVars, goneVars>>

\* Mutant: a stream that is being recorded is abandoned.
DtorCloses_Not == FALSE

\* ~GroupController and ~WavWriter close a file that is open.
DtorCloses == recording

CloseInDtor ==
  /\ NextToGo = "groups_"
  /\ DtorCloses
  /\ Close
  /\ UNCHANGED processVars

PublishInDtor ==
  /\ NextToGo = "groups_"
  /\ Publish
  /\ UNCHANGED processVars

\* ~GroupController closes its live stream on alsa_manager_.
EndLiveInDtor ==
  /\ NextToGo = "groups_"
  /\ groups_ /\ live
  /\ live' = FALSE
  /\ Uses("group", {"alsa_manager_"})
  /\ UNCHANGED <<vars, main, serverVars, ticker, watcher, mdnsVars, groups_, playerVars, gone, refused>>

\* alsa_manager_ joins the worker, which waits for the mutex held around it.
Destroy ==
  /\ NextToGo # "none"
  /\ NextToGo = "alsa_manager_" => ~Playing
  /\ NextToGo = "groups_" => step = "no" /\ ~live /\ ~(recording /\ DtorCloses)
  /\ gone' = gone + 1
  /\ UNCHANGED <<vars, main, serverVars, ticker, watcher, mdnsVars, groups_, deviceVars,
                 refused, stale>>

Exit ==
  /\ main = "destroy"
  /\ gone = Len(Members)
  /\ main' = "exit"
  /\ UNCHANGED <<vars, serverVars, ticker, watcher, mdnsVars, groups_, deviceVars, goneVars>>

Main ==
  \/ ParseArgs \/ Construct \/ PublishServer \/ LoadConfig \/ StartTicker \/ Listen \/ RunReturns
  \/ StopAll \/ JoinTicker \/ CloseInDtor \/ PublishInDtor \/ EndLiveInDtor \/ Destroy \/ Exit

\* The handler runs in the main thread, between two of its steps.  Inside the io
\* loop it may interrupt a section that holds the loop's own lock, which
\* endpoint_.stop() then waits for, for ever.
Signal ==
  /\ main \notin {"exit", "hung"}
  /\ asked' = (asked \/ g_server)
  /\ IF g_server
     THEN /\ running_' = FALSE
          /\ \/ stopped' = TRUE /\ UNCHANGED main
             \/ main = "serve" /\ main' = "hung" /\ UNCHANGED stopped
          /\ Uses("signal", {"endpoint_"})
     ELSE UNCHANGED <<running_, stopped, main, stale>>
  /\ UNCHANGED <<vars, g_server, ticker, watcher, mdnsVars, groups_, deviceVars, gone, refused>>

-----------------------------------------------------------------------------
(***************************************************************************)
(* The other threads.                                                      *)
(***************************************************************************)
Up == main # "exit"

TickerStep(next) ==
  /\ Up
  /\ ticker' = next
  /\ Uses("ticker", {"alsa_manager_", "groups_"})
  /\ UNCHANGED <<main, serverVars, watcher, mdnsVars, groups_, gone, refused>>

CheckRunning ==
  /\ ticker = "check"
  /\ TickerStep(IF running_ THEN "tick" ELSE "done")
  /\ UNCHANGED <<vars, deviceVars>>

NothingToDo ==
  /\ ticker = "tick"
  /\ TickerStep("check")
  /\ UNCHANGED <<vars, deviceVars>>

\* A stream starts, live or recorded, if the group is idle.  The device is taken while
\* its worker runs, or while what is queued waits for another group's stream to end.
StartLive ==
  /\ ticker = "tick"
  /\ groups_ /\ ~live /\ ~recording
  /\ config.place = "device"
  /\ ~Playing /\ queue = <<>>
  /\ live' = TRUE
  /\ TickerStep("check")
  /\ UNCHANGED <<vars, playerVars>>

StartRecording(ok) ==
  /\ ticker = "tick"
  /\ groups_ /\ ~live
  /\ Open(ok)
  /\ TickerStep("check")
  /\ UNCHANGED deviceVars

\* ProcessQueue does nothing while another group streams to the device.
ProcessQueue ==
  /\ worker' \in {worker, IF Playing THEN worker ELSE "next"}
  /\ UNCHANGED audio

\* Another group may have queued a recording meanwhile.
StopLive ==
  /\ ticker = "tick"
  /\ live
  /\ live' = FALSE
  /\ ProcessQueue
  /\ TickerStep("check")
  /\ UNCHANGED <<vars, queue>>

\* Another group ends its stream on the device, or one that it recorded for it.
OthersStop ==
  /\ ticker = "tick"
  /\ ~live
  /\ ProcessQueue
  /\ TickerStep("check")
  /\ UNCHANGED <<vars, live, queue>>

StopRecording ==
  /\ ticker = "tick"
  /\ TimedOut /\ Close
  /\ TickerStep("publish")
  /\ UNCHANGED deviceVars

PublishInTick ==
  /\ ticker = "publish"
  /\ Publish
  /\ TickerStep("publish")
  /\ UNCHANGED deviceVars

\* A recording made for a device is queued, whatever came of its file.
Published ==
  /\ ticker = "publish"
  /\ step = "no"
  /\ IF config.place = "device"
     THEN /\ queue' = Append(queue, Name)
          /\ ProcessQueue
     ELSE UNCHANGED playerVars
  /\ TickerStep("check")
  /\ UNCHANGED <<vars, live>>

Ticker ==
  \/ CheckRunning \/ NothingToDo \/ StartLive \/ StopLive \/ OthersStop \/ StopRecording
  \/ \E ok \in BOOLEAN : StartRecording(ok)
  \/ PublishInTick \/ Published

\* A message with audio.
Audio(ok) ==
  /\ main = "serve"
  /\ ticker \in {"none", "check", "done"}
  /\ Write(ok)
  /\ UNCHANGED processVars

WorkerStep(next) ==
  /\ Up
  /\ worker' = next
  /\ UNCHANGED <<main, serverVars, ticker, watcher, mdnsVars, groups_, live, goneVars>>

\* Whoever destroys alsa_manager_ holds the mutex of the device.
MutexFree == NextToGo # "alsa_manager_"

TakeNext ==
  /\ worker = "next" /\ MutexFree
  /\ queue # <<>>
  /\ audio' = Head(queue)
  /\ queue' = Tail(queue)
  /\ WorkerStep("playing")
  /\ UNCHANGED vars

QueueEmpty ==
  /\ worker = "next" /\ MutexFree
  /\ queue = <<>>
  /\ WorkerStep("done")
  /\ UNCHANGED <<vars, queue, audio>>

\* PlayWavFile returns if the device does not open; a WAV that is not there, or not
\* whole, is played as far as it goes.
Play ==
  /\ worker = "playing" /\ MutexFree
  /\ \/ WorkerStep("next") /\ audio' = -1
     \/ WorkerStep("trigger") /\ UNCHANGED audio
  /\ UNCHANGED <<vars, queue>>

\* Then it writes a trigger, if that opens, from metadata made before the recording.
TriggerPlayed ==
  /\ worker = "trigger"
  /\ json' \in {json, [json EXCEPT ![audio] = NoLength]}
  /\ audio' = -1
  /\ WorkerStep("next")
  /\ UNCHANGED <<clockVars, groupVars, writerVars, temp, dest, written, trouble, queue>>

Worker == TakeNext \/ QueueEmpty \/ Play \/ TriggerPlayed

\* The watcher reads its path and, after a change, may make the group.
Reload ==
  /\ Up
  /\ watcher
  /\ ticker \notin {"tick", "publish"}
  /\ groups_' = TRUE
  /\ Uses("watcher", {"config_manager_", "groups_"})
  /\ UNCHANGED <<vars, main, serverVars, ticker, watcher, mdnsVars, deviceVars, gone, refused>>

ClientCallback ==
  /\ Up
  /\ mdns \in {"loop", "quitting"}
  /\ CreateService
  /\ Uses("mdns", {"mdns_service_"})
  /\ UNCHANGED <<vars, main, serverVars, ticker, watcher, mdns, groups_, deviceVars, gone, refused>>

PollQuits ==
  /\ Up
  /\ mdns = "quitting"
  /\ mdns' = "done"
  /\ UNCHANGED <<vars, main, serverVars, ticker, watcher, entries, groups_, deviceVars, goneVars>>

Clock == Up /\ Tick /\ UNCHANGED processVars

-----------------------------------------------------------------------------
LifecycleInit ==
  /\ Init
  /\ main = "args"
  /\ g_server = FALSE
  /\ asked = FALSE
  /\ stopped = FALSE
  /\ running_ = FALSE
  /\ ticker = "none"
  /\ watcher = FALSE
  /\ mdns = "none"
  /\ entries = 0
  /\ groups_ = FALSE
  /\ live = FALSE
  /\ worker = "none"
  /\ queue = <<>>
  /\ audio = -1
  /\ gone = 0
  /\ refused = FALSE
  /\ stale = {}

LifecycleNext ==
  \/ Main \/ Signal \/ Ticker
  \/ \E ok \in BOOLEAN : Audio(ok)
  \/ Worker \/ Reload \/ ClientCallback \/ PollQuits \/ Clock

\* Threads run on; signals, messages, the clock and the daemon are not forced.
LifecycleSpec ==
  /\ LifecycleInit
  /\ [][LifecycleNext]_lifeVars
  /\ WF_lifeVars(Main)
  /\ WF_lifeVars(Ticker)

-----------------------------------------------------------------------------
\* The type invariant of the process; the service is advertised once.
LifecycleTypeOK ==
  /\ main \in {"args", "construct", "publish", "load", "start", "listen", "serve", "dtor",
               "join", "destroy", "exit", "hung"}
  /\ g_server \in BOOLEAN /\ asked \in BOOLEAN
  /\ stopped \in BOOLEAN /\ running_ \in BOOLEAN
  /\ ticker \in {"none", "check", "tick", "publish", "done"}
  /\ watcher \in BOOLEAN
  /\ mdns \in {"none", "loop", "quitting", "done"} /\ entries \in 0..1
  /\ groups_ \in BOOLEAN /\ live \in BOOLEAN
  /\ worker \in {"none", "next", "playing", "trigger", "done"}
  /\ queue \in Seq(Seconds) /\ audio \in Seconds \union {-1}
  /\ gone \in 0..Len(Members) /\ refused \in BOOLEAN
  /\ stale \in SUBSET {"signal", "ticker", "group", "watcher", "mdns"}

\* Who uses a destroyed object is one of the two detached threads, a group that is
\* destroyed while it streams live, or the signal handler after listen threw: never
\* the ticker, and never the handler after a regular stop.
StaleExplained ==
  /\ "ticker" \notin stale
  /\ "signal" \in stale => refused

\* When the process has ended, and not by a crash, no recording is left half done:
\* what was being recorded is published as far as the disk took it.
StopPublishes == main = "exit" => ~recording /\ ~is_open_ /\ step = "no"

\* The destructor of the sound manager waits for its worker and the worker for it.
WorkerBlocks == NextToGo = "alsa_manager_" /\ Playing

\* A signal that reached the server ends the process, at whatever point of its start
\* it comes, except where it hits the io loop's lock or a recording is being played.
SignalEnds == asked ~> main \in {"exit", "hung"} \/ WorkerBlocks
=============================================================================

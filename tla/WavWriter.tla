----------------------------- MODULE WavWriter ------------------------------
(***************************************************************************)
(* The class WavWriter, the group that records with it and the files on    *)
(* disk: names that carry the time in seconds, a header written last, and  *)
(* a publication in steps that can each fail.  A process that dies leaves  *)
(* the files of some reachable state behind: what the invariants say of    *)
(* the files, they say of every crash.                                     *)
(*                                                                         *)
(* A name also carries group and client; those of one client of one group  *)
(* are modelled, and a name is its second.  Sizes are counted in chunks.   *)
(*                                                                         *)
(* Streams are timed by steady_clock and named by system_clock.  The model *)
(* has one clock for both: it assumes that nobody sets the wall clock back *)
(* while the server runs.                                                  *)
(***************************************************************************)
EXTENDS Integers

CONSTANTS
  Second,       \* clock ticks in a second
  Timeouts,     \* configurations: arbitration_timeout_ms, vad_no_voice_ms
  SizeLimit,    \* chunks that 32 bits of bytes can count
  MaxTime,      \* bound: clock ticks
  MaxWrites     \* bound: chunks of a stream

ASSUME WriterAssumption ==
  /\ Second \in Nat \ {0}
  /\ Timeouts \subseteq [arbitration : Nat, no_voice : Nat]
  /\ SizeLimit \in Nat \ {0}
  /\ MaxTime \in Nat
  /\ MaxWrites \in Nat

VARIABLES
  config,     \* [timeouts, place (where a recording is published)]
  now,        \* the clock
  recording,  \* is_recording_to_file_
  began,      \* when the stream of the writer's file began
  ended,      \* when the group was last idle
  is_open_,
  good,       \* file_ is good: no write has failed
  data_chunk_size_,
  step,       \* where CloseAndPublish is: "no", "copy", "copying", "remove", "trigger"
  temp,       \* the files by their names: in temp_dir,
  dest,       \* published,
  json,       \* and the duration each trigger reports: -1 if there is none
  written,    \* history: chunks given to the writer since it opened the file
  trouble     \* history: seconds of streams for which some call failed

clockVars  == <<config, now>>
groupVars  == <<recording, began, ended>>
writerVars == <<is_open_, good, data_chunk_size_, step>>
diskVars   == <<temp, dest, json>>
vars == <<clockVars, groupVars, writerVars, diskVars, written, trouble>>

Seconds == 0..(MaxTime \div Second)

\* A recording is published in dest_dir, which may be temp_dir; that for a device
\* stays in temp_dir, under a name that says it is queued.
Places == {"dest_dir", "temp_dir", "device"}

Configs == [timeouts : Timeouts, place : Places]

\* A trigger that reports no duration.
NoLength == -2

\* A file has a size, and a header that says how much data there is.
Missing == [size |-> 0, data |-> 0, whole |-> FALSE, exists |-> FALSE]

\* Mutant: the name does not say when.
NameAt_Fixed(t) == 0

NameAt(t) == t \div Second

\* The file of the stream that began last.
Name == NameAt(began)

Fails(n) == trouble' = trouble \union {n}

-----------------------------------------------------------------------------
Tick ==
  /\ now < MaxTime
  /\ now' = now + 1
  /\ UNCHANGED <<config, groupVars, writerVars, diskVars, written, trouble>>

\* Mutant: the size of the last recording stays.
FreshSize_Kept == data_chunk_size_

FreshSize == 0

\* The file that Open makes, with its header.
Created == [size |-> 0, data |-> FreshSize, whole |-> TRUE, exists |-> TRUE]

\* A stream begins that is to be recorded: Open truncates or makes the file and
\* writes a header for no samples.  If it fails, the stream runs without a file.
Open(ok) ==
  /\ ~recording /\ step = "no"
  /\ now >= ended + config.timeouts.arbitration
  /\ recording' = TRUE
  /\ began' = now
  /\ is_open_' = ok
  /\ good' = ok
  /\ data_chunk_size_' = FreshSize
  /\ written' = 0
  /\ LET n == NameAt(now)
     IN  IF ok
         THEN /\ temp' = [temp EXCEPT ![n] = Created]
              /\ UNCHANGED trouble
         ELSE /\ UNCHANGED temp
              /\ Fails(n)
  /\ UNCHANGED <<clockVars, ended, step, dest, json>>

\* uint32_t.
Counted(size) == (size + 1) % SizeLimit

Grown(file) == [file EXCEPT !.size = @ + 1]

\* The first write that fails ends the file; the size is counted on, in 32 bits.
Write(ok) ==
  /\ recording /\ is_open_ /\ step = "no"
  /\ written < MaxWrites
  /\ written' = written + 1
  /\ data_chunk_size_' = Counted(data_chunk_size_)
  /\ good' = (good /\ ok)
  /\ IF good'
     THEN /\ temp' = [temp EXCEPT ![Name] = Grown(temp[Name])]
          /\ UNCHANGED trouble
     ELSE /\ UNCHANGED temp
          /\ Fails(Name)
  /\ UNCHANGED <<clockVars, groupVars, is_open_, step, dest, json>>

-----------------------------------------------------------------------------
(***************************************************************************)
(* CloseAndPublish.                                                        *)
(***************************************************************************)
Corrected(file, size) == [file EXCEPT !.data = size]

\* The header can only be updated on a good file.
UpdateHeaderSizes(file) ==
  IF good THEN Corrected(file, data_chunk_size_) ELSE file

Idle(next) ==
  /\ recording' = FALSE
  /\ ended' = now
  /\ step' = next

\* CloseAndPublish is called: nothing happens if the file never opened.
Close ==
  /\ recording /\ step = "no"
  /\ IF is_open_
     THEN /\ temp' = [temp EXCEPT ![Name] = UpdateHeaderSizes(temp[Name])]
          /\ Idle("copy")
     ELSE /\ Idle("no")
          /\ UNCHANGED temp
  /\ is_open_' = FALSE
  /\ UNCHANGED <<clockVars, began, good, data_chunk_size_, dest, json, written, trouble>>

\* What comes after the file was closed.
Publishing(at, next) ==
  /\ step = at
  /\ step' = next
  /\ UNCHANGED <<clockVars, groupVars, is_open_, good, data_chunk_size_, written>>

\* What a copy is until it is complete.
Partial(file) ==
  [size |-> file.size, data |-> file.data, whole |-> FALSE, exists |-> file.exists]

StartCopy ==
  /\ config.place # "temp_dir"
  /\ Publishing("copy", "copying")
  /\ dest' = [dest EXCEPT ![Name] = Partial(temp[Name])]
  /\ UNCHANGED <<temp, json, trouble>>

EndCopy ==
  /\ Publishing("copying", "remove")
  /\ dest' = [dest EXCEPT ![Name] = temp[Name]]
  /\ UNCHANGED <<temp, json, trouble>>

Remove ==
  /\ Publishing("remove", "trigger")
  /\ temp' = [temp EXCEPT ![Name] = Missing]
  /\ UNCHANGED <<dest, json, trouble>>

\* The trigger file reports the duration.
WriteTrigger ==
  /\ Publishing("trigger", "no")
  /\ json' = [json EXCEPT ![Name] = data_chunk_size_]
  /\ UNCHANGED <<temp, dest, trouble>>

\* Mutant: an exception skips to the trigger.
AfterThrow_Trigger == "trigger"

\* An exception is caught behind the last step.
AfterThrow == "no"

\* A copy to itself throws; any step may.  A trigger that does not open is skipped.
Throw ==
  \/ \E at \in {"copy", "copying", "remove"} :
       /\ Publishing(at, AfterThrow)
       /\ Fails(Name)
       /\ UNCHANGED diskVars
  \/ /\ Publishing("trigger", "no")
     /\ Fails(Name)
     /\ UNCHANGED diskVars

Publish == StartCopy \/ EndCopy \/ Remove \/ WriteTrigger \/ Throw

-----------------------------------------------------------------------------
Init ==
  /\ config \in Configs
  /\ now = 0
  /\ recording = FALSE
  /\ began = 0
  /\ ended = 0
  /\ is_open_ = FALSE
  /\ good = TRUE
  /\ data_chunk_size_ = 0
  /\ step = "no"
  /\ temp = [n \in Seconds |-> Missing]
  /\ dest = [n \in Seconds |-> Missing]
  /\ json = [n \in Seconds |-> -1]
  /\ written = 0
  /\ trouble = {}

\* A stream ends when nobody has spoken for long enough.
TimedOut == now >= began + config.timeouts.no_voice

Next ==
  \/ Tick
  \/ \E ok \in BOOLEAN : Open(ok) \/ Write(ok)
  \/ TimedOut /\ Close
  \/ Publish

Spec == Init /\ [][Next]_vars

-----------------------------------------------------------------------------
Files == [size : Nat, data : 0..SizeLimit-1, whole : BOOLEAN, exists : BOOLEAN]

\* The type invariant of clock, writer and files.
WriterTypeOK ==
  /\ config \in Configs
  /\ now \in 0..MaxTime
  /\ recording \in BOOLEAN
  /\ began \in 0..now /\ ended \in 0..now
  /\ is_open_ \in BOOLEAN /\ good \in BOOLEAN
  /\ data_chunk_size_ \in 0..SizeLimit-1
  /\ step \in {"no", "copy", "copying", "remove", "trigger"}
  /\ temp \in [Seconds -> Files] /\ dest \in [Seconds -> Files]
  /\ json \in [Seconds -> -2..SizeLimit-1]
  /\ written \in 0..MaxWrites
  /\ trouble \in SUBSET Seconds

\* Two streams never begin within a second.
Apart == config.timeouts.arbitration + config.timeouts.no_voice >= Second

\* The header never promises more samples than the file has, so a reader never runs
\* past its end, whether the count has wrapped or a write failed; and if neither
\* happened, it says how many there are (UpdateHeaderSizes, data_chunk_size_).
HeaderHonest ==
  \A n \in Seconds :
    /\ temp[n].data <= temp[n].size
    /\ dest[n].exists /\ dest[n].size < SizeLimit /\ n \notin trouble
         => dest[n].data = dest[n].size

\* Whatever is on disk is accounted for, at every moment, after any crash, and whatever
\* failed (CloseAndPublish: copy, remove, trigger).  A temporary file is that of the
\* recording at work or of one for which something failed.  A trigger means a whole WAV
\* of the length it reports; if the file could not take all it was given, the trigger
\* reports what was given.  Only a trigger that reports no length, which is what the
\* device's worker leaves behind a recording it took from its queue, may be without its
\* WAV, and only if something failed.
FilesAccountedFor ==
  \A n \in Seconds :
    /\ temp[n].exists =>
         \/ n \in trouble
         \/ n = Name /\ (is_open_ \/ step \in {"copy", "copying", "remove"})
    /\ Apart /\ json[n] >= 0 =>
         /\ dest[n].exists /\ dest[n].whole
         /\ n \notin trouble => json[n] = dest[n].data
    /\ Apart /\ json[n] = NoLength =>
         /\ config.place = "device"
         /\ n \notin trouble => dest[n].exists /\ dest[n].whole

\* A recording that was published whole is not touched again, as long as the wall clock,
\* which names it, is not set back (in_time_t in the file names).
NothingOverwritten ==
  [][Apart => \A n \in Seconds : dest[n].whole => dest'[n] = dest[n]]_vars
=============================================================================

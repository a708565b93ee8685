-------------------------- MODULE LifecycleProofs ---------------------------
(***************************************************************************)
(* Proofs about Lifecycle and the WavWriter it is built from, for any      *)
(* clock, disk and configuration: whenever and however the process is told *)
(* to stop, what it leaves on disk is accounted for, a recording is        *)
(* published before the group is gone, and no thread that is joined        *)
(* touches what was destroyed.                                             *)
(***************************************************************************)
EXTENDS Lifecycle, TLAPS

(***************************************************************************)
(* The writer.  The lemmas are about its actions one by one, so that they  *)
(* serve it by itself and in the process, where a stream may also be       *)
(* closed by the destructor, before its time is up.                        *)
(***************************************************************************)
\* Who is at work on the file.
Working == is_open_ \/ step # "no"

\* A stream without a file is one whose file did not open.
Control ==
  /\ is_open_ => recording
  /\ step # "no" => ~recording
  /\ recording /\ ~is_open_ => Name \in trouble

\* While a file is written, the writer's count is that of its chunks, until it wraps.
CountHonest ==
  is_open_ =>
    /\ temp[Name].exists /\ temp[Name].whole
    /\ good => /\ data_chunk_size_ <= temp[Name].size
               /\ temp[Name].size < SizeLimit => data_chunk_size_ = temp[Name].size
    /\ ~good => Name \in trouble

\* A file that waits to be copied is closed, and its header says what was counted.
CopyHonest ==
  step \in {"copy", "copying", "remove"} =>
    /\ temp[Name].exists /\ temp[Name].whole
    /\ Name \notin trouble =>
         /\ temp[Name].data = data_chunk_size_
         /\ temp[Name].size < SizeLimit => temp[Name].data = temp[Name].size

\* What was copied is there.
CopyDone ==
  /\ step = "remove" => dest[Name] = temp[Name]
  /\ step = "trigger" =>
       /\ dest[Name].exists /\ dest[Name].whole
       /\ Name \notin trouble => dest[Name].data = data_chunk_size_

\* If streams are a second apart, the name of the file at work and all later names are
\* still to be used.
NamesUnused ==
  Apart =>
    /\ \A n \in Seconds : n > Name => json[n] = -1 /\ ~dest[n].whole
    /\ is_open_ \/ step \in {"copy", "copying"} => ~dest[Name].whole
    /\ Working => json[Name] = -1

\* The parts of the invariant that every action keeps,
WriterInv ==
  /\ WriterTypeOK
  /\ Control
  /\ CountHonest
  /\ CopyHonest
  /\ CopyDone
  /\ NamesUnused
  /\ HeaderHonest
  /\ FilesAccountedFor

\* and the part that lets a stream begin: there is none before it, or it was given its
\* time.
Untouched == step = "no" /\ \A n \in Seconds : json[n] = -1 /\ ~dest[n].whole

Spaced == recording \/ ended >= began + config.timeouts.no_voice \/ Untouched

-----------------------------------------------------------------------------
\* What the proofs need of division: seconds pass when ticks do.
LEMMA DivMonotonic ==
  ASSUME NEW a \in Nat, NEW b \in Nat, a <= b
  PROVE  /\ a \div Second \in Nat /\ a \div Second <= b \div Second
         /\ a + Second <= b => a \div Second < b \div Second
BY WriterAssumption DEF WriterAssumption

\* A count of 32 bits is no more than what was counted, and as much if it fits.
LEMMA CountBounds ==
  ASSUME NEW d \in 0..SizeLimit-1
  PROVE  /\ Counted(d) \in 0..SizeLimit-1
         /\ Counted(d) <= d + 1
         /\ d + 1 < SizeLimit => Counted(d) = d + 1
BY WriterAssumption DEF WriterAssumption, Counted

\* The name of a file is one of the seconds of the run.
LEMMA NameIsSecond ==
  ASSUME WriterTypeOK, NEW t \in 0..now
  PROVE  t \in Nat /\ NameAt(t) \in Seconds /\ NameAt(t) \in Nat
<1>1. t \in Nat /\ MaxTime \in Nat /\ t <= MaxTime
  BY WriterAssumption DEF WriterTypeOK, WriterAssumption
<1> QED BY <1>1, DivMonotonic DEF NameAt, Seconds

\* The pieces of a file that the steps make of another.
LEMMA FileParts ==
  ASSUME NEW f \in Files, NEW d \in 0..SizeLimit-1
  PROVE  /\ Corrected(f, d) \in Files
         /\ Corrected(f, d).data = d /\ Corrected(f, d).size = f.size
         /\ Corrected(f, d).whole = f.whole /\ Corrected(f, d).exists = f.exists
         /\ Grown(f) \in Files
         /\ Grown(f).data = f.data /\ Grown(f).size = f.size + 1
         /\ Grown(f).whole = f.whole /\ Grown(f).exists = f.exists
         /\ Partial(f) \in Files
         /\ Partial(f).data = f.data /\ Partial(f).size = f.size
         /\ Partial(f).whole = FALSE /\ Partial(f).exists = f.exists
<1>1. DOMAIN f = {"size", "data", "whole", "exists"} /\ f.size \in Nat /\ f.data \in 0..SizeLimit-1
      /\ f.whole \in BOOLEAN /\ f.exists \in BOOLEAN
  BY Zenon DEF Files
<1>2. Corrected(f, d) = [size |-> f.size, data |-> d, whole |-> f.whole, exists |-> f.exists]
  BY DEF Files, Corrected
<1>3. Grown(f) = [size |-> f.size + 1, data |-> f.data, whole |-> f.whole, exists |-> f.exists]
  BY DEF Files, Grown
<1>4. Partial(f) = [size |-> f.size, data |-> f.data, whole |-> FALSE, exists |-> f.exists]
  BY DEF Partial
<1> QED BY <1>1, <1>2, <1>3, <1>4 DEF Files

\* Missing and new files are files.
LEMMA FileKinds == Missing \in Files /\ Created \in Files
BY WriterAssumption DEF WriterAssumption, Missing, Created, Files, FreshSize

\* What is published is left alone.
Kept == Apart => \A n \in Seconds : dest[n].whole => dest'[n] = dest[n]

-----------------------------------------------------------------------------
\* Time passes.
LEMMA TickStep ==
  ASSUME WriterInv, Tick
  PROVE  WriterInv' /\ Kept /\ (Spaced => Spaced')
<1> USE DEF groupVars, writerVars, diskVars
<1>1. /\ now' = now + 1 /\ now < MaxTime
      /\ UNCHANGED <<config, recording, began, ended, is_open_, good, data_chunk_size_, step,
                     temp, dest, json, written, trouble>>
  BY DEF Tick
<1>2. WriterTypeOK'
  <2>1. now \in Nat /\ MaxTime \in Nat
    BY WriterAssumption DEF WriterInv, WriterTypeOK, WriterAssumption
  <2>2. now' \in 0..MaxTime /\ began \in 0..now' /\ ended \in 0..now'
    BY <1>1, <2>1 DEF WriterInv, WriterTypeOK
  <2> QED BY <1>1, <2>2 DEF WriterInv, WriterTypeOK
<1>3. Name' = Name
  BY <1>1 DEF Name, NameAt
<1>4. Control' /\ CountHonest' /\ CopyHonest' /\ CopyDone'
  BY <1>1, <1>3 DEF WriterInv, Control, CountHonest, CopyHonest, CopyDone
<1>5. NamesUnused' /\ HeaderHonest' /\ FilesAccountedFor'
  BY <1>1, <1>3 DEF WriterInv, NamesUnused, HeaderHonest, FilesAccountedFor, Apart, Working
<1>6. Kept /\ (Spaced => Spaced')
  BY <1>1 DEF Kept, Spaced, Untouched
<1> QED BY <1>2, <1>4, <1>5, <1>6 DEF WriterInv

\* A stream that was given its time is at least a second old when the next one begins.
LEMMA NextName ==
  ASSUME WriterInv, NEW ok \in BOOLEAN, Open(ok), Apart,
         ended >= began + config.timeouts.no_voice
  PROVE  Name < NameAt(now)
<1>1. now \in Nat /\ began \in Nat /\ ended \in Nat
  BY NameIsSecond DEF WriterInv, WriterTypeOK
<1>2. config.timeouts.no_voice \in Nat /\ config.timeouts.arbitration \in Nat /\ Second \in Nat
  BY WriterAssumption DEF WriterAssumption, WriterInv, WriterTypeOK, Configs
<1>3. began + Second <= now
  BY <1>1, <1>2 DEF Apart, Open
<1> QED BY <1>1, <1>2, <1>3, DivMonotonic DEF Name, NameAt

\* A stream begins, a second or more after the one before if they are spaced.
LEMMA OpenStep ==
  ASSUME WriterInv, Spaced, NEW ok \in BOOLEAN, Open(ok)
  PROVE  WriterInv' /\ Kept /\ Spaced'
<1> USE DEF clockVars
<1> DEFINE n == NameAt(now)
<1>1. /\ ~recording /\ step = "no" /\ now >= ended + config.timeouts.arbitration
      /\ recording' = TRUE /\ began' = now /\ is_open_' = ok /\ good' = ok
      /\ data_chunk_size_' = 0 /\ written' = 0
      /\ UNCHANGED <<config, now, ended, step, dest, json>>
  BY DEF Open, FreshSize
<1>2. IF ok THEN temp' = [temp EXCEPT ![n] = Created] /\ UNCHANGED trouble
      ELSE UNCHANGED temp /\ trouble' = trouble \union {n}
  BY DEF Open, Fails
<1>3. /\ n \in Seconds /\ n \in Nat /\ Name \in Seconds /\ Name \in Nat
      /\ now \in Nat /\ began \in Nat /\ ended \in Nat
  BY NameIsSecond DEF WriterInv, WriterTypeOK, Name
<1>4. Name' = n /\ ~is_open_
  BY <1>1 DEF Name, NameAt, WriterInv, Control
<1>5. Created.size = 0 /\ Created.data = 0 /\ Created.whole /\ Created.exists
  BY DEF Created, FreshSize
<1>6. WriterTypeOK'
  <2>1. temp' \in [Seconds -> Files] /\ trouble' \in SUBSET Seconds
    BY <1>2, <1>3, FileKinds DEF WriterInv, WriterTypeOK
  <2>2. 0 \in 0..SizeLimit-1 /\ 0 \in 0..MaxWrites /\ now \in 0..now
    BY <1>3, WriterAssumption DEF WriterAssumption
  <2>3. recording' \in BOOLEAN /\ is_open_' \in BOOLEAN /\ good' \in BOOLEAN
    BY <1>1, Zenon
  <2> QED BY <1>1, <2>1, <2>2, <2>3 DEF WriterInv, WriterTypeOK
<1>7. Control' /\ CopyHonest' /\ CopyDone'
  BY <1>1, <1>2, <1>4 DEF Control, CopyHonest, CopyDone
<1>8. CountHonest'
  BY <1>1, <1>2, <1>3, <1>4, <1>5 DEF CountHonest, WriterInv, WriterTypeOK
<1>9. ASSUME Apart
      PROVE  json[n] = -1 /\ ~dest[n].whole
             /\ \A m \in Seconds : m > n => json[m] = -1 /\ ~dest[m].whole
  <2>1. CASE Untouched
    BY <1>3, <2>1 DEF Untouched
  <2>2. CASE ended >= began + config.timeouts.no_voice
    <3>1. Name < n
      BY <1>9, <2>2, NextName
    <3>2. \A m \in Seconds : m > Name => json[m] = -1 /\ ~dest[m].whole
      BY <1>9 DEF WriterInv, NamesUnused
    <3>3. \A m \in Seconds : m > n => m > Name
      BY <1>3, <3>1, WriterAssumption DEF Seconds, WriterAssumption
    <3> QED BY <1>3, <3>1, <3>2, <3>3
  <2> QED BY <1>1, <2>1, <2>2 DEF Spaced
<1>10. NamesUnused'
  BY <1>1, <1>4, <1>9 DEF NamesUnused, Apart, Working
<1>11. HeaderHonest'
  <2>1. \A m \in Seconds : temp'[m].data <= temp'[m].size
    BY <1>2, <1>3, <1>5 DEF WriterInv, WriterTypeOK, HeaderHonest
  <2>2. trouble \subseteq trouble'
    BY <1>2
  <2> QED BY <1>1, <2>1, <2>2 DEF WriterInv, HeaderHonest
<1>12. FilesAccountedFor'
  <2>1. trouble \subseteq trouble'
    BY <1>2
  <2>2. ASSUME NEW m \in Seconds, temp'[m].exists
        PROVE  m \in trouble' \/ (m = Name' /\ is_open_')
    BY <1>1, <1>2, <1>3, <1>4, <2>2 DEF WriterInv, WriterTypeOK, FilesAccountedFor
  <2> QED BY <1>1, <2>1, <2>2 DEF WriterInv, FilesAccountedFor, Apart
<1>13. Kept /\ Spaced'
  BY <1>1 DEF Kept, Spaced
<1> QED BY <1>6, <1>7, <1>8, <1>10, <1>11, <1>12, <1>13 DEF WriterInv

\* A chunk is written, or not.
LEMMA WriteStep ==
  ASSUME WriterInv, NEW ok \in BOOLEAN, Write(ok)
  PROVE  WriterInv' /\ Kept /\ Spaced'
<1> USE DEF clockVars, groupVars
<1> DEFINE d == data_chunk_size_
<1>1. /\ recording /\ is_open_ /\ step = "no" /\ written < MaxWrites
      /\ written' = written + 1 /\ d' = Counted(d)
      /\ UNCHANGED <<config, now, recording, began, ended, is_open_, step, dest, json>>
  BY DEF Write
<1>2. good' = (good /\ ok) /\ good' \in BOOLEAN
  BY Zenon DEF Write, WriterInv, WriterTypeOK
<1>3. IF good' THEN temp' = [temp EXCEPT ![Name] = Grown(temp[Name])] /\ UNCHANGED trouble
      ELSE UNCHANGED temp /\ trouble' = trouble \union {Name}
  BY DEF Write, Fails
<1>4. Name' = Name /\ Name \in Seconds
  BY <1>1, NameIsSecond DEF Name, NameAt, WriterInv, WriterTypeOK
<1>5. d \in 0..SizeLimit-1 /\ temp \in [Seconds -> Files] /\ temp[Name] \in Files
  BY <1>4 DEF WriterInv, WriterTypeOK
<1>6. /\ d' \in 0..SizeLimit-1 /\ d' <= d + 1 /\ (d + 1 < SizeLimit => d' = d + 1)
  BY <1>1, <1>5, CountBounds
<1>7. /\ Grown(temp[Name]) \in Files
      /\ Grown(temp[Name]).data = temp[Name].data
      /\ Grown(temp[Name]).size = temp[Name].size + 1
      /\ Grown(temp[Name]).whole = temp[Name].whole
      /\ Grown(temp[Name]).exists = temp[Name].exists
  BY <1>5, FileParts
<1>8. WriterTypeOK'
  <2>1. temp' \in [Seconds -> Files] /\ trouble' \in SUBSET Seconds
    BY <1>3, <1>4, <1>5, <1>7 DEF WriterInv, WriterTypeOK
  <2>2. written' \in 0..MaxWrites
    BY <1>1, WriterAssumption DEF WriterInv, WriterTypeOK, WriterAssumption
  <2> QED BY <1>1, <1>2, <1>6, <2>1, <2>2 DEF WriterInv, WriterTypeOK
<1>9. Control' /\ CopyHonest' /\ CopyDone' /\ NamesUnused'
  BY <1>1, <1>4
     DEF WriterInv, Control, CopyHonest, CopyDone, NamesUnused, Apart, Working
<1>10. CountHonest'
  <2>1. temp[Name].size \in Nat /\ SizeLimit \in Nat /\ d \in Nat
    BY <1>5, WriterAssumption DEF Files, WriterAssumption
  <2>2. CASE good'
    <3>1. /\ temp'[Name] = Grown(temp[Name]) /\ good
          /\ temp[Name].exists /\ temp[Name].whole
          /\ d <= temp[Name].size /\ (temp[Name].size < SizeLimit => d = temp[Name].size)
      BY <1>1, <1>2, <1>3, <1>4, <1>5, <2>2 DEF WriterInv, CountHonest
    <3>2. /\ temp'[Name'].exists /\ temp'[Name'].whole
          /\ temp'[Name'].size = temp[Name].size + 1
      BY <1>4, <1>7, <3>1
    <3>3. /\ d' <= temp[Name].size + 1
          /\ temp[Name].size + 1 < SizeLimit => d' = temp[Name].size + 1
      BY <1>5, <1>6, <2>1, <3>1
    <3> QED BY <2>2, <3>2, <3>3 DEF CountHonest
  <2>3. CASE ~good'
    BY <1>1, <1>3, <1>4, <2>3 DEF WriterInv, CountHonest
  <2> QED BY <2>2, <2>3
<1>11. HeaderHonest'
  <2>1. \A m \in Seconds : temp[m].data \in Int /\ temp[m].size \in Int
    BY <1>5, WriterAssumption DEF Files, WriterAssumption
  <2>2. \A m \in Seconds : temp'[m].data <= temp'[m].size
    BY <1>3, <1>4, <1>5, <1>7, <2>1 DEF WriterInv, HeaderHonest
  <2>3. trouble \subseteq trouble'
    BY <1>3
  <2> QED BY <1>1, <2>2, <2>3 DEF WriterInv, HeaderHonest
<1>12. FilesAccountedFor'
  <2>1. trouble \subseteq trouble'
    BY <1>3
  <2>2. \A m \in Seconds : temp'[m].exists => temp[m].exists
    BY <1>3, <1>4, <1>5, <1>7
  <2> QED BY <1>1, <1>4, <2>1, <2>2 DEF WriterInv, FilesAccountedFor, Apart
<1>13. Kept /\ Spaced'
  BY <1>1 DEF Kept, Spaced
<1> QED BY <1>8, <1>9, <1>10, <1>11, <1>12, <1>13 DEF WriterInv

-----------------------------------------------------------------------------
\* The file is closed, by the tick or by the destructor.
LEMMA CloseStep ==
  ASSUME WriterInv, Close
  PROVE  WriterInv' /\ Kept /\ (TimedOut => Spaced')
<1> USE DEF clockVars
<1>1. /\ recording /\ step = "no" /\ recording' = FALSE /\ ended' = now /\ is_open_' = FALSE
      /\ UNCHANGED <<config, now, began, good, data_chunk_size_, dest, json, written, trouble>>
  BY DEF Close, Idle
<1>2. IF is_open_
      THEN temp' = [temp EXCEPT ![Name] = UpdateHeaderSizes(temp[Name])] /\ step' = "copy"
      ELSE UNCHANGED temp /\ step' = "no"
  BY DEF Close, Idle
<1>3. Name' = Name /\ Name \in Seconds /\ now \in Nat /\ now \in 0..now
  <2>1. Name' = Name
    BY <1>1 DEF Name, NameAt
  <2>2. Name \in Seconds /\ now \in Nat
    BY NameIsSecond DEF Name, WriterInv, WriterTypeOK
  <2> QED BY <2>1, <2>2
<1> DEFINE old == temp[Name]
<1> DEFINE u == UpdateHeaderSizes(old)
<1>4. /\ data_chunk_size_ \in 0..SizeLimit-1 /\ old \in Files
      /\ temp \in [Seconds -> Files]
  BY <1>3 DEF WriterInv, WriterTypeOK
<1>5. /\ u \in Files /\ u.size = old.size /\ u.whole = old.whole /\ u.exists = old.exists
      /\ u.data = IF good THEN data_chunk_size_ ELSE old.data
  <2> DEFINE g == Corrected(old, data_chunk_size_)
  <2>0. old \in Files /\ data_chunk_size_ \in 0..SizeLimit-1
    BY <1>4
  <2> HIDE DEF old
  <2>1. /\ g \in Files /\ g.data = data_chunk_size_ /\ g.size = old.size
        /\ g.whole = old.whole /\ g.exists = old.exists
    BY ZenonT(60), <2>0, FileParts
  <2>2. u = IF good THEN g ELSE old
    BY DEF UpdateHeaderSizes
  <2> HIDE DEF g, u
  <2>3. CASE good
    BY <2>1, <2>2, <2>3
  <2>4. CASE ~good
    BY <1>4, <2>2, <2>4
  <2> QED BY <2>3, <2>4
<1> HIDE DEF u
<1>6. ASSUME is_open_
      PROVE  /\ temp' = [temp EXCEPT ![Name] = u] /\ temp'[Name] = u /\ step' = "copy"
             /\ u.exists /\ u.whole
             /\ Name \notin trouble =>
                  u.data = data_chunk_size_ /\ (u.size < SizeLimit => u.data = u.size)
             /\ u.data <= u.size
  <2>1. temp' = [temp EXCEPT ![Name] = u] /\ temp'[Name] = u /\ step' = "copy"
    BY <1>2, <1>3, <1>4, <1>6 DEF u
  <2>2. old.data <= old.size /\ old.exists /\ old.whole
    BY <1>3, <1>6 DEF WriterInv, HeaderHonest, CountHonest
  <2>3. good => /\ data_chunk_size_ <= old.size
                /\ old.size < SizeLimit => data_chunk_size_ = old.size
    BY <1>6 DEF WriterInv, CountHonest
  <2>4. ~good => Name \in trouble
    BY <1>6 DEF WriterInv, CountHonest
  <2> QED BY <1>5, <2>1, <2>2, <2>3, <2>4
<1>7. WriterTypeOK'
  <2>1. temp' \in [Seconds -> Files]
    BY <1>2, <1>3, <1>4, <1>5 DEF u
  <2>2. step' \in {"no", "copy", "copying", "remove", "trigger"}
    BY <1>2
  <2>3. recording' \in BOOLEAN /\ is_open_' \in BOOLEAN
    BY <1>1, Zenon
  <2> QED BY <1>1, <1>3, <2>1, <2>2, <2>3 DEF WriterInv, WriterTypeOK
<1>8. Control' /\ CountHonest' /\ CopyDone'
  BY <1>1, <1>2 DEF Control, CountHonest, CopyDone
<1>9. CopyHonest'
  BY <1>1, <1>2, <1>3, <1>6 DEF CopyHonest
<1>10. NamesUnused'
  BY <1>1, <1>2, <1>3 DEF WriterInv, NamesUnused, Working, Apart
<1>11. HeaderHonest'
  <2>1. \A m \in Seconds : temp'[m].data <= temp'[m].size
    BY <1>2, <1>3, <1>4, <1>6 DEF WriterInv, HeaderHonest
  <2> QED BY <1>1, <2>1 DEF WriterInv, HeaderHonest
<1>12. FilesAccountedFor'
  <2>1. ASSUME NEW m \in Seconds, temp'[m].exists
        PROVE  m \in trouble \/ (m = Name /\ step' = "copy")
    BY <1>1, <1>2, <1>3, <1>4, <1>5, <1>6, <2>1 DEF WriterInv, FilesAccountedFor
  <2> QED BY <1>1, <1>3, <2>1 DEF WriterInv, FilesAccountedFor, Apart
<1>13. Kept /\ (TimedOut => Spaced')
  BY <1>1 DEF Kept, Spaced, TimedOut
<1> QED BY <1>7, <1>8, <1>9, <1>10, <1>11, <1>12, <1>13 DEF WriterInv

\* What the steps of a publication have in common.
LEMMA PublishingKeeps ==
  ASSUME WriterInv, NEW at \in {"copy", "copying", "remove", "trigger"},
         NEW next \in {"no", "copying", "remove", "trigger"}, Publishing(at, next)
  PROVE  /\ step = at /\ step' = next /\ ~is_open_ /\ ~recording
         /\ UNCHANGED <<config, now, recording, began, ended, is_open_, good, data_chunk_size_,
                        written>>
         /\ Name' = Name /\ Name \in Seconds /\ Name \in Nat
         /\ temp[Name] \in Files /\ dest[Name] \in Files
         /\ Control' /\ CountHonest' /\ (Spaced => Spaced')
<1>1. /\ step = at /\ step' = next
      /\ UNCHANGED <<config, now, recording, began, ended, is_open_, good, data_chunk_size_,
                     written>>
  BY DEF Publishing, clockVars, groupVars
<1>2. ~is_open_ /\ ~recording
  BY <1>1 DEF WriterInv, Control
<1>3. Name' = Name /\ Name \in Seconds /\ Name \in Nat
  BY <1>1, NameIsSecond DEF Name, NameAt, WriterInv, WriterTypeOK
<1>4. temp[Name] \in Files /\ dest[Name] \in Files
  BY <1>3 DEF WriterInv, WriterTypeOK
<1>5. Control' /\ CountHonest' /\ (Spaced => Spaced')
  BY <1>1, <1>2 DEF Control, CountHonest, Spaced, Untouched
<1> QED BY <1>1, <1>2, <1>3, <1>4, <1>5

\* A step of a publication keeps the types if it does so on the disk.
LEMMA PublishingTypes ==
  ASSUME WriterInv, NEW at \in {"copy", "copying", "remove", "trigger"},
         NEW next \in {"no", "copying", "remove", "trigger"}, Publishing(at, next),
         temp' \in [Seconds -> Files], dest' \in [Seconds -> Files],
         json' \in [Seconds -> -2..SizeLimit-1], trouble' \in SUBSET Seconds
  PROVE  WriterTypeOK'
BY DEF WriterInv, WriterTypeOK, Publishing, clockVars, groupVars

\* A copy begins: what was published before is left alone, for the name is unused.
LEMMA StartCopyStep ==
  ASSUME WriterInv, StartCopy
  PROVE  WriterInv' /\ Kept /\ (Spaced => Spaced')
<1> DEFINE f == Partial(temp[Name])
<1>1. /\ Publishing("copy", "copying")
      /\ dest' = [dest EXCEPT ![Name] = f]
      /\ UNCHANGED <<temp, json, trouble>>
  BY DEF StartCopy
<1>2. /\ step = "copy" /\ step' = "copying" /\ ~is_open_ /\ ~recording
      /\ UNCHANGED <<config, now, recording, began, ended, is_open_, good, data_chunk_size_,
                     written>>
      /\ Name' = Name /\ Name \in Seconds /\ Name \in Nat /\ temp[Name] \in Files
      /\ Control' /\ CountHonest' /\ (Spaced => Spaced')
  BY <1>1, PublishingKeeps
<1>3. /\ f \in Files /\ f.data = temp[Name].data /\ f.size = temp[Name].size
      /\ f.whole = FALSE /\ f.exists = temp[Name].exists
  <2>1. 0 \in 0..SizeLimit-1
    BY WriterAssumption DEF WriterAssumption
  <2> QED BY <1>2, <2>1, FileParts
<1> HIDE DEF f
<1>4. dest' \in [Seconds -> Files] /\ dest'[Name] = f
  BY <1>1, <1>2, <1>3 DEF WriterInv, WriterTypeOK
<1>5. WriterTypeOK'
  BY <1>1, <1>4, PublishingTypes DEF WriterInv, WriterTypeOK
<1>6. CopyHonest' /\ CopyDone'
  BY <1>1, <1>2 DEF WriterInv, CopyHonest, CopyDone
<1>7. \A m \in Seconds : m # Name => dest'[m] = dest[m]
  BY <1>1 DEF WriterInv, WriterTypeOK
<1>8. Kept
  BY <1>2, <1>7 DEF Kept, WriterInv, NamesUnused
<1>9. NamesUnused'
  <2>1. ASSUME Apart, NEW m \in Seconds, m > Name
        PROVE  json[m] = -1 /\ ~dest'[m].whole
    BY <1>2, <1>7, <2>1 DEF WriterInv, NamesUnused
  <2> QED BY <1>1, <1>2, <1>3, <1>4, <2>1 DEF WriterInv, NamesUnused, Apart, Working
<1>10. HeaderHonest'
  BY <1>1, <1>2, <1>3, <1>4, <1>7 DEF WriterInv, HeaderHonest, CopyHonest
<1>11. FilesAccountedFor'
  <2>1. ASSUME Apart
        PROVE  json[Name] = -1
    BY <1>2, <2>1 DEF WriterInv, NamesUnused, Working
  <2>2. Apart' = Apart
    BY <1>2 DEF Apart
  <2>3. ASSUME NEW m \in Seconds, temp[m].exists
        PROVE  m \in trouble \/ m = Name
    BY <2>3 DEF WriterInv, FilesAccountedFor
  <2>4. ASSUME Apart, NEW m \in Seconds, json[m] # -1
        PROVE  dest'[m] = dest[m]
    BY <1>7, <2>1, <2>4
  <2>5. \A m \in Seconds : json[m] >= 0 \/ json[m] = NoLength => json[m] # -1
    BY DEF NoLength
  <2> QED BY <1>1, <1>2, <2>2, <2>3, <2>4, <2>5 DEF WriterInv, FilesAccountedFor
<1> QED BY <1>2, <1>5, <1>6, <1>8, <1>9, <1>10, <1>11 DEF WriterInv

\* A copy is complete.
LEMMA EndCopyStep ==
  ASSUME WriterInv, EndCopy
  PROVE  WriterInv' /\ Kept /\ (Spaced => Spaced')
<1> DEFINE f == temp[Name]
<1>1. /\ Publishing("copying", "remove")
      /\ dest' = [dest EXCEPT ![Name] = f]
      /\ UNCHANGED <<temp, json, trouble>>
  BY DEF EndCopy
<1>2. /\ step = "copying" /\ step' = "remove" /\ ~is_open_ /\ ~recording
      /\ UNCHANGED <<config, now, recording, began, ended, is_open_, good, data_chunk_size_,
                     written>>
      /\ Name' = Name /\ Name \in Seconds /\ Name \in Nat /\ f \in Files
      /\ Control' /\ CountHonest' /\ (Spaced => Spaced')
  BY <1>1, PublishingKeeps
<1>3. dest' \in [Seconds -> Files] /\ dest'[Name] = f
  BY <1>1, <1>2 DEF WriterInv, WriterTypeOK
<1>4. WriterTypeOK'
  BY <1>1, <1>3, PublishingTypes DEF WriterInv, WriterTypeOK
<1>5. CopyHonest'
  BY <1>1, <1>2 DEF WriterInv, CopyHonest
<1>6. CopyDone'
  <2>1. dest'[Name'] = temp'[Name'] /\ step' # "trigger"
    BY <1>1, <1>2, <1>3
  <2> QED BY <2>1 DEF CopyDone
<1>7. \A m \in Seconds : m # Name => dest'[m] = dest[m]
  BY <1>1 DEF WriterInv, WriterTypeOK
<1>8. Kept
  BY <1>2, <1>7 DEF Kept, WriterInv, NamesUnused
<1>9. NamesUnused'
  <2>1. ASSUME Apart, NEW m \in Seconds, m > Name
        PROVE  json[m] = -1 /\ ~dest'[m].whole
    BY <1>2, <1>7, <2>1 DEF WriterInv, NamesUnused
  <2> QED BY <1>1, <1>2, <2>1 DEF WriterInv, NamesUnused, Apart, Working
<1>10. HeaderHonest'
  BY <1>1, <1>2, <1>3, <1>7 DEF WriterInv, HeaderHonest, CopyHonest
<1>11. FilesAccountedFor'
  <2>1. ASSUME Apart
        PROVE  json[Name] = -1
    BY <1>2, <2>1 DEF WriterInv, NamesUnused, Working
  <2>2. Apart' = Apart
    BY <1>2 DEF Apart
  <2>3. ASSUME NEW m \in Seconds, temp[m].exists
        PROVE  m \in trouble \/ m = Name
    BY <2>3 DEF WriterInv, FilesAccountedFor
  <2>4. ASSUME Apart, NEW m \in Seconds, json[m] # -1
        PROVE  dest'[m] = dest[m]
    BY <1>7, <2>1, <2>4
  <2>5. \A m \in Seconds : json[m] >= 0 \/ json[m] = NoLength => json[m] # -1
    BY DEF NoLength
  <2> QED BY <1>1, <1>2, <2>2, <2>3, <2>4, <2>5 DEF WriterInv, FilesAccountedFor
<1> QED BY <1>2, <1>4, <1>5, <1>6, <1>8, <1>9, <1>10, <1>11 DEF WriterInv

\* The temporary file is removed.
LEMMA RemoveStep ==
  ASSUME WriterInv, Remove
  PROVE  WriterInv' /\ Kept /\ (Spaced => Spaced')
<1>1. /\ Publishing("remove", "trigger")
      /\ temp' = [temp EXCEPT ![Name] = Missing]
      /\ UNCHANGED <<dest, json, trouble>>
  BY DEF Remove
<1>2. /\ step = "remove" /\ step' = "trigger" /\ ~is_open_ /\ ~recording
      /\ UNCHANGED <<config, now, recording, began, ended, is_open_, good, data_chunk_size_,
                     written>>
      /\ Name' = Name /\ Name \in Seconds /\ Name \in Nat /\ temp[Name] \in Files
      /\ Control' /\ CountHonest' /\ (Spaced => Spaced')
  BY <1>1, PublishingKeeps
<1>3. temp' \in [Seconds -> Files] /\ temp'[Name] = Missing
  BY <1>1, <1>2, FileKinds DEF WriterInv, WriterTypeOK
<1>4. WriterTypeOK'
  BY <1>1, <1>3, PublishingTypes DEF WriterInv, WriterTypeOK
<1>5. CopyHonest' /\ CopyDone'
  BY <1>1, <1>2 DEF WriterInv, CopyHonest, CopyDone
<1>6. \A m \in Seconds : m # Name => temp'[m] = temp[m]
  BY <1>1 DEF WriterInv, WriterTypeOK
<1>7. NamesUnused'
  BY <1>1, <1>2 DEF WriterInv, NamesUnused, Working, Apart
<1>8. Missing.data = 0 /\ Missing.size = 0 /\ ~Missing.exists
  BY DEF Missing
<1>9. HeaderHonest'
  BY <1>1, <1>3, <1>6, <1>8 DEF WriterInv, HeaderHonest
<1>10. FilesAccountedFor'
  <2>1. ASSUME NEW m \in Seconds, temp'[m].exists
        PROVE  m \in trouble
    BY <1>3, <1>6, <1>8, <2>1 DEF WriterInv, FilesAccountedFor
  <2> QED BY <1>1, <1>2, <2>1 DEF WriterInv, FilesAccountedFor, Apart
<1>11. Kept
  BY <1>1 DEF Kept
<1> QED BY <1>2, <1>4, <1>5, <1>7, <1>9, <1>10, <1>11 DEF WriterInv

\* The trigger is written, for a WAV that is there.
LEMMA TriggerStep ==
  ASSUME WriterInv, WriteTrigger
  PROVE  WriterInv' /\ Kept /\ (Spaced => Spaced')
<1>1. /\ Publishing("trigger", "no")
      /\ json' = [json EXCEPT ![Name] = data_chunk_size_]
      /\ UNCHANGED <<temp, dest, trouble>>
  BY DEF WriteTrigger
<1>2. /\ step = "trigger" /\ step' = "no" /\ ~is_open_ /\ ~recording
      /\ UNCHANGED <<config, now, recording, began, ended, is_open_, good, data_chunk_size_,
                     written>>
      /\ Name' = Name /\ Name \in Seconds /\ Name \in Nat
      /\ Control' /\ CountHonest' /\ (Spaced => Spaced')
  BY <1>1, PublishingKeeps
<1>3. /\ json' \in [Seconds -> -2..SizeLimit-1] /\ json'[Name] = data_chunk_size_
      /\ \A m \in Seconds : m # Name => json'[m] = json[m]
  BY <1>1, <1>2, WriterAssumption DEF WriterAssumption, WriterInv, WriterTypeOK
<1>4. WriterTypeOK'
  BY <1>1, <1>3, PublishingTypes DEF WriterInv, WriterTypeOK
<1>5. CopyHonest' /\ CopyDone'
  BY <1>2 DEF CopyHonest, CopyDone
<1>6. NamesUnused'
  <2>1. ASSUME Apart, NEW m \in Seconds, m > Name
        PROVE  json'[m] = -1 /\ ~dest[m].whole
    BY <1>2, <1>3, <2>1 DEF WriterInv, NamesUnused
  <2> QED BY <1>1, <1>2, <2>1 DEF NamesUnused, Working, Apart
<1>7. HeaderHonest'
  BY <1>1 DEF WriterInv, HeaderHonest
<1>8. FilesAccountedFor'
  <2>1. ASSUME NEW m \in Seconds, temp[m].exists
        PROVE  m \in trouble
    BY <1>2, <2>1 DEF WriterInv, FilesAccountedFor
  <2>2. ASSUME Apart, NEW m \in Seconds
        PROVE  /\ json'[m] >= 0 => /\ dest[m].exists /\ dest[m].whole
                                   /\ m \notin trouble => json'[m] = dest[m].data
               /\ json'[m] = NoLength => /\ config.place = "device"
                                         /\ m \notin trouble => dest[m].exists /\ dest[m].whole
    <3>1. CASE m = Name
      <4>1. json'[m] # NoLength
        BY <1>3, <3>1, WriterAssumption
           DEF WriterAssumption, NoLength, WriterInv, WriterTypeOK
      <4> QED BY <1>2, <1>3, <3>1, <4>1 DEF WriterInv, CopyDone
    <3>2. CASE m # Name
      BY <1>3, <2>2, <3>2 DEF WriterInv, FilesAccountedFor
    <3> QED BY <3>1, <3>2
  <2> QED BY <1>1, <1>2, <2>1, <2>2 DEF FilesAccountedFor, Apart
<1>9. Kept
  BY <1>1 DEF Kept
<1> QED BY <1>2, <1>4, <1>5, <1>6, <1>7, <1>8, <1>9 DEF WriterInv

\* A step of the publication fails.
LEMMA ThrowStep ==
  ASSUME WriterInv, Throw
  PROVE  WriterInv' /\ Kept /\ (Spaced => Spaced')
<1>1. PICK at \in {"copy", "copying", "remove", "trigger"} :
        Publishing(at, "no") /\ Fails(Name) /\ UNCHANGED diskVars
  BY DEF Throw, AfterThrow
<1>2. /\ step = at /\ step' = "no" /\ ~is_open_ /\ ~recording
      /\ UNCHANGED <<config, now, recording, began, ended, is_open_, good, data_chunk_size_,
                     written>>
      /\ Name' = Name /\ Name \in Seconds /\ Name \in Nat
      /\ Control' /\ CountHonest' /\ (Spaced => Spaced')
  BY <1>1, PublishingKeeps
<1>3. trouble' = trouble \union {Name} /\ UNCHANGED <<temp, dest, json>>
  BY <1>1 DEF Fails, diskVars
<1>4. WriterTypeOK'
  <2>1. trouble' \in SUBSET Seconds
    BY <1>2, <1>3 DEF WriterInv, WriterTypeOK
  <2> QED BY <1>1, <1>3, <2>1, PublishingTypes DEF WriterInv, WriterTypeOK
<1>5. CopyHonest' /\ CopyDone'
  BY <1>2 DEF CopyHonest, CopyDone
<1>6. NamesUnused'
  BY <1>2, <1>3 DEF WriterInv, NamesUnused, Working, Apart
<1>7. HeaderHonest'
  BY <1>3 DEF WriterInv, HeaderHonest
<1>8. FilesAccountedFor'
  <2>1. ASSUME NEW m \in Seconds, temp[m].exists
        PROVE  m \in trouble'
    BY <1>2, <1>3, <2>1 DEF WriterInv, FilesAccountedFor
  <2> QED BY <1>2, <1>3, <2>1 DEF WriterInv, FilesAccountedFor, Apart
<1>9. Kept
  BY <1>3 DEF Kept
<1> QED BY <1>2, <1>4, <1>5, <1>6, <1>7, <1>8, <1>9 DEF WriterInv

\* A publication, whatever its step.
LEMMA PublishStep ==
  ASSUME WriterInv, Publish
  PROVE  WriterInv' /\ Kept /\ (Spaced => Spaced')
BY StartCopyStep, EndCopyStep, RemoveStep, TriggerStep, ThrowStep DEF Publish

\* A state in which nothing of the writer changes.
LEMMA WriterStutters ==
  ASSUME WriterInv, UNCHANGED vars
  PROVE  WriterInv' /\ Kept /\ (Spaced => Spaced')
<1>1. UNCHANGED <<config, now, recording, began, ended, is_open_, good, data_chunk_size_, step,
                 temp, dest, json, written, trouble>>
  BY DEF vars, clockVars, groupVars, writerVars, diskVars
<1>2. Name' = Name /\ Apart' = Apart /\ Working' = Working
  BY <1>1 DEF Name, NameAt, Apart, Working
<1>3. WriterTypeOK' /\ Control' /\ HeaderHonest'
  BY <1>1, <1>2 DEF WriterInv, WriterTypeOK, Control, HeaderHonest
<1>4. CountHonest' /\ CopyHonest' /\ CopyDone'
  BY <1>1, <1>2 DEF WriterInv, CountHonest, CopyHonest, CopyDone
<1>5. NamesUnused' /\ FilesAccountedFor'
  BY <1>1, <1>2 DEF WriterInv, NamesUnused, FilesAccountedFor
<1>6. Kept /\ (Spaced => Spaced')
  BY <1>1 DEF Kept, Spaced, Untouched
<1> QED BY <1>3, <1>4, <1>5, <1>6 DEF WriterInv

\* There are no files at the start.
LEMMA InitInv == Init => WriterInv /\ Spaced
<1> SUFFICES ASSUME Init
             PROVE  WriterInv /\ Spaced
  OBVIOUS
<1>1. /\ now = 0 /\ recording = FALSE /\ began = 0 /\ ended = 0 /\ is_open_ = FALSE
      /\ good = TRUE /\ data_chunk_size_ = 0 /\ step = "no" /\ written = 0 /\ trouble = {}
      /\ temp = [n \in Seconds |-> Missing] /\ dest = [n \in Seconds |-> Missing]
      /\ json = [n \in Seconds |-> -1]
      /\ config \in Configs
  BY DEF Init
<1>2. Missing.data = 0 /\ Missing.size = 0 /\ ~Missing.exists /\ ~Missing.whole
  BY DEF Missing
<1>3. WriterTypeOK
  <2>1. 0 \in 0..MaxTime /\ 0 \in 0..0 /\ 0 \in 0..SizeLimit-1 /\ 0 \in 0..MaxWrites
        /\ -1 \in -2..SizeLimit-1
    BY WriterAssumption DEF WriterAssumption
  <2>2. temp \in [Seconds -> Files] /\ dest \in [Seconds -> Files]
        /\ json \in [Seconds -> -2..SizeLimit-1]
    BY <1>1, <2>1, FileKinds
  <2>3. recording \in BOOLEAN /\ is_open_ \in BOOLEAN /\ good \in BOOLEAN
    BY <1>1, Zenon
  <2> QED BY <1>1, <2>1, <2>2, <2>3 DEF WriterTypeOK
<1>4. Control /\ CountHonest /\ CopyHonest /\ CopyDone
  BY <1>1 DEF Control, CountHonest, CopyHonest, CopyDone
<1>5. NamesUnused /\ HeaderHonest /\ FilesAccountedFor /\ Spaced
  BY <1>1, <1>2
     DEF NamesUnused, HeaderHonest, FilesAccountedFor, NoLength, Spaced, Untouched, Working
<1> QED BY <1>3, <1>4, <1>5 DEF WriterInv

-----------------------------------------------------------------------------
\* Every step of the writer keeps the invariant and leaves what is published alone.
LEMMA WriterStep ==
  ASSUME WriterInv, Spaced, [Next]_vars
  PROVE  WriterInv' /\ Kept /\ Spaced'
<1>1. CASE Tick
  BY <1>1, TickStep
<1>2. ASSUME NEW ok \in BOOLEAN, Open(ok) \/ Write(ok)
      PROVE  WriterInv' /\ Kept /\ Spaced'
  BY <1>2, OpenStep, WriteStep
<1>3. CASE TimedOut /\ Close
  BY <1>3, CloseStep
<1>4. CASE Publish
  BY <1>4, PublishStep
<1>5. CASE UNCHANGED vars
  BY <1>5, WriterStutters
<1> QED BY <1>1, <1>2, <1>3, <1>4, <1>5 DEF Next

\* Of the writer by itself: a header promises no more than there is, whatever is on
\* disk is accounted for, and what is published is not overwritten.
THEOREM WriterCorrect ==
  Spec => [](HeaderHonest /\ FilesAccountedFor) /\ NothingOverwritten
<1>1. WriterInv /\ Spaced /\ [Next]_vars => (WriterInv /\ Spaced)'
  BY WriterStep
<1>2. WriterInv => HeaderHonest /\ FilesAccountedFor
  BY DEF WriterInv
<1>3. WriterInv /\ Spaced /\ [Next]_vars
        => [Apart => \A n \in Seconds : dest[n].whole => dest'[n] = dest[n]]_vars
  BY WriterStep DEF Kept
<1> QED BY <1>1, <1>2, <1>3, InitInv, PTL DEF Spec, NothingOverwritten

-----------------------------------------------------------------------------
(***************************************************************************)
(* The process: who may take a step of the writer when.                    *)
(***************************************************************************)
\* The ticker is started late and joined before anything is destroyed.
Ticking == main \in {"destroy", "exit"} => ticker \in {"none", "done"}

\* Before the destructor of the members nothing is gone.
NothingGone == gone > 0 => main \in {"destroy", "exit"}

\* The signal handler has a server in the destructor only if Run threw.
Handler == main \in {"dtor", "join", "destroy", "exit"} /\ g_server => refused

\* A group that is gone, and one that never was, has no file open.
GroupGone ==
  main = "exit" \/ main = "args" \/ gone > 3 => ~recording /\ step = "no"

\* There is no ticker, so no stream, before main starts one, and no server.
NotStarted == main = "args" => ticker = "none" /\ gone = 0 /\ ~g_server

\* Only the destructor closes a file before its time, and no stream follows.
Spacing == main \in {"destroy", "exit"} \/ Spaced

ProcessInv ==
  /\ gone \in 0..6
  /\ Ticking
  /\ NothingGone
  /\ Handler
  /\ GroupGone
  /\ NotStarted
  /\ StaleExplained

\* What the threads that use the files rely on of each other,
MainInv == WriterInv /\ ProcessInv /\ Spacing

\* and what the worker of the device relies on.  A recording that is queued was closed
\* in time, and its WAV is there unless something failed;
Closing ==
  ticker = "publish" =>
    /\ ~recording
    /\ ended >= began + config.timeouts.no_voice
    /\ step = "no" => Name \in trouble \/ (dest[Name].exists /\ dest[Name].whole)

\* its name is not used again;
Queued(n) ==
  Apart =>
    /\ n <= Name /\ (n = Name => ~Working)
    /\ n \in trouble \/ (dest[n].exists /\ dest[n].whole)

Waiting(n) == n = audio \/ \E i \in 1..Len(queue) : queue[i] = n

\* and the stream after it begins when it should.
GivenTime ==
  main \in {"destroy", "exit"} \/ recording \/ ended >= began + config.timeouts.no_voice

PlayerInv ==
  /\ queue \in Seq(Seconds) /\ audio \in Seconds \union {-1}
  /\ worker \in {"playing", "trigger"} => audio \in Seconds
  /\ \A n \in Seconds : Waiting(n) => Queued(n) /\ config.place = "device" /\ GivenTime

LifeInv == MainInv /\ Closing /\ PlayerInv

-----------------------------------------------------------------------------
\* The members by their numbers.
LEMMA MembersInOrder ==
  /\ Len(Members) = 6
  /\ Members[1] = "ticker_thread_" /\ Members[2] = "mdns_service_"
  /\ Members[3] = "alsa_manager_" /\ Members[4] = "groups_"
  /\ Members[5] = "config_manager_" /\ Members[6] = "endpoint_"
BY DEF Members

\* The group is destroyed fourth.
LEMMA GroupGoesFourth ==
  ASSUME gone \in 0..6, NextToGo = "groups_"
  PROVE  main = "destroy" /\ gone = 3
<1>1. main = "destroy" /\ gone < 6 /\ Members[gone + 1] = "groups_"
  BY MembersInOrder DEF NextToGo
<1>2. gone = 0 \/ gone = 1 \/ gone = 2 \/ gone = 3 \/ gone = 4 \/ gone = 5
  BY <1>1
<1> QED BY <1>1, <1>2, MembersInOrder

\* While nothing is gone, everything is there.
LEMMA AllAlive ==
  ASSUME gone = 0
  PROVE  Alive("alsa_manager_") /\ Alive("groups_") /\ Alive("endpoint_")
<1>1. 3 \in gone+1..Len(Members) /\ 4 \in gone+1..Len(Members) /\ 6 \in gone+1..Len(Members)
  BY MembersInOrder
<1> QED BY <1>1, MembersInOrder DEF Alive

\* Of those who use objects, only some are added to stale.
LEMMA UsesAdds ==
  ASSUME NEW who, NEW ms, Uses(who, ms)
  PROVE  /\ stale' = stale \/ stale' = stale \union {who}
         /\ (\A m \in ms : Alive(m)) => stale' = stale
BY DEF Uses

-----------------------------------------------------------------------------
\* What the steps of the process do to what the invariant is about.  The first group
\* leaves the files, the ticker and the members alone.
LEMMA QuietStep ==
  ASSUME MainInv, UNCHANGED <<vars, ticker, gone>>, refused => refused',
         main' = main \/ (main # "args" /\ main' \notin {"args", "destroy", "exit"}
                          /\ main \notin {"destroy", "exit"}),
         main = "args" => g_server' = g_server,
         main' \in {"dtor", "join", "destroy", "exit"} /\ g_server' => refused',
         "ticker" \in stale' => "ticker" \in stale,
         "signal" \in stale' => refused'
  PROVE  MainInv' /\ Kept
<1>1. WriterInv' /\ Kept /\ (Spaced => Spaced')
  BY WriterStutters DEF MainInv
<1>2. UNCHANGED <<ticker, gone, recording, step>>
  BY DEF vars, groupVars, writerVars
<1>3. ProcessInv'
  <2>1. Ticking' /\ NothingGone'
    BY <1>2 DEF MainInv, ProcessInv, Ticking, NothingGone
  <2>2. Handler' /\ StaleExplained'
    BY DEF MainInv, ProcessInv, Handler, StaleExplained
  <2>3. GroupGone' /\ NotStarted'
    BY <1>2 DEF MainInv, ProcessInv, GroupGone, NotStarted, NothingGone
  <2> QED BY <1>2, <2>1, <2>2, <2>3 DEF MainInv, ProcessInv
<1>4. Spacing'
  BY <1>1 DEF MainInv, Spacing
<1> QED BY <1>1, <1>3, <1>4 DEF MainInv

\* The ticker finds what it uses, and may do to the files what it likes: there is
\* nothing about them that the end of the process needs yet.
LEMMA TickerActs ==
  ASSUME MainInv, ticker \in {"check", "tick", "publish"},
         NEW next \in {"check", "tick", "publish", "done"}, TickerStep(next)
  PROVE  ProcessInv' /\ Spaced
<1>1. /\ main' = main /\ main # "exit" /\ gone' = gone /\ refused' = refused
      /\ g_server' = g_server /\ ticker' = next
  BY DEF TickerStep, Up, serverVars
<1>2. main \notin {"args", "destroy", "exit"} /\ gone = 0
  <2>1. main \notin {"args", "destroy"}
    BY DEF MainInv, ProcessInv, Ticking, NotStarted
  <2> QED BY <1>1, <2>1 DEF MainInv, ProcessInv, NothingGone
<1>3. stale' = stale
  BY <1>2, AllAlive, UsesAdds DEF TickerStep
<1>4. Ticking' /\ NothingGone' /\ Handler' /\ GroupGone' /\ NotStarted' /\ StaleExplained'
  BY <1>1, <1>2, <1>3
     DEF MainInv, ProcessInv, Ticking, NothingGone, Handler, GroupGone, NotStarted,
         StaleExplained
<1> QED BY <1>1, <1>2, <1>4 DEF MainInv, ProcessInv, Spacing

\* The ticker.
LEMMA TickerKeeps ==
  ASSUME MainInv, Ticker
  PROVE  MainInv' /\ Kept
<1>1. ASSUME NEW next \in {"check", "tick", "publish", "done"}, TickerStep(next),
             ticker \in {"check", "tick", "publish"}, UNCHANGED vars
      PROVE  MainInv' /\ Kept
  <2>1. ProcessInv' /\ Spaced
    BY <1>1, TickerActs
  <2>2. WriterInv' /\ Kept /\ Spaced'
    BY <1>1, <2>1, WriterStutters DEF MainInv
  <2> QED BY <2>1, <2>2 DEF MainInv, Spacing
<1>2. CASE CheckRunning \/ NothingToDo \/ StartLive \/ StopLive \/ OthersStop
  <2>1. PICK next \in {"check", "tick", "done"} :
          TickerStep(next) /\ ticker \in {"check", "tick"} /\ UNCHANGED vars
    BY <1>2 DEF CheckRunning, NothingToDo, StartLive, StopLive, OthersStop
  <2> QED BY <1>1, <2>1
<1>3. CASE Published
  BY <1>1, <1>3 DEF Published
<1>4. ASSUME NEW ok \in BOOLEAN, StartRecording(ok)
      PROVE  MainInv' /\ Kept
  <2>1. TickerStep("check") /\ ticker = "tick" /\ Open(ok)
    BY <1>4 DEF StartRecording
  <2>2. ProcessInv' /\ Spaced
    BY <2>1, TickerActs
  <2>3. WriterInv' /\ Kept /\ Spaced'
    BY <2>1, <2>2, OpenStep DEF MainInv
  <2> QED BY <2>2, <2>3 DEF MainInv, Spacing
<1>5. CASE StopRecording
  <2>1. TickerStep("publish") /\ ticker = "tick" /\ TimedOut /\ Close
    BY <1>5 DEF StopRecording
  <2>2. ProcessInv'
    BY <2>1, TickerActs
  <2>3. WriterInv' /\ Kept /\ Spaced'
    BY <2>1, CloseStep DEF MainInv
  <2> QED BY <2>2, <2>3 DEF MainInv, Spacing
<1>6. CASE PublishInTick
  <2>1. TickerStep("publish") /\ ticker = "publish" /\ Publish
    BY <1>6 DEF PublishInTick
  <2>2. ProcessInv' /\ Spaced
    BY <2>1, TickerActs
  <2>3. WriterInv' /\ Kept /\ Spaced'
    BY <2>1, <2>2, PublishStep DEF MainInv
  <2> QED BY <2>2, <2>3 DEF MainInv, Spacing
<1> QED BY <1>2, <1>3, <1>4, <1>5, <1>6 DEF Ticker

\* The destructor of the group: what it closes and publishes, it does before the
\* group is gone, and with no ticker to start another stream.
LEMMA GroupDtorKeeps ==
  ASSUME MainInv, CloseInDtor \/ PublishInDtor
  PROVE  MainInv' /\ Kept
<1>1. main = "destroy" /\ gone = 3 /\ UNCHANGED processVars /\ (Close \/ Publish)
  BY GroupGoesFourth DEF CloseInDtor, PublishInDtor, MainInv, ProcessInv
<1>2. WriterInv' /\ Kept
  BY <1>1, CloseStep, PublishStep DEF MainInv
<1>3. UNCHANGED <<main, g_server, ticker, gone, refused, stale>>
  BY <1>1 DEF processVars, serverVars, goneVars
<1>4. ProcessInv' /\ Spacing'
  BY <1>1, <1>3
     DEF MainInv, ProcessInv, Ticking, NothingGone, Handler, GroupGone, NotStarted,
         StaleExplained, Spacing
<1> QED BY <1>2, <1>4 DEF MainInv

\* A member goes, the group only when nothing is left to publish.
LEMMA DestroyKeeps ==
  ASSUME MainInv, Destroy
  PROVE  MainInv' /\ Kept
<1>1. /\ main = "destroy" /\ gone < 6 /\ gone' = gone + 1
      /\ NextToGo = "groups_" => step = "no" /\ ~recording
      /\ UNCHANGED <<vars, main, g_server, ticker, refused, stale>>
  BY MembersInOrder DEF Destroy, NextToGo, DtorCloses, serverVars
<1>2. WriterInv' /\ Kept /\ UNCHANGED <<recording, step>>
  BY <1>1, WriterStutters DEF MainInv, vars, groupVars, writerVars
<1>3. GroupGone'
  <2>1. CASE gone = 3
    <3>1. NextToGo = "groups_"
      BY <1>1, <2>1, MembersInOrder DEF NextToGo
    <3> QED BY <1>1, <1>2, <3>1 DEF GroupGone
  <2>2. CASE gone # 3
    BY <1>1, <1>2, <2>2 DEF MainInv, ProcessInv, GroupGone
  <2> QED BY <2>1, <2>2
<1>4. ProcessInv' /\ Spacing'
  BY <1>1, <1>3
     DEF MainInv, ProcessInv, Ticking, NothingGone, Handler, NotStarted, StaleExplained,
         Spacing
<1> QED BY <1>2, <1>4 DEF MainInv

\* The ends of the process and the start and the end of the ticker.
LEMMA TurnKeeps ==
  ASSUME MainInv, ParseArgs \/ StartTicker \/ JoinTicker \/ Exit
  PROVE  MainInv' /\ Kept
<1>1. UNCHANGED <<vars, g_server, gone, refused, stale>>
  BY DEF ParseArgs, StartTicker, JoinTicker, Exit, serverVars, goneVars
<1>2. WriterInv' /\ Kept /\ (Spaced => Spaced') /\ UNCHANGED <<recording, step>>
  BY <1>1, WriterStutters DEF MainInv, vars, groupVars, writerVars
<1>3. CASE ParseArgs
  <2>1. main = "args" /\ main' \in {"construct", "exit"} /\ ticker' = ticker
    BY <1>3 DEF ParseArgs
  <2>2. ~recording /\ step = "no" /\ ticker = "none" /\ gone = 0 /\ ~g_server /\ Spaced
    BY <2>1 DEF MainInv, ProcessInv, GroupGone, NotStarted, Spacing
  <2>3. Handler'
    BY <1>1, <2>1, <2>2 DEF Handler
  <2> QED BY <1>1, <1>2, <2>1, <2>2, <2>3
         DEF MainInv, ProcessInv, Ticking, NothingGone, GroupGone, NotStarted,
             StaleExplained, Spacing
<1>4. CASE StartTicker
  <2>1. main = "start" /\ main' = "listen"
    BY <1>4 DEF StartTicker
  <2> QED BY <1>1, <1>2, <2>1
         DEF MainInv, ProcessInv, Ticking, NothingGone, Handler, GroupGone, NotStarted,
             StaleExplained, Spacing
<1>5. CASE JoinTicker
  <2>1. main = "join" /\ main' = "destroy" /\ ticker' = ticker /\ ticker \in {"none", "done"}
    BY <1>5 DEF JoinTicker, Joined
  <2> QED BY <1>1, <1>2, <2>1
         DEF MainInv, ProcessInv, Ticking, NothingGone, Handler, GroupGone, NotStarted,
             StaleExplained, Spacing
<1>6. CASE Exit
  <2>1. main = "destroy" /\ main' = "exit" /\ ticker' = ticker /\ gone = 6
    BY <1>6, MembersInOrder DEF Exit
  <2> QED BY <1>1, <1>2, <2>1
         DEF MainInv, ProcessInv, Ticking, NothingGone, Handler, GroupGone, NotStarted,
             StaleExplained, Spacing
<1> QED BY <1>3, <1>4, <1>5, <1>6

-----------------------------------------------------------------------------
\* The steps of the main thread.
LEMMA MainKeeps ==
  ASSUME MainInv, Main
  PROVE  MainInv' /\ Kept
<1> USE DEF serverVars, deviceVars, goneVars, mdnsVars
<1>1. CASE Construct \/ LoadConfig
  <2>1. /\ UNCHANGED <<vars, g_server, ticker, gone, refused, stale>>
        /\ main \in {"construct", "load"} /\ main' \in {"publish", "start"}
    BY <1>1 DEF Construct, LoadConfig
  <2> QED BY <2>1, QuietStep DEF MainInv, ProcessInv, StaleExplained
<1>2. CASE PublishServer
  <2>1. /\ UNCHANGED <<vars, ticker, gone, refused, stale>>
        /\ main = "publish" /\ main' = "load"
    BY <1>2 DEF PublishServer
  <2> QED BY <2>1, QuietStep DEF MainInv, ProcessInv, StaleExplained
<1>3. CASE Listen
  <2>1. /\ UNCHANGED <<vars, g_server, ticker, gone, stale>> /\ main = "listen"
        /\ (main' = "serve" /\ refused' = refused) \/ (main' = "dtor" /\ refused' = TRUE)
    BY <1>3 DEF Listen
  <2> QED BY <2>1, QuietStep DEF MainInv, ProcessInv, StaleExplained
<1>4. CASE RunReturns
  <2>1. /\ UNCHANGED <<vars, ticker, gone, refused, stale>>
        /\ main = "serve" /\ main' = "dtor" /\ g_server' = FALSE
    BY <1>4 DEF RunReturns, ServerAfterRun
  <2> QED BY <2>1, QuietStep DEF MainInv, ProcessInv, StaleExplained
<1>5. CASE StopAll
  <2>1. /\ UNCHANGED <<vars, g_server, ticker, gone, refused, stale>>
        /\ main = "dtor" /\ main' = "join"
    BY <1>5 DEF StopAll
  <2> QED BY <2>1, QuietStep DEF MainInv, ProcessInv, StaleExplained, Handler
<1>6. CASE EndLiveInDtor
  <2>1. /\ UNCHANGED <<vars, main, g_server, ticker, gone, refused>>
        /\ Uses("group", {"alsa_manager_"})
    BY <1>6 DEF EndLiveInDtor
  <2>2. ("ticker" \in stale' => "ticker" \in stale) /\ ("signal" \in stale' => "signal" \in stale)
    BY <2>1, UsesAdds
  <2> QED BY <2>1, <2>2, QuietStep DEF MainInv, ProcessInv, StaleExplained, Handler
<1> QED BY <1>1, <1>2, <1>3, <1>4, <1>5, <1>6, GroupDtorKeeps, DestroyKeeps, TurnKeeps
       DEF Main

\* A signal, at whatever point it comes.
LEMMA SignalKeeps ==
  ASSUME MainInv, Signal
  PROVE  MainInv' /\ Kept
<1>1. /\ UNCHANGED <<vars, g_server, ticker, gone, refused>>
      /\ main' = main \/ (main = "serve" /\ main' = "hung")
      /\ IF g_server THEN Uses("signal", {"endpoint_"}) ELSE stale' = stale
  BY DEF Signal
<1>2. "ticker" \in stale' => "ticker" \in stale
  BY <1>1, UsesAdds
<1>3. "signal" \in stale' => refused
  <2>1. CASE gone = 0
    <3>1. stale' = stale
      BY <1>1, <2>1, AllAlive, UsesAdds
    <3> QED BY <3>1 DEF MainInv, ProcessInv, StaleExplained
  <2>2. CASE gone > 0 /\ g_server
    BY <2>2 DEF MainInv, ProcessInv, NothingGone, Handler
  <2>3. CASE ~g_server
    BY <1>1, <2>3 DEF MainInv, ProcessInv, StaleExplained
  <2> QED BY <2>1, <2>2, <2>3 DEF MainInv, ProcessInv
<1> QED BY <1>1, <1>2, <1>3, QuietStep DEF MainInv, ProcessInv, Handler

\* Messages and the clock.
LEMMA WorldKeeps ==
  ASSUME MainInv, Clock \/ \E ok \in BOOLEAN : Audio(ok)
  PROVE  MainInv' /\ Kept
<1>1. UNCHANGED <<main, g_server, ticker, gone, refused, stale>>
  BY DEF Clock, Audio, processVars, serverVars, goneVars
<1>2. /\ WriterInv' /\ Kept /\ (Spaced => Spaced')
      /\ main = "serve" \/ UNCHANGED <<recording, step>>
  <2>1. CASE Clock
    BY <2>1, TickStep DEF Clock, Tick, MainInv, groupVars, writerVars
  <2>2. ASSUME NEW ok \in BOOLEAN, Audio(ok)
        PROVE  WriterInv' /\ Kept /\ Spaced' /\ main = "serve"
    BY <2>2, WriteStep DEF Audio, MainInv
  <2> QED BY <2>1, <2>2
<1>3. ProcessInv' /\ Spacing'
  BY <1>1, <1>2
     DEF MainInv, ProcessInv, Ticking, NothingGone, Handler, GroupGone, NotStarted,
         StaleExplained, Spacing
<1> QED BY <1>2, <1>3 DEF MainInv

\* The threads that nobody joins.
LEMMA OthersKeep ==
  ASSUME MainInv, Reload \/ ClientCallback \/ PollQuits
  PROVE  MainInv' /\ Kept
<1>1. UNCHANGED <<vars, main, g_server, ticker, gone, refused>>
  BY DEF Reload, ClientCallback, PollQuits, serverVars, goneVars
<1>2. /\ "ticker" \in stale' => "ticker" \in stale
      /\ "signal" \in stale' => "signal" \in stale
  <2>1. CASE PollQuits
    BY <2>1 DEF PollQuits, goneVars
  <2>2. CASE Reload
    BY <2>2, UsesAdds DEF Reload
  <2>3. CASE ClientCallback
    BY <2>3, UsesAdds DEF ClientCallback
  <2> QED BY <2>1, <2>2, <2>3
<1> QED BY <1>1, <1>2, QuietStep DEF MainInv, ProcessInv, StaleExplained, Handler

\* The trigger behind a recording that was played: its name was used, its WAV is there
\* unless something failed, and no stream is mistaken for the first.
LEMMA TriggerPlayedStep ==
  ASSUME LifeInv, TriggerPlayed
  PROVE  WriterInv' /\ Kept /\ Spacing'
<1>1. /\ worker = "trigger" /\ audio \in Seconds
      /\ json' = json \/ json' = [json EXCEPT ![audio] = NoLength]
      /\ UNCHANGED <<main, config, now, recording, began, ended, is_open_, good,
                     data_chunk_size_, step, temp, dest, written, trouble>>
  BY DEF TriggerPlayed, WorkerStep, LifeInv, PlayerInv, clockVars, groupVars, writerVars
<1>2. Queued(audio) /\ config.place = "device" /\ GivenTime
  BY <1>1 DEF LifeInv, PlayerInv, Waiting
<1>3. /\ json' \in [Seconds -> -2..SizeLimit-1]
      /\ json'[audio] = json[audio] \/ json'[audio] = NoLength
      /\ \A m \in Seconds : m # audio => json'[m] = json[m]
  <2>1. NoLength \in -2..SizeLimit-1
    BY WriterAssumption DEF WriterAssumption, NoLength
  <2>2. json \in [Seconds -> -2..SizeLimit-1]
    BY DEF LifeInv, MainInv, WriterInv, WriterTypeOK
  <2> QED BY <1>1, <2>1, <2>2
<1>4. Name' = Name /\ Apart' = Apart /\ Working' = Working
  BY <1>1 DEF Name, NameAt, Apart, Working
<1>5. WriterInv
  BY DEF LifeInv, MainInv
<1>6. WriterTypeOK'
  BY <1>1, <1>3, <1>5 DEF WriterInv, WriterTypeOK
<1>7. Control' /\ CountHonest' /\ CopyHonest' /\ CopyDone' /\ HeaderHonest'
  BY <1>1, <1>4, <1>5
     DEF WriterInv, Control, CountHonest, CopyHonest, CopyDone, HeaderHonest
<1>8. ASSUME Apart, NEW m \in Seconds, m > Name \/ (m = Name /\ Working)
      PROVE  json'[m] = json[m]
  <2>1. Name \in Nat /\ audio \in Nat
    BY <1>1, <1>5, NameIsSecond, WriterAssumption
       DEF Name, WriterInv, WriterTypeOK, Seconds, WriterAssumption
  <2>2. m # audio
    BY <1>2, <1>8, <2>1 DEF Queued
  <2> QED BY <1>3, <2>2
<1>9. NamesUnused'
  <2>1. Name \in Seconds
    BY <1>5, NameIsSecond DEF Name, WriterInv, WriterTypeOK
  <2> QED BY <1>1, <1>4, <1>5, <1>8, <2>1 DEF WriterInv, NamesUnused, Working
<1>10. FilesAccountedFor'
  <2>1. ASSUME NEW m \in Seconds, temp[m].exists
        PROVE  \/ m \in trouble
               \/ m = Name /\ (is_open_ \/ step \in {"copy", "copying", "remove"})
    BY <1>5, <2>1 DEF WriterInv, FilesAccountedFor
  <2>2. ASSUME Apart, NEW m \in Seconds
        PROVE  /\ json'[m] >= 0 => /\ dest[m].exists /\ dest[m].whole
                                   /\ m \notin trouble => json'[m] = dest[m].data
               /\ json'[m] = NoLength => /\ config.place = "device"
                                         /\ m \notin trouble => dest[m].exists /\ dest[m].whole
    <3>1. CASE m = audio /\ json'[m] = NoLength
      BY <1>2, <2>2, <3>1 DEF Queued, NoLength
    <3>2. CASE json'[m] = json[m]
      BY <1>5, <2>2, <3>2 DEF WriterInv, FilesAccountedFor
    <3> QED BY <1>3, <3>1, <3>2
  <2> QED BY <1>1, <1>4, <2>1, <2>2 DEF FilesAccountedFor
<1>11. Kept /\ Spacing'
  BY <1>1, <1>2 DEF Kept, Spacing, Spaced, GivenTime
<1> QED BY <1>6, <1>7, <1>9, <1>10, <1>11 DEF WriterInv

\* The worker.
LEMMA WorkerKeeps ==
  ASSUME LifeInv, Worker
  PROVE  MainInv' /\ Kept
<1>1. UNCHANGED <<main, g_server, ticker, gone, refused, stale>>
  BY DEF Worker, TakeNext, QueueEmpty, Play, TriggerPlayed, WorkerStep, serverVars, goneVars
<1>2. CASE UNCHANGED vars
  BY <1>1, <1>2, QuietStep DEF LifeInv, MainInv, ProcessInv, StaleExplained, Handler
<1>3. CASE TriggerPlayed
  <2>1. UNCHANGED <<recording, step>>
    BY <1>3 DEF TriggerPlayed, groupVars, writerVars
  <2>2. ProcessInv'
    BY <1>1, <2>1
       DEF LifeInv, MainInv, ProcessInv, Ticking, NothingGone, Handler, GroupGone, NotStarted,
           StaleExplained
  <2> QED BY <1>3, <2>2, TriggerPlayedStep DEF MainInv
<1>4. TriggerPlayed \/ UNCHANGED vars
  BY DEF Worker, TakeNext, QueueEmpty, Play
<1> QED BY <1>2, <1>3, <1>4

-----------------------------------------------------------------------------
\* What the steps of the writer do not do to the recordings that are queued.
LEMMA Moves ==
  ASSUME WriterInv,
         Tick \/ (\E ok \in BOOLEAN : Write(ok)) \/ Close \/ Publish \/ UNCHANGED vars
  PROVE  /\ config' = config /\ began' = began /\ Name' = Name /\ trouble \subseteq trouble'
         /\ Working' => Working
         /\ Close \/ UNCHANGED <<recording, ended>>
<1> USE DEF clockVars, groupVars, writerVars, diskVars, Name, NameAt, Working
<1>1. CASE Tick
  BY <1>1 DEF Tick
<1>2. CASE \E ok \in BOOLEAN : Write(ok)
  BY <1>2 DEF Write, Fails
<1>3. CASE Close
  BY <1>3 DEF Close, Idle
<1>4. CASE Publish
  BY <1>4
     DEF Publish, StartCopy, EndCopy, Remove, WriteTrigger, Throw, AfterThrow, Publishing, Fails
<1>5. CASE UNCHANGED vars
  BY <1>5 DEF vars
<1> QED BY <1>1, <1>2, <1>3, <1>4, <1>5

\* When a publication is over, the WAV is there or something failed.
LEMMA PublishEnds ==
  ASSUME WriterInv, Publish, step' = "no"
  PROVE  Name' \in trouble' \/ (dest'[Name'].exists /\ dest'[Name'].whole)
<1>1. Name' = Name
  BY Moves
<1>2. CASE WriteTrigger
  BY <1>1, <1>2 DEF WriteTrigger, Publishing, WriterInv, CopyDone
<1>3. CASE Throw
  BY <1>1, <1>3 DEF Throw, Fails
<1>4. WriteTrigger \/ Throw
  BY DEF Publish, StartCopy, EndCopy, Remove, Publishing
<1> QED BY <1>2, <1>3, <1>4

\* The worker's part of the invariant, by the steps that queue nothing and start no
\* recording,
LEMMA PlayerStays ==
  ASSUME LifeInv, Kept,
         Tick \/ (\E ok \in BOOLEAN : Write(ok)) \/ Close \/ Publish \/ UNCHANGED vars
           \/ UNCHANGED <<config, began, trouble, recording, ended, is_open_, step>>,
         Close => TimedOut \/ main' = "destroy",
         main \in {"destroy", "exit"} => main' \in {"destroy", "exit"},
         queue' \in Seq(Seconds), audio' \in Seconds \union {-1},
         worker' \in {"playing", "trigger"} => audio' \in Seconds,
         \A n \in Seconds : Waiting(n)' => Waiting(n)
  PROVE  PlayerInv'
<1>1. /\ config' = config /\ began' = began /\ Name' = Name /\ trouble \subseteq trouble'
      /\ Working' => Working
      /\ Close \/ UNCHANGED <<recording, ended>>
  <2>1. CASE UNCHANGED <<config, began, trouble, recording, ended, is_open_, step>>
    BY <2>1 DEF Name, NameAt, Working
  <2> QED BY <2>1, Moves DEF LifeInv, MainInv
<1>2. GivenTime => GivenTime'
  <2>1. CASE Close
    BY <1>1, <2>1 DEF GivenTime, Close, Idle, TimedOut
  <2>2. CASE UNCHANGED <<recording, ended>>
    BY <1>1, <2>2 DEF GivenTime
  <2> QED BY <1>1, <2>1, <2>2
<1>3. ASSUME NEW n \in Seconds, Waiting(n)'
      PROVE  Queued(n)' /\ (config.place = "device")' /\ GivenTime'
  <2>1. Queued(n) /\ config.place = "device" /\ GivenTime
    BY <1>3 DEF LifeInv, PlayerInv
  <2>2. Apart' = Apart
    BY <1>1 DEF Apart
  <2>3. Queued(n)'
    BY <1>1, <2>1, <2>2 DEF Queued, Kept
  <2> QED BY <1>1, <1>2, <2>1, <2>3
<1> QED BY <1>3 DEF PlayerInv

\* by the start of a recording, whose name comes after those that are queued,
LEMMA PlayerSeesStart ==
  ASSUME LifeInv, NEW ok \in BOOLEAN, StartRecording(ok)
  PROVE  PlayerInv'
<1>1. /\ Open(ok) /\ ticker = "tick" /\ UNCHANGED <<worker, queue, audio, config, dest>>
      /\ recording' = TRUE /\ ~recording /\ trouble \subseteq trouble' /\ Name' = NameAt(now)
  BY DEF StartRecording, Open, clockVars, deviceVars, playerVars, Fails, Name, NameAt
<1>2. WriterInv /\ main \notin {"destroy", "exit"}
  BY <1>1 DEF LifeInv, MainInv, ProcessInv, Ticking
<1>3. ASSUME NEW n \in Seconds, Waiting(n)'
      PROVE  Queued(n)' /\ (config.place = "device")' /\ GivenTime'
  <2>1. Queued(n) /\ config.place = "device" /\ GivenTime
    BY <1>1, <1>3 DEF LifeInv, PlayerInv, Waiting
  <2>2. ended >= began + config.timeouts.no_voice
    BY <1>1, <1>2, <2>1 DEF GivenTime
  <2>3. Apart' = Apart
    BY <1>1 DEF Apart
  <2>4. ASSUME Apart
        PROVE  n <= Name' /\ n # Name'
    <3>1. Name < Name' /\ n <= Name
      BY <1>1, <1>2, <2>1, <2>2, <2>4, NextName DEF Queued
    <3>2. n \in Nat /\ Name \in Nat /\ NameAt(now) \in Nat
      BY <1>2, NameIsSecond, WriterAssumption
         DEF Name, WriterInv, WriterTypeOK, Seconds, WriterAssumption
    <3> QED BY <1>1, <3>1, <3>2
  <2>5. Queued(n)'
    BY <1>1, <2>1, <2>3, <2>4 DEF Queued
  <2> QED BY <1>1, <2>1, <2>5 DEF GivenTime
<1> QED BY <1>1, <1>3 DEF LifeInv, PlayerInv

\* and by the end of one, which queues its name.
LEMMA PlayerSeesEnd ==
  ASSUME LifeInv, Kept, Published
  PROVE  PlayerInv'
<1>1. /\ ticker = "publish" /\ step = "no" /\ UNCHANGED vars /\ main' = main
      /\ UNCHANGED audio /\ worker' \in {worker, "next"}
  BY DEF Published, ProcessQueue, TickerStep, playerVars
<1>2. CASE queue' = queue
  <2>1. \A n \in Seconds : Waiting(n)' => Waiting(n)
    BY <1>1, <1>2 DEF Waiting
  <2>2. Close => TimedOut
    BY <1>1 DEF Close, Closing, LifeInv
  <2> QED BY <1>1, <1>2, <2>1, <2>2, PlayerStays DEF LifeInv, PlayerInv
<1>3. CASE config.place = "device" /\ queue' = Append(queue, Name)
  <2>1. WriterInv /\ Name \in Seconds /\ Name \in Nat /\ Closing /\ queue \in Seq(Seconds)
    BY NameIsSecond DEF LifeInv, MainInv, PlayerInv, WriterInv, WriterTypeOK, Name
  <2>2. Queued(Name) /\ GivenTime
    BY <1>1, <2>1 DEF Queued, GivenTime, Closing, Working, WriterInv, Control
  <2>3. /\ UNCHANGED <<config, recording, began, ended, is_open_, step, dest, trouble>>
        /\ Name' = Name
    BY <1>1 DEF vars, clockVars, groupVars, writerVars, diskVars, Name, NameAt
  <2>4. \A n \in Seconds : Queued(n)' = Queued(n) /\ GivenTime' = GivenTime
    BY <1>1, <2>3 DEF Queued, GivenTime, Apart, Working
  <2>5. \A n \in Seconds : Waiting(n)' => Waiting(n) \/ n = Name
    BY <1>1, <1>3, <2>1 DEF Waiting
  <2>6. queue' \in Seq(Seconds)
    BY <1>3, <2>1
  <2> QED BY <1>1, <1>3, <2>2, <2>3, <2>4, <2>5, <2>6 DEF LifeInv, PlayerInv
<1> QED BY <1>2, <1>3 DEF Published, playerVars

\* What was closed stays closed while it is published.
LEMMA ClosingStays ==
  ASSUME Closing, ticker' = "publish" => ticker = "publish",
         UNCHANGED <<config, recording, began, ended, step, dest, trouble>>
  PROVE  Closing'
BY DEF Closing, Name, NameAt

\* Every step keeps what the threads rely on, and leaves what is published alone,
LEMMA MainStep ==
  ASSUME LifeInv, [LifecycleNext]_lifeVars
  PROVE  MainInv' /\ Kept
<1>1. CASE UNCHANGED lifeVars
  <2>1. UNCHANGED <<vars, main, g_server, ticker, gone, refused, stale>>
    BY <1>1 DEF lifeVars, processVars, serverVars, goneVars
  <2> QED BY <2>1, QuietStep DEF LifeInv, MainInv, ProcessInv, StaleExplained, Handler
<1>2. CASE Main \/ Signal \/ Ticker
  BY <1>2, MainKeeps, SignalKeeps, TickerKeeps DEF LifeInv
<1>3. CASE Worker \/ Reload \/ ClientCallback \/ PollQuits
  BY <1>3, WorkerKeeps, OthersKeep DEF LifeInv
<1>4. CASE Clock \/ \E ok \in BOOLEAN : Audio(ok)
  BY <1>4, WorldKeeps DEF LifeInv
<1> QED BY <1>1, <1>2, <1>3, <1>4 DEF LifecycleNext

\* The steps that leave the files alone, and the queue.
Idles ==
  \/ ParseArgs \/ Construct \/ PublishServer \/ LoadConfig \/ StartTicker \/ Listen \/ RunReturns
  \/ StopAll \/ JoinTicker \/ EndLiveInDtor \/ Destroy \/ Exit
  \/ Signal \/ CheckRunning \/ NothingToDo \/ StartLive \/ StopLive \/ OthersStop
  \/ Reload \/ ClientCallback \/ PollQuits
  \/ UNCHANGED lifeVars

\* They change at most whether the worker runs, and do not bring the main thread back.
LEMMA IdlesKeep ==
  ASSUME Idles
  PROVE  /\ UNCHANGED <<vars, queue, audio>>
         /\ worker' = worker \/ worker' = "next"
         /\ ticker' = "publish" => ticker = "publish"
         /\ main \in {"destroy", "exit"} => main' \in {"destroy", "exit"}
<1> USE DEF deviceVars, playerVars
<1>1. CASE ParseArgs \/ Construct \/ PublishServer \/ LoadConfig \/ Listen \/ RunReturns
  BY <1>1 DEF ParseArgs, Construct, PublishServer, LoadConfig, Listen, RunReturns
<1>2. CASE StartTicker \/ StopAll \/ JoinTicker \/ EndLiveInDtor \/ Destroy \/ Exit
  BY <1>2 DEF StartTicker, StopAll, JoinTicker, EndLiveInDtor, Destroy, Exit
<1>3. CASE Signal
  BY <1>3 DEF Signal
<1>4. CASE CheckRunning \/ NothingToDo \/ StartLive \/ StopLive \/ OthersStop
  BY <1>4
     DEF CheckRunning, NothingToDo, StartLive, StopLive, OthersStop, ProcessQueue, TickerStep
<1>5. CASE Reload \/ ClientCallback \/ PollQuits
  BY <1>5 DEF Reload, ClientCallback, PollQuits
<1>6. CASE UNCHANGED lifeVars
  BY <1>6 DEF lifeVars, processVars
<1> QED BY <1>1, <1>2, <1>3, <1>4, <1>5, <1>6 DEF Idles

\* and what the worker relies on: the steps that leave the files alone,
LEMMA IdlesStep ==
  ASSUME LifeInv, Kept, Idles
  PROVE  Closing' /\ PlayerInv'
<1>1. /\ UNCHANGED <<vars, queue, audio>>
      /\ worker' = worker \/ worker' = "next"
      /\ ticker' = "publish" => ticker = "publish"
      /\ main \in {"destroy", "exit"} => main' \in {"destroy", "exit"}
  BY IdlesKeep
<1>2. UNCHANGED <<config, recording, began, ended, step, dest, trouble>>
  BY <1>1 DEF vars, clockVars, groupVars, writerVars, diskVars
<1>3. Closing'
  BY <1>1, <1>2, ClosingStays DEF LifeInv
<1>4. ~Close
  BY <1>2 DEF Close, Idle
<1>5. \A n \in Seconds : Waiting(n)' => Waiting(n)
  BY <1>1 DEF Waiting
<1> QED BY <1>1, <1>3, <1>4, <1>5, PlayerStays DEF LifeInv, PlayerInv

\* those of the worker itself,
LEMMA WorkerStepsPlayer ==
  ASSUME LifeInv, Kept, Worker
  PROVE  Closing' /\ PlayerInv'
<1>1. UNCHANGED <<config, recording, began, ended, is_open_, step, dest, trouble, ticker, main>>
  BY DEF Worker, TakeNext, QueueEmpty, Play, TriggerPlayed, WorkerStep, vars, clockVars,
         groupVars, writerVars, diskVars
<1>2. Closing'
  BY <1>1, ClosingStays DEF LifeInv
<1>3. ~Close
  BY <1>1 DEF Close, Idle
<1>4. queue \in Seq(Seconds) /\ audio \in Seconds \union {-1}
      /\ (worker \in {"playing", "trigger"} => audio \in Seconds)
  BY DEF LifeInv, PlayerInv
<1>5. /\ queue' \in Seq(Seconds) /\ audio' \in Seconds \union {-1}
      /\ worker' \in {"playing", "trigger"} => audio' \in Seconds
      /\ \A n \in Seconds : Waiting(n)' => Waiting(n)
  <2>1. CASE TakeNext
    <3>1. /\ queue # <<>> /\ audio' = Head(queue) /\ queue' = Tail(queue)
      BY <2>1 DEF TakeNext
    <3>2. /\ Head(queue) = queue[1] /\ 1 \in 1..Len(queue) /\ queue[1] \in Seconds
          /\ Tail(queue) \in Seq(Seconds)
          /\ \A i \in 1..Len(Tail(queue)) : i + 1 \in 1..Len(queue) /\ Tail(queue)[i] = queue[i + 1]
      BY <1>4, <3>1
    <3> QED BY <3>1, <3>2 DEF Waiting
  <2>2. CASE QueueEmpty
    BY <1>4, <2>2 DEF QueueEmpty, WorkerStep, Waiting
  <2>3. CASE Play \/ TriggerPlayed
    <3>1. /\ queue' = queue
          /\ audio' = audio \/ audio' = -1
          /\ worker \in {"playing", "trigger"}
          /\ worker' = "next" \/ audio' = audio
      BY <2>3 DEF Play, TriggerPlayed, WorkerStep
    <3>2. -1 \notin Seconds
      BY DEF Seconds
    <3> QED BY <1>4, <3>1, <3>2 DEF Waiting
  <2> QED BY <2>1, <2>2, <2>3 DEF Worker
<1> QED BY <1>1, <1>2, <1>3, <1>5, PlayerStays

\* those of the clock, the messages and the destructor on the files,
LEMMA WriterStepsPlayer ==
  ASSUME LifeInv, Kept,
         CloseInDtor \/ PublishInDtor \/ Clock \/ \E ok \in BOOLEAN : Audio(ok)
  PROVE  Closing' /\ PlayerInv'
<1>1. UNCHANGED <<main, ticker, queue, audio, worker>>
  BY DEF CloseInDtor, PublishInDtor, Clock, Audio, processVars, deviceVars, playerVars
<1>2. /\ Tick \/ (\E ok \in BOOLEAN : Write(ok)) \/ Close \/ Publish
      /\ Close => main' = "destroy"
      /\ Tick \/ ticker # "publish"
  <2>1. CASE CloseInDtor \/ PublishInDtor
    <3>1. main = "destroy" /\ (Close \/ Publish)
      BY <2>1, GroupGoesFourth DEF CloseInDtor, PublishInDtor, LifeInv, MainInv, ProcessInv
    <3> QED BY <1>1, <3>1 DEF LifeInv, MainInv, ProcessInv, Ticking
  <2>2. CASE Clock
    BY <2>2 DEF Clock, Tick, Close, Idle, groupVars
  <2>3. CASE \E ok \in BOOLEAN : Audio(ok)
    BY <2>3 DEF Audio, Write, Close, Idle, groupVars
  <2> QED BY <2>1, <2>2, <2>3
<1>3. Closing'
  <2>1. CASE Tick
    BY <1>1, <2>1, ClosingStays DEF LifeInv, Tick, groupVars, writerVars, diskVars
  <2>2. CASE ticker # "publish"
    BY <1>1, <2>2 DEF Closing
  <2> QED BY <1>2, <2>1, <2>2
<1>4. \A n \in Seconds : Waiting(n)' => Waiting(n)
  BY <1>1 DEF Waiting
<1> QED BY <1>1, <1>2, <1>3, <1>4, PlayerStays DEF LifeInv, PlayerInv

\* and those of the ticker, which queues what it closed.
LEMMA TickerStepsPlayer ==
  ASSUME LifeInv, Kept,
         StopRecording \/ PublishInTick \/ Published
           \/ \E ok \in BOOLEAN : StartRecording(ok)
  PROVE  Closing' /\ PlayerInv'
<1>1. CASE Published
  BY <1>1, PlayerSeesEnd DEF Published, TickerStep, Closing
<1>2. CASE \E ok \in BOOLEAN : StartRecording(ok)
  BY <1>2, PlayerSeesStart DEF StartRecording, TickerStep, Closing
<1>3. CASE StopRecording \/ PublishInTick
  <2>1. /\ UNCHANGED <<main, queue, audio, worker>>
        /\ (TimedOut /\ Close) \/ (Publish /\ ticker = "publish")
    BY <1>3 DEF StopRecording, PublishInTick, TickerStep, deviceVars, playerVars
  <2>2. WriterInv /\ Closing
    BY DEF LifeInv, MainInv
  <2>3. Closing'
    <3>1. CASE TimedOut /\ Close
      <4>1. /\ ~recording' /\ ended' = now /\ recording
            /\ step' = "no" => ~is_open_
            /\ UNCHANGED <<config, began, trouble>> /\ Name' = Name
        BY <3>1 DEF Close, Idle, clockVars, Name, NameAt
      <4>2. step' = "no" => Name \in trouble
        BY <2>2, <4>1 DEF WriterInv, Control
      <4> QED BY <3>1, <4>1, <4>2 DEF Closing, TimedOut
    <3>2. CASE Publish /\ ticker = "publish"
      <4>1. UNCHANGED <<config, recording, began, ended>>
        BY <3>2
           DEF Publish, StartCopy, EndCopy, Remove, WriteTrigger, Throw, Publishing, clockVars,
               groupVars
      <4> QED BY <2>2, <3>2, <4>1, PublishEnds DEF Closing
    <3> QED BY <2>1, <3>1, <3>2
  <2>4. \A n \in Seconds : Waiting(n)' => Waiting(n)
    BY <2>1 DEF Waiting
  <2>5. Close => TimedOut
    BY <2>1, <2>2 DEF Close, Closing
  <2> QED BY <2>1, <2>3, <2>4, <2>5, PlayerStays DEF LifeInv, PlayerInv
<1> QED BY <1>1, <1>2, <1>3

\* Every step keeps the invariant and leaves what is published alone.
LEMMA LifeStep ==
  ASSUME LifeInv, [LifecycleNext]_lifeVars
  PROVE  LifeInv' /\ Kept
<1>1. MainInv' /\ Kept
  BY MainStep
<1>2. Closing' /\ PlayerInv'
  <2>1. CASE Idles
    BY <1>1, <2>1, IdlesStep
  <2>2. CASE Worker
    BY <1>1, <2>2, WorkerStepsPlayer
  <2>3. CASE CloseInDtor \/ PublishInDtor \/ Clock \/ \E ok \in BOOLEAN : Audio(ok)
    BY <1>1, <2>3, WriterStepsPlayer
  <2>4. CASE StopRecording \/ PublishInTick \/ Published
               \/ \E ok \in BOOLEAN : StartRecording(ok)
    BY <1>1, <2>4, TickerStepsPlayer
  <2> QED BY <2>1, <2>2, <2>3, <2>4 DEF LifecycleNext, Main, Ticker, Idles
<1> QED BY <1>1, <1>2 DEF LifeInv

\* A process that has not begun has nothing to answer for.
LEMMA LifeInit == LifecycleInit => LifeInv
<1> SUFFICES ASSUME LifecycleInit
             PROVE  LifeInv
  OBVIOUS
<1>1. MainInv
  BY InitInv
     DEF LifecycleInit, Init, MainInv, ProcessInv, Ticking, NothingGone, Handler, GroupGone,
         NotStarted, StaleExplained, Spacing
<1>2. Closing
  BY DEF LifecycleInit, Closing
<1>3. PlayerInv
  <2>1. queue = <<>> /\ audio = -1 /\ worker = "none"
    BY DEF LifecycleInit
  <2>2. \A n \in Seconds : ~Waiting(n)
    BY <2>1 DEF Waiting, Seconds
  <2> QED BY <2>1, <2>2 DEF PlayerInv
<1> QED BY <1>1, <1>2, <1>3 DEF LifeInv

\* The invariant holds whatever the threads, the signals and the disk do.
THEOREM LifeInvariance == LifecycleSpec => []LifeInv
<1>1. LifeInv /\ [LifecycleNext]_lifeVars => LifeInv'
  BY LifeStep
<1> QED BY <1>1, LifeInit, PTL DEF LifecycleSpec

\* A header promises no more samples than its file has, until the end of the process
\* and after any crash.
THEOREM HeadersHonest == LifecycleSpec => []HeaderHonest
<1>1. LifeInv => HeaderHonest
  BY DEF LifeInv, MainInv, WriterInv
<1> QED BY <1>1, LifeInvariance, PTL

\* Whatever is on disk is accounted for, wherever the process ends.
THEOREM FilesExplained == LifecycleSpec => []FilesAccountedFor
<1>1. LifeInv => FilesAccountedFor
  BY DEF LifeInv, MainInv, WriterInv
<1> QED BY <1>1, LifeInvariance, PTL

\* What was published whole is not touched again, if the configured timeouts keep the
\* streams of a client a second apart.
THEOREM PublishedForGood == LifecycleSpec => NothingOverwritten
<1>1. LifeInv /\ [LifecycleNext]_lifeVars
        => [Apart => \A n \in Seconds : dest[n].whole => dest'[n] = dest[n]]_vars
  BY LifeStep DEF Kept
<1> QED BY <1>1, LifeInvariance, PTL DEF LifecycleSpec, NothingOverwritten

\* The ticker never uses what was destroyed, the signal handler only after listen threw.
THEOREM StaleUseExplained == LifecycleSpec => []StaleExplained
<1>1. LifeInv => StaleExplained
  BY DEF LifeInv, MainInv, ProcessInv
<1> QED BY <1>1, LifeInvariance, PTL

\* A process that ends by itself leaves no recording half published.
THEOREM StopsPublished == LifecycleSpec => []StopPublishes
<1>1. LifeInv => StopPublishes
  BY DEF LifeInv, MainInv, ProcessInv, GroupGone, StopPublishes, WriterInv, Control
<1> QED BY <1>1, LifeInvariance, PTL

-----------------------------------------------------------------------------
\* The types of the process, by what may change together: main and what it counts,
MainTypeOK ==
  /\ main \in {"args", "construct", "publish", "load", "start", "listen", "serve", "dtor",
               "join", "destroy", "exit", "hung"}
  /\ ticker \in {"none", "check", "tick", "publish", "done"}
  /\ mdns \in {"none", "loop", "quitting", "done"} /\ entries \in 0..1
  /\ worker \in {"none", "next", "playing", "trigger", "done"}
  /\ gone \in 0..6
  /\ stale \in SUBSET {"signal", "ticker", "group", "watcher", "mdns"}

\* and the flags.
FlagsTypeOK ==
  /\ g_server \in BOOLEAN /\ asked \in BOOLEAN
  /\ stopped \in BOOLEAN /\ running_ \in BOOLEAN
  /\ watcher \in BOOLEAN
  /\ groups_ \in BOOLEAN /\ live \in BOOLEAN /\ refused \in BOOLEAN

\* Every step keeps the types of main and what it counts,
LEMMA MainTypeStep ==
  ASSUME MainTypeOK, [LifecycleNext]_lifeVars
  PROVE  MainTypeOK'
<1> USE DEF MainTypeOK, serverVars, mdnsVars, deviceVars, playerVars, goneVars, Uses,
           TickerStep
<1>1. CASE ParseArgs
  BY <1>1 DEF ParseArgs
<1>2. CASE Construct
  BY <1>2 DEF Construct, StartMDNS, CreateService, Added
<1>3. CASE PublishServer
  BY <1>3 DEF PublishServer
<1>4. CASE LoadConfig
  BY <1>4 DEF LoadConfig
<1>5. CASE StartTicker
  BY <1>5 DEF StartTicker
<1>6. CASE Listen
  BY <1>6 DEF Listen
<1>7. CASE RunReturns
  BY <1>7 DEF RunReturns, ServerAfterRun
<1>8. CASE StopAll
  BY <1>8 DEF StopAll, RunningAfterDtor
<1>9. CASE JoinTicker
  BY <1>9 DEF JoinTicker
<1>10. CASE EndLiveInDtor
  BY <1>10 DEF EndLiveInDtor
<1>11. CASE Exit
  BY <1>11 DEF Exit
<1>12. CASE CloseInDtor \/ PublishInDtor
  BY <1>12 DEF CloseInDtor, PublishInDtor, processVars
<1>13. CASE Destroy
  BY <1>13 DEF Destroy, NextToGo, Members
<1>14. CASE Signal
  BY <1>14 DEF Signal
<1>15. CASE CheckRunning \/ NothingToDo
  BY <1>15 DEF CheckRunning, NothingToDo
<1>16. CASE StartLive \/ StopLive \/ OthersStop \/ Published
  BY <1>16 DEF StartLive, StopLive, OthersStop, Published, ProcessQueue
<1>17. CASE StopRecording \/ PublishInTick
  BY <1>17 DEF StopRecording, PublishInTick
<1>18. CASE \E ok \in BOOLEAN : StartRecording(ok)
  BY <1>18 DEF StartRecording
<1>19. CASE \E ok \in BOOLEAN : Audio(ok)
  BY <1>19 DEF Audio, processVars
<1>20. CASE Worker \/ Reload
  <2>1. CASE Worker
    BY <2>1 DEF Worker, TakeNext, QueueEmpty, Play, TriggerPlayed, WorkerStep
  <2>2. CASE Reload
    BY ZenonT(60), <2>2 DEF Reload
  <2> QED BY <1>20, <2>1, <2>2
<1>21. CASE ClientCallback \/ PollQuits
  <2>1. CASE ClientCallback
    <3>1. entries' = Added(entries)
      BY <2>1 DEF ClientCallback, CreateService
    <3>2. entries' \in 0..1
      BY <3>1 DEF Added
    <3> QED BY <2>1, <3>2 DEF ClientCallback
  <2>2. CASE PollQuits
    BY <2>2 DEF PollQuits
  <2> QED BY <1>21, <2>1, <2>2
<1>22. CASE Clock
  BY <1>22 DEF Clock, processVars
<1>23. CASE UNCHANGED lifeVars
  BY <1>23 DEF lifeVars, processVars
<1> QED BY <1>1, <1>2, <1>3, <1>4, <1>5, <1>6, <1>7, <1>8, <1>9, <1>10, <1>11, <1>12, <1>13,
           <1>14, <1>15, <1>16, <1>17, <1>18, <1>19, <1>20, <1>21, <1>22, <1>23
       DEF LifecycleNext, Main, Ticker

\* and those of the flags.
LEMMA FlagsTypeStep ==
  ASSUME FlagsTypeOK, [LifecycleNext]_lifeVars
  PROVE  FlagsTypeOK'
<1> USE DEF FlagsTypeOK, serverVars, mdnsVars, deviceVars, playerVars, goneVars, TickerStep
<1>1. CASE ParseArgs
  BY <1>1 DEF ParseArgs
<1>2. CASE Construct
  BY <1>2 DEF Construct, StartMDNS, CreateService, Added
<1>3. CASE PublishServer
  BY <1>3 DEF PublishServer
<1>4. CASE LoadConfig
  BY <1>4 DEF LoadConfig
<1>5. CASE StartTicker
  BY <1>5 DEF StartTicker
<1>6. CASE Listen
  BY <1>6 DEF Listen
<1>7. CASE RunReturns
  BY <1>7 DEF RunReturns, ServerAfterRun
<1>8. CASE StopAll
  BY <1>8 DEF StopAll, RunningAfterDtor
<1>9. CASE JoinTicker
  BY <1>9 DEF JoinTicker
<1>10. CASE EndLiveInDtor
  BY <1>10 DEF EndLiveInDtor
<1>11. CASE Exit
  BY <1>11 DEF Exit
<1>12. CASE CloseInDtor \/ PublishInDtor
  BY <1>12 DEF CloseInDtor, PublishInDtor, processVars
<1>13. CASE Destroy
  BY <1>13 DEF Destroy, NextToGo, Members
<1>14. CASE Signal
  BY <1>14 DEF Signal
<1>15. CASE CheckRunning \/ NothingToDo
  BY <1>15 DEF CheckRunning, NothingToDo
<1>16. CASE StartLive \/ StopLive \/ OthersStop \/ Published
  BY <1>16 DEF StartLive, StopLive, OthersStop, Published, ProcessQueue
<1>17. CASE StopRecording \/ PublishInTick
  BY <1>17 DEF StopRecording, PublishInTick
<1>18. CASE \E ok \in BOOLEAN : StartRecording(ok)
  BY <1>18 DEF StartRecording
<1>19. CASE \E ok \in BOOLEAN : Audio(ok)
  BY <1>19 DEF Audio, processVars
<1>20. CASE Worker \/ Reload
  <2>1. CASE Worker
    BY <2>1 DEF Worker, TakeNext, QueueEmpty, Play, TriggerPlayed, WorkerStep
  <2>2. CASE Reload
    BY Zenon, <2>2 DEF Reload
  <2> QED BY <1>20, <2>1, <2>2
<1>21. CASE ClientCallback \/ PollQuits
  BY <1>21 DEF ClientCallback, PollQuits, CreateService, Added
<1>22. CASE Clock
  BY <1>22 DEF Clock, processVars
<1>23. CASE UNCHANGED lifeVars
  BY <1>23 DEF lifeVars, processVars
<1> QED BY <1>1, <1>2, <1>3, <1>4, <1>5, <1>6, <1>7, <1>8, <1>9, <1>10, <1>11, <1>12, <1>13,
           <1>14, <1>15, <1>16, <1>17, <1>18, <1>19, <1>20, <1>21, <1>22, <1>23
       DEF LifecycleNext, Main, Ticker

\* The type invariant of the process.
THEOREM LifecycleTypes == LifecycleSpec => []LifecycleTypeOK
<1> DEFINE Types == MainTypeOK /\ FlagsTypeOK
<1>1. LifecycleInit => Types
  <2>1. LifecycleInit => MainTypeOK
    BY DEF LifecycleInit, MainTypeOK
  <2>2. LifecycleInit => FlagsTypeOK
    BY Zenon DEF LifecycleInit, FlagsTypeOK
  <2> QED BY <2>1, <2>2
<1>2. Types /\ [LifecycleNext]_lifeVars => Types'
  BY MainTypeStep, FlagsTypeStep
<1>3. Types /\ LifeInv => LifecycleTypeOK
  BY MembersInOrder DEF MainTypeOK, FlagsTypeOK, LifecycleTypeOK, LifeInv, PlayerInv
<1> QED BY <1>1, <1>2, <1>3, LifeInvariance, PTL DEF LifecycleSpec
=============================================================================

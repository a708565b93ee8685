-------------------------- MODULE OnboardingProofs --------------------------
(***************************************************************************)
(* Proofs about Onboarding, for any files, sessions and number of edits.   *)
(* UpToDate rests on what the time stamps mean while a file is parsed:     *)
(* SnapshotFresh and LoadedFresh; AdmittedWasListed on what the two        *)
(* lookups of a hello may find: ValidListed and HelloListed.               *)
(***************************************************************************)
EXTENDS Onboarding, TLAPS

\* The parts of the inductive invariant.
ControlOK ==
  /\ at \in {"start", "idle"} => booted
  /\ file = Truncated => at = "write"

StampsOrdered == current_write <= mtime /\ last_write <= mtime

\* A file with the stamp taken before it was read is the file that was read.
SnapshotFresh ==
  booted /\ Parsing /\ current_write = mtime /\ Readable =>
    snapshot.clients = file.clients

\* A file with the stamp that was taken over is the file that was loaded.
LoadedFresh ==
  booted /\ at # "start" /\ last_write = mtime /\ mtime > first /\ Readable =>
    loaded = file.clients

Listed(g, found) == \E n \in Groups : <<g, n>> \in listed /\ found \in {"", n}

ValidListed == \A g \in Guids : valid_clients[g] # None => Listed(g, valid_clients[g])
HelloListed == hello # None => Listed(hello.guid, "")

IInv ==
  /\ TypeOK
  /\ ControlOK
  /\ StampsOrdered
  /\ SnapshotFresh
  /\ LoadedFresh
  /\ ValidListed
  /\ HelloListed
  /\ AdmittedWasListed

Idle == UNCHANGED <<file, mtime, at, clockVars, snapshot, loaded>>

-----------------------------------------------------------------------------
\* A readable file is one that the administrator wrote.
LEMMA ReadableContent == FileTypes /\ Readable => file \in Content
  BY DEF FileTypes, Files, Readable

\* What is neither missing nor truncated, by the assumption on the constants.
LEMMA ContentReadable ==
  ASSUME NEW c \in Content PROVE c # Missing /\ c # Truncated /\ c # None
  BY OnboardingAssumption DEF OnboardingAssumption

-----------------------------------------------------------------------------
\* Every step keeps the types of the file.
LEMMA FileTypesStep ==
  ASSUME FileTypes, ParserTypes, [Next]_vars PROVE FileTypes'
<1> USE DEF FileTypes, Files
<1>1. ASSUME NEW c \in Contents, Save(c) PROVE FileTypes'
  <2>1. c \in Content
    BY OnboardingAssumption DEF OnboardingAssumption
  <2>2. asked' \in [Requests -> Nat]
    BY <1>1 DEF Save
  <2>3. saves' \in 0..MaxSaves
    BY <1>1, OnboardingAssumption DEF Save, OnboardingAssumption
  <2> QED BY <1>1, <2>1, <2>2, <2>3 DEF Save
<1>2. CASE Delete
  BY <1>2, OnboardingAssumption DEF Delete, OnboardingAssumption
<1>3. CASE Truncate
  BY <1>3 DEF Truncate
<1>4. CASE WriteBack
  <2>1. lines \in Content
    BY <1>4 DEF WriteBack, ParserTypes
  <2>2. Stripped \in Content
    BY <2>1 DEF Stripped, Content
  <2> QED BY <1>4, <2>2 DEF WriteBack
<1>5. CASE UNCHANGED fileVars
  BY <1>5 DEF fileVars
<1> QED BY <1>1, <1>2, <1>3, <1>4, <1>5
        DEF Next, Parser, vars, FirstLook, Poll, LoadFile, Throw, ConfigureGroups, Onboard,
            ReadLines, Commit, OnOpen, OnClose, AssignTempID, HelloKnown, HelloAdmit

\* Every step keeps the types of the parsing thread, and its phases.
LEMMA ParserTypesStep ==
  ASSUME FileTypes, ParserTypes, ControlOK, [Next]_vars PROVE ParserTypes' /\ ControlOK'
<1> DEFINE Goal == ParserTypes' /\ ControlOK'
<1> USE DEF ParserTypes, ControlOK, Parsing
<1>1. ASSUME NEW c \in Contents, Save(c) PROVE Goal
  <2>1. c # Truncated
    BY ContentReadable, OnboardingAssumption DEF OnboardingAssumption
  <2> QED BY <1>1, <2>1 DEF Save, clockVars, parseVars
<1>2. CASE Delete
  BY <1>2, OnboardingAssumption DEF Delete, clockVars, parseVars, OnboardingAssumption
<1>3. CASE FirstLook
  <2>1. file_known_to_exist' \in BOOLEAN
    BY Zenon, <1>3 DEF FirstLook
  <2> QED BY <1>3, <2>1 DEF FirstLook, FileTypes, fileVars, parseVars
<1>4. CASE Poll
  <2>1. file_known_to_exist' \in BOOLEAN
    BY Zenon, <1>4 DEF Poll
  <2>2. current_write' \in Nat /\ at' \in {"idle", "load"}
    BY <1>4 DEF Poll, FileTypes
  <2> QED BY <1>4, <2>1, <2>2 DEF Poll, fileVars, parseVars
<1>5. CASE LoadFile
  <2>1. file \in Content
    BY <1>5, ReadableContent DEF LoadFile
  <2> QED BY <1>5, <2>1, ContentReadable DEF LoadFile, fileVars, clockVars
<1>6. CASE Throw \/ Commit
  <2>1. booted' = TRUE
    BY <1>6 DEF Throw, Commit, Return
  <2>2. file_known_to_exist' \in BOOLEAN
    BY Zenon, <1>6 DEF Throw, Commit, Return
  <2>3. at' \in {"start", "idle"} /\ last_write' \in Nat /\ UNCHANGED <<file, current_write, first>>
    BY <1>6 DEF Throw, Commit, Return, Stamp, fileVars
  <2>4. UNCHANGED parseVars /\ at # "write"
    BY <1>6 DEF Throw, Commit
  <2> QED BY Zenon, <2>1, <2>2, <2>3, <2>4 DEF parseVars
<1>7. CASE ConfigureGroups
  <2>1. snapshot \in Content
    BY <1>7 DEF ConfigureGroups
  <2>2. pending' \in SUBSET Requests
    BY <1>7, <2>1 DEF ConfigureGroups, Content
  <2> QED BY <1>7, <2>2 DEF ConfigureGroups, fileVars, clockVars
<1>8. ASSUME NEW r \in Requests, Onboard(r) PROVE Goal
  BY <1>8 DEF Onboard, fileVars, clockVars
<1>9. CASE ReadLines
  <2>1. file # Truncated
    BY <1>9 DEF ReadLines
  <2>2. lines' \in Content \cup {None} /\ (at' = "truncate" => lines' \in Content)
    BY <1>9, <2>1 DEF ReadLines, FileTypes, Files
  <2> QED BY <1>9, <2>1, <2>2, ContentReadable DEF ReadLines, fileVars, clockVars
<1>10. CASE Truncate
  BY <1>10 DEF Truncate, clockVars, parseVars
<1>11. CASE WriteBack
  <2>1. Stripped \in Content
    BY <1>11 DEF WriteBack, Stripped, Content
  <2> QED BY <1>11, <2>1, ContentReadable DEF WriteBack, clockVars, parseVars
<1>12. CASE UNCHANGED <<at, file, clockVars, parseVars>>
  BY <1>12 DEF clockVars, parseVars
<1> QED BY <1>1, <1>2, <1>3, <1>4, <1>5, <1>6, <1>7, <1>8, <1>9, <1>10, <1>11, <1>12
        DEF Next, Parser, vars, fileVars, OnOpen, OnClose, AssignTempID, HelloKnown,
            HelloAdmit

\* The number of answers to a request is a natural number after one more.
LEMMA NextNatural == \A n \in Nat : n + 1 \in Nat
  OBVIOUS

\* Every step keeps the types of what was loaded.
LEMMA ServerTypesStep ==
  ASSUME ParserTypes, ServerTypes, SessionTypes, [Next]_vars PROVE ServerTypes'
<1> USE DEF ServerTypes
<1>1. CASE ConfigureGroups
  <2>1. snapshot \in Content
    BY <1>1 DEF ConfigureGroups, ParserTypes, Parsing
  <2>2. groups' \in [Groups -> Nat \cup {None}]
    BY <1>1, <2>1 DEF ConfigureGroups, Configured, Content
  <2> QED BY <1>1, <2>2 DEF ConfigureGroups
<1>2. ASSUME NEW r \in Requests, Onboard(r) PROVE ServerTypes'
  <2> DEFINE more == [sent EXCEPT ![r] = @ + 1]
  <2>0. sent' = IF ~refused /\ Reached(r) THEN more ELSE sent
    BY <1>2 DEF Onboard
  <2> HIDE DEF more
  <2>1. sent' = sent \/ sent' = more
    BY Zenon, <2>0
  <2>2. sent' \in [Requests -> Nat]
    <3>1. sent \in [Requests -> Nat]
      BY Zenon
    <3>2. sent[r] \in Nat
      BY Zenon, <3>1
    <3>3. sent[r] + 1 \in Nat
      BY Zenon, NextNatural, <3>2
    <3>4. more \in [Requests -> Nat]
      BY Zenon, <3>1, <3>3 DEF more
    <3> QED BY Zenon, <2>1, <3>1, <3>4
  <2> QED BY <1>2, <2>2 DEF Onboard
<1>3. CASE Truncate
  <2>1. refused' \in BOOLEAN
    BY Zenon, <1>3 DEF Truncate
  <2> QED BY <1>3, <2>1 DEF Truncate
<1>4. CASE Commit
  <2>1. snapshot.clients \in [Guids -> Groups \cup {None}]
    BY <1>4 DEF Commit, ParserTypes, Parsing, Content
  <2>2. listed' \in SUBSET (Guids \X (Groups \cup {None}))
    <3>1. ASSUME NEW g \in Guids
          PROVE  <<g, snapshot.clients[g]>> \in Guids \X (Groups \cup {None})
      BY <2>1
    <3> DEFINE new == {<<g, snapshot.clients[g]>> : g \in Guids}
    <3>2. new \subseteq Guids \X (Groups \cup {None})
      BY ZenonT(60), <3>1
    <3>3. listed' = listed \cup new
      BY <1>4 DEF Commit
    <3> HIDE DEF new
    <3> QED BY <3>2, <3>3
  <2>3. valid_clients' \in [Guids -> Groups \cup {None, ""}]
    BY <1>4, <2>1 DEF Commit
  <2> QED BY <1>4, <2>1, <2>2, <2>3 DEF Commit
<1>5. CASE HelloAdmit
  <2>1. hello.guid \in Guids
    BY <1>5 DEF HelloAdmit, SessionTypes
  <2>2. valid_clients' \in [Guids -> Groups \cup {None, ""}]
    BY <1>5, <2>1 DEF HelloAdmit
  <2> QED BY <1>5, <2>2 DEF HelloAdmit
<1>6. CASE UNCHANGED serverVars
  BY <1>6 DEF serverVars
<1> QED BY <1>1, <1>2, <1>3, <1>4, <1>5, <1>6
        DEF Next, Parser, vars, Save, Delete, FirstLook, Poll, LoadFile, Throw, ReadLines,
            WriteBack, OnOpen, OnClose, AssignTempID, HelloKnown

\* Every step keeps the types of the sessions.
LEMMA SessionTypesStep ==
  ASSUME ServerTypes, SessionTypes, [Next]_vars PROVE SessionTypes'
<1> USE DEF SessionTypes
<1>1. ASSUME NEW s \in Sessions, NEW a \in Addresses, OnOpen(s, a) PROVE SessionTypes'
  BY <1>1 DEF OnOpen
<1>2. ASSUME NEW s \in Sessions, OnClose(s) \/ AssignTempID(s) PROVE SessionTypes'
  BY <1>2 DEF OnClose, AssignTempID
<1>3. ASSUME NEW s \in Sessions, NEW g \in Guids, HelloKnown(s, g) PROVE SessionTypes'
  BY <1>3 DEF HelloKnown, sessionVars
<1>4. CASE HelloAdmit
  <2>1. hello.who \in Sessions /\ hello.guid \in Guids
    BY <1>4 DEF HelloAdmit
  <2>2. valid_clients[hello.guid] \in Groups \cup {None, ""}
    BY <2>1 DEF ServerTypes
  <2> QED BY <1>4, <2>1, <2>2 DEF HelloAdmit
<1>5. CASE UNCHANGED <<sessionVars, hello>>
  BY <1>5 DEF sessionVars
<1> QED BY <1>1, <1>2, <1>3, <1>4, <1>5
        DEF Next, Parser, vars, Save, Delete, FirstLook, Poll, LoadFile, Throw,
            ConfigureGroups, Onboard, ReadLines, Truncate, WriteBack, Commit

\* Every step keeps the types, and the phases of ParseYaml.
LEMMA TypeStep ==
  ASSUME TypeOK, ControlOK, [Next]_vars PROVE TypeOK' /\ ControlOK'
BY FileTypesStep, ParserTypesStep, ServerTypesStep, SessionTypesStep DEF TypeOK

-----------------------------------------------------------------------------
\* No step but those of the administrator and of the parser touches what the
\* stamps are about.
LEMMA IoIdle ==
  ASSUME \/ \E s \in Sessions, a \in Addresses : OnOpen(s, a)
         \/ \E s \in Sessions : OnClose(s) \/ AssignTempID(s)
         \/ \E s \in Sessions, g \in Guids : HelloKnown(s, g)
         \/ HelloAdmit
         \/ UNCHANGED vars
  PROVE  Idle
  BY DEF OnOpen, OnClose, AssignTempID, HelloKnown, HelloAdmit, vars, Idle, fileVars,
         parseVars, serverVars, clockVars

\* Every step keeps what the stamps mean.
LEMMA FreshStep ==
  ASSUME TypeOK, ControlOK, StampsOrdered, SnapshotFresh, LoadedFresh, [Next]_vars
  PROVE  StampsOrdered' /\ SnapshotFresh' /\ LoadedFresh'
<1> DEFINE Goal == StampsOrdered' /\ SnapshotFresh' /\ LoadedFresh'
<1> USE DEF StampsOrdered, SnapshotFresh, LoadedFresh, Readable, Parsing
<1>0. /\ mtime \in Nat /\ current_write \in Nat /\ last_write \in Nat /\ first \in Nat
  BY DEF TypeOK, FileTypes, ParserTypes
<1>1. ASSUME NEW c \in Contents, Save(c) PROVE Goal
  BY <1>0, <1>1 DEF Save, clockVars, parseVars, serverVars
<1>2. CASE Delete
  BY <1>0, <1>2 DEF Delete, clockVars, parseVars, serverVars
<1>3. CASE FirstLook
  BY <1>0, <1>3 DEF FirstLook, fileVars, parseVars, serverVars
<1>4. CASE Poll
  BY <1>0, <1>4 DEF Poll, fileVars, parseVars, serverVars
<1>5. CASE LoadFile
  BY <1>0, <1>5 DEF LoadFile, fileVars, clockVars, serverVars
<1>6. CASE Throw
  BY <1>0, <1>6 DEF Throw, Return, fileVars, parseVars, serverVars
<1>7. CASE ConfigureGroups
  BY <1>0, <1>7 DEF ConfigureGroups, fileVars, clockVars
<1>8. ASSUME NEW r \in Requests, Onboard(r) PROVE Goal
  BY <1>0, <1>8 DEF Onboard, fileVars, clockVars
<1>9. CASE ReadLines
  BY <1>0, <1>9 DEF ReadLines, fileVars, clockVars, serverVars
<1>10. CASE Truncate
  BY <1>0, <1>10 DEF Truncate, clockVars, parseVars
<1>11. CASE WriteBack
  BY <1>0, <1>11 DEF WriteBack, clockVars, parseVars, serverVars
<1>12. CASE Commit
  BY <1>0, <1>12 DEF Commit, Return, Stamp, fileVars, parseVars
<1>13. CASE Idle
  BY <1>13 DEF Idle, clockVars
<1> QED BY <1>1, <1>2, <1>3, <1>4, <1>5, <1>6, <1>7, <1>8, <1>9, <1>10, <1>11, <1>12,
           <1>13, IoIdle DEF Next, Parser

-----------------------------------------------------------------------------
\* Every step keeps what was listed, and finds only that.
LEMMA ListedStep ==
  ASSUME TypeOK, ValidListed, HelloListed, AdmittedWasListed, [Next]_vars
  PROVE  ValidListed' /\ HelloListed' /\ AdmittedWasListed'
<1> DEFINE Goal == ValidListed' /\ HelloListed' /\ AdmittedWasListed'
<1> USE DEF ValidListed, HelloListed, AdmittedWasListed, Listed
<1>1. CASE UNCHANGED <<valid_clients, listed, hello, guid, group>>
  BY <1>1
<1>2. CASE Commit
  <2>1. snapshot.clients \in [Guids -> Groups \cup {None}]
    BY <1>2 DEF Commit, TypeOK, ParserTypes, Parsing, Content
  <2>2. listed \subseteq listed' /\ UNCHANGED <<hello, guid, group>>
    BY <1>2 DEF Commit, sessionVars
  <2>3. ValidListed'
    <3> SUFFICES ASSUME NEW g \in Guids, valid_clients'[g] # None
                 PROVE  \E n \in Groups : <<g, n>> \in listed' /\ valid_clients'[g] \in {"", n}
      OBVIOUS
    <3>1. valid_clients'[g] = snapshot.clients[g] /\ snapshot.clients[g] \in Groups
      BY <1>2, <2>1 DEF Commit
    <3>2. <<g, snapshot.clients[g]>> \in listed'
      BY <1>2 DEF Commit
    <3> QED BY <3>1, <3>2
  <2> QED BY <2>2, <2>3
<1>3. ASSUME NEW s \in Sessions, NEW g \in Guids, HelloKnown(s, g) PROVE Goal
  <2>1. Listed(g, valid_clients[g])
    BY <1>3 DEF HelloKnown, Known
  <2>2. hello' = [who |-> s, guid |-> g] /\ UNCHANGED <<valid_clients, listed, guid, group>>
    BY <1>3 DEF HelloKnown, serverVars, sessionVars
  <2> QED BY <2>1, <2>2
<1>4. CASE HelloAdmit
  <2> DEFINE g == hello.guid
             s == hello.who
             found == IF valid_clients[g] = None THEN "" ELSE valid_clients[g]
  <2>1. s \in Sessions /\ g \in Guids
    BY <1>4 DEF HelloAdmit, TypeOK, SessionTypes
  <2>2. Listed(g, found)
    BY <1>4, <2>1 DEF HelloAdmit
  <2>3. /\ valid_clients' = [valid_clients EXCEPT ![g] = found]
        /\ guid' = [guid EXCEPT ![s] = g]
        /\ group' = [group EXCEPT ![s] = found]
        /\ hello' = None
        /\ listed' = listed
    BY <1>4 DEF HelloAdmit
  <2>4. ValidListed'
    <3> HIDE DEF found
    <3> QED BY <2>1, <2>2, <2>3 DEF TypeOK, ServerTypes
  <2>5. AdmittedWasListed'
    <3> SUFFICES ASSUME NEW t \in Sessions, guid'[t] # None
                 PROVE  \E n \in Groups : <<guid'[t], n>> \in listed' /\ group'[t] \in {"", n}
      OBVIOUS
    <3>1. CASE t = s
      <4>1. guid'[t] = g /\ group'[t] = found
        BY <2>1, <2>3, <3>1 DEF TypeOK, SessionTypes
      <4> HIDE DEF found
      <4>2. PICK n \in Groups : <<g, n>> \in listed /\ found \in {"", n}
        BY <2>2
      <4>3. listed' = listed
        BY <2>3
      <4> QED BY <4>1, <4>2, <4>3
    <3>2. CASE t # s
      <4>1. guid'[t] = guid[t] /\ group'[t] = group[t]
        BY <2>1, <2>3, <3>2 DEF TypeOK, SessionTypes
      <4>2. PICK n \in Groups : <<guid[t], n>> \in listed /\ group[t] \in {"", n}
        BY <4>1
      <4>3. listed' = listed
        BY <2>3
      <4> QED BY <4>1, <4>2, <4>3
    <3> QED BY <3>1, <3>2
  <2> QED BY <2>3, <2>4, <2>5
<1>5. \/ \E c \in Contents : Save(c)
      \/ Delete \/ FirstLook \/ Poll \/ LoadFile \/ Throw \/ ConfigureGroups
      \/ \E r \in Requests : Onboard(r)
      \/ ReadLines \/ Truncate \/ WriteBack
      => UNCHANGED <<valid_clients, listed, hello, guid, group>>
  BY DEF Save, Delete, FirstLook, Poll, LoadFile, Throw, ConfigureGroups, Onboard, ReadLines,
         Truncate, WriteBack, serverVars, sessionVars
<1>6. \/ \E s \in Sessions, a \in Addresses : OnOpen(s, a)
      \/ \E s \in Sessions : OnClose(s) \/ AssignTempID(s)
      \/ UNCHANGED vars
      => UNCHANGED <<valid_clients, listed, hello, guid, group>>
  BY DEF OnOpen, OnClose, AssignTempID, vars, serverVars, sessionVars
<1> QED BY <1>1, <1>2, <1>3, <1>4, <1>5, <1>6 DEF Next, Parser

-----------------------------------------------------------------------------
\* IInv is an invariant of Onboarding.
THEOREM Invariance == SafeSpec => []IInv
<1>1. Init => IInv
  <2> SUFFICES ASSUME Init PROVE IInv
    OBVIOUS
  <2>1. file \in Content \cup {Missing} /\ file # Truncated
    BY ContentReadable, OnboardingAssumption DEF Init, OnboardingAssumption
  <2>2. asked \in [Requests -> Nat]
    BY DEF Init
  <2>3. FileTypes
    BY <2>1, <2>2, OnboardingAssumption DEF Init, FileTypes, Files, OnboardingAssumption
  <2>7. ServerTypes /\ SessionTypes
    BY DEF Init, ServerTypes, SessionTypes
  <2>4. ParserTypes
    BY DEF Init, ParserTypes, Parsing
  <2>5. ControlOK /\ StampsOrdered /\ SnapshotFresh /\ LoadedFresh
    BY <2>1 DEF Init, ControlOK, StampsOrdered, SnapshotFresh, LoadedFresh, Parsing
  <2>6. ValidListed /\ HelloListed /\ AdmittedWasListed
    BY DEF Init, ValidListed, HelloListed, AdmittedWasListed
  <2> QED BY <2>3, <2>4, <2>5, <2>6, <2>7 DEF IInv, TypeOK
<1>2. IInv /\ [Next]_vars => IInv'
  <2> SUFFICES ASSUME IInv, [Next]_vars PROVE IInv'
    OBVIOUS
  <2>1. TypeOK' /\ ControlOK'
    BY TypeStep DEF IInv
  <2>2. StampsOrdered' /\ SnapshotFresh' /\ LoadedFresh'
    BY FreshStep DEF IInv
  <2>3. ValidListed' /\ HelloListed' /\ AdmittedWasListed'
    BY ListedStep DEF IInv
  <2> QED BY <2>1, <2>2, <2>3 DEF IInv
<1> QED BY <1>1, <1>2, PTL DEF SafeSpec

\* The types of ConfigManager, the sessions and the file are kept, and a parse in
\* progress always has its snapshot.
THEOREM TypeCorrect == SafeSpec => []TypeOK
<1>1. IInv => TypeOK
  BY DEF IInv
<1> QED BY <1>1, Invariance, PTL

\* The watcher's time stamps are sound: when it sees nothing new, the clients it
\* loaded are those of the file, however the edits, deletions and its own rewrites
\* of the file fell between the steps of ParseYaml.
THEOREM WatcherUpToDate == SafeSpec => []UpToDate
<1>1. IInv => UpToDate
  <2> SUFFICES ASSUME IInv, at = "idle", ~Changed, Readable, mtime > first
               PROVE  loaded = file.clients
    BY DEF UpToDate
  <2>1. booted /\ last_write = mtime
    BY DEF IInv, ControlOK, StampsOrdered, Changed, TypeOK, FileTypes, ParserTypes
  <2> QED BY <2>1 DEF IInv, LoadedFresh
<1> QED BY <1>1, Invariance, PTL

\* Hello admits only GUIDs that a loaded file listed, although the watcher may
\* replace the map between the two lookups.
THEOREM OnlyListedAdmitted == SafeSpec => []AdmittedWasListed
<1>1. IInv => AdmittedWasListed
  BY DEF IInv
<1> QED BY <1>1, Invariance, PTL

-----------------------------------------------------------------------------
\* A request that may still be answered, because it is in the file, in the snapshot or
\* pending, was saved more often than it was answered.  Between its answer and the
\* rewrite the file does not count: the rewrite removes it.
InFile(r) == Readable /\ r \in file.requests

Owed(r) ==
  \/ at \notin {"read", "truncate"} /\ InFile(r)
  \/ at = "groups" /\ r \in snapshot.requests
  \/ at \in {"clients", "read", "truncate", "write"} /\ r \in pending

Answered(r) == sent[r] <= asked[r] /\ (Owed(r) => sent[r] < asked[r])

AnswersOwed == refused \/ \A r \in Requests : Answered(r)

\* Every step keeps the account of one request.
LEMMA AnsweredStep ==
  ASSUME TypeOK, ControlOK, [Next]_vars, NEW r \in Requests, Answered(r), ~refused'
  PROVE  Answered(r)'
<1> USE DEF Answered, Owed, InFile, Readable
<1>0. sent[r] \in Nat /\ asked[r] \in Nat
  BY DEF TypeOK, FileTypes, ServerTypes
<1>1. ASSUME NEW c \in Contents, Save(c) PROVE Answered(r)'
  <2>1. sent'[r] = sent[r] /\ asked'[r] = IF r \in c.requests THEN asked[r] + 1 ELSE asked[r]
    BY <1>1 DEF Save, serverVars, TypeOK, FileTypes
  <2>2. file' = c /\ UNCHANGED <<at, snapshot, pending>>
    BY <1>1 DEF Save, parseVars
  <2> QED BY <1>0, <2>1, <2>2
<1>2. CASE Delete
  BY <1>2 DEF Delete, serverVars, parseVars
<1>3. CASE FirstLook \/ Poll
  BY <1>3 DEF FirstLook, Poll, fileVars, parseVars, serverVars
<1>4. CASE LoadFile
  BY <1>4 DEF LoadFile, fileVars, serverVars
<1>5. CASE Throw \/ Commit
  <2>1. at \notin {"read", "truncate"} /\ at' \in {"start", "idle"}
    BY <1>5 DEF Throw, Commit, Return
  <2>2. UNCHANGED <<file, asked, sent>>
    BY <1>5 DEF Throw, Commit, fileVars, serverVars
  <2> QED BY <2>1, <2>2
<1>6. CASE ConfigureGroups
  BY <1>6 DEF ConfigureGroups, fileVars
<1>7. ASSUME NEW q \in Requests, Onboard(q) PROVE Answered(r)'
  <2>1. /\ at = "clients" /\ q \in pending /\ pending' = pending \ {q} /\ at' = "read"
        /\ UNCHANGED <<file, asked, snapshot>>
    BY <1>7 DEF Onboard, fileVars
  <2>2. sent'[r] \in {sent[r], IF r = q THEN sent[r] + 1 ELSE sent[r]}
    BY <1>7 DEF Onboard, TypeOK, ServerTypes
  <2> QED BY <1>0, <2>1, <2>2
<1>8. CASE ReadLines
  <2>1. at = "read" /\ at' \in {"clients", "truncate"} /\ UNCHANGED <<file, asked, sent, pending>>
    BY <1>8 DEF ReadLines, fileVars, serverVars
  <2>2. at' = "clients" => ~InFile(r)'
    BY <1>8, <2>1 DEF ReadLines
  <2> QED BY <2>1, <2>2
<1>9. CASE Truncate
  <2>1. /\ at = "truncate" /\ at' = "write" /\ file' = Truncated
        /\ UNCHANGED <<asked, sent, pending>>
    BY <1>9 DEF Truncate, parseVars
  <2> QED BY <2>1
<1>10. CASE WriteBack
  <2>1. /\ at = "write" /\ at' = "clients" /\ UNCHANGED <<asked, sent, pending>>
        /\ file' = Stripped \/ UNCHANGED file
    BY <1>10 DEF WriteBack, parseVars, serverVars
  <2>2. Stripped.requests = {}
    BY <1>10 DEF WriteBack, Stripped, TypeOK, ParserTypes, Content
  <2> QED BY <2>1, <2>2
<1>11. CASE UNCHANGED <<file, asked, at, snapshot, pending, sent>>
  BY <1>11
<1>12. \/ \E s \in Sessions, a \in Addresses : OnOpen(s, a)
       \/ \E s \in Sessions : OnClose(s) \/ AssignTempID(s)
       \/ \E s \in Sessions, g \in Guids : HelloKnown(s, g)
       \/ HelloAdmit
       \/ UNCHANGED vars
       => UNCHANGED <<file, asked, at, snapshot, pending, sent>>
  BY DEF OnOpen, OnClose, AssignTempID, HelloKnown, HelloAdmit, vars, fileVars, parseVars,
         serverVars
<1> QED BY <1>1, <1>2, <1>3, <1>4, <1>5, <1>6, <1>7, <1>8, <1>9, <1>10, <1>11, <1>12
        DEF Next, Parser

\* A rewrite that was refused once is remembered.
LEMMA RefusedStays == refused /\ [Next]_vars => refused'
<1> USE DEF serverVars
<1>1. ASSUME refused, Parser PROVE refused'
  BY <1>1 DEF Parser, FirstLook, Poll, LoadFile, Throw, ConfigureGroups, Onboard, ReadLines,
         Truncate, WriteBack, Commit
<1>2. ASSUME refused, [Next]_vars, ~Parser PROVE refused'
  BY <1>2 DEF Next, vars, Save, Delete, OnOpen, OnClose, AssignTempID, HelloKnown, HelloAdmit
<1> QED BY <1>1, <1>2

\* A request is answered no more often than it was saved, whatever is saved, deleted or
\* mistyped around ParseYaml, as long as the file can be written.
THEOREM RequestsAnsweredOnce == SafeSpec => []RequestOnce
<1>1. Init => AnswersOwed
  <2> SUFFICES ASSUME Init, NEW r \in Requests PROVE Answered(r)
    BY DEF AnswersOwed
  <2>1. sent[r] = 0 /\ asked[r] = IF file # Missing /\ r \in file.requests THEN 1 ELSE 0
    BY DEF Init
  <2> QED BY <2>1 DEF Init, Answered, Owed, InFile, Readable
<1>2. IInv /\ AnswersOwed /\ [Next]_vars => AnswersOwed'
  <2> SUFFICES ASSUME IInv, AnswersOwed, [Next]_vars, ~refused' PROVE AnswersOwed'
    BY DEF AnswersOwed
  <2>1. \A r \in Requests : Answered(r)
    BY RefusedStays DEF AnswersOwed
  <2>2. ASSUME NEW r \in Requests PROVE Answered(r)'
    BY <2>1, AnsweredStep DEF IInv
  <2> QED BY <2>2 DEF AnswersOwed
<1>3. AnswersOwed => RequestOnce
  BY DEF AnswersOwed, Answered, RequestOnce
<1> QED BY <1>1, <1>2, <1>3, Invariance, PTL DEF SafeSpec
=============================================================================

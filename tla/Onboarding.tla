----------------------------- MODULE Onboarding -----------------------------
(***************************************************************************)
(* ConfigManager with its watcher thread, the part of BoWWServer that      *)
(* enrolls and admits clients, and the administrator who edits             *)
(* clients.yaml.  ParseYaml runs first in the main thread (LoadConfig) and *)
(* from then on in the detached watcher, so one variable, at, follows it.  *)
(*                                                                         *)
(* Between any two steps of ParseYaml the administrator may save the file  *)
(* and the io thread may handle messages.  valid_clients_ has no lock:     *)
(* IsGUIDValid looks a GUID up twice, and the watcher may replace the map  *)
(* in between.  (It may also replace it during a lookup, which has no      *)
(* defined outcome and is left out.)                                       *)
(*                                                                         *)
(* Data abstracted: the file is its lists of groups, clients and           *)
(* onboarding requests; a file that is not well-formed is one on which     *)
(* ParseYaml fails at some point; a group's configuration is a version     *)
(* number; the time stamp of the file is a count of the writes to it.      *)
(***************************************************************************)
EXTENDS Integers

CONSTANTS
  Sessions,   \* ClientSession objects, one per connection
  Addresses,  \* addresses of connection objects, printed as temporary ids
  Guids,
  Groups,     \* names of groups
  None,       \* absent
  Missing,    \* there is no file
  Truncated,  \* an ofstream has opened the file and written nothing yet
  Contents,   \* what the administrator may save
  MaxSaves    \* bound: edits by the administrator

Requests == [temp : Addresses, guid : Guids]

Content == [clients  : [Guids -> Groups \cup {None}],
            requests : SUBSET Requests,
            groups   : [Groups -> Nat \cup {None}],
            ok       : BOOLEAN]

ASSUME OnboardingAssumption ==
  /\ None \notin Groups \cup Guids \cup Addresses \cup Nat
  /\ Missing # Truncated
  /\ {Missing, Truncated, None} \cap Content = {}
  /\ Contents \subseteq Content
  /\ MaxSaves \in Nat

VARIABLES
  \* clients.yaml and its administrator
  file, mtime, saves,
  \* the thread that runs ParseYaml
  at,             \* what it does next
  booted,         \* LoadConfig is over; the thread is the watcher
  current_write, last_write,
  file_known_to_exist,
  snapshot,       \* the YAML::Node read by LoadFile
  pending,        \* requests of it that the loop has still to reach
  lines,          \* the copy of the file in SafeRemoveOnboardTempId
  \* what was loaded
  valid_clients,  \* group of each valid GUID; "" for an entry made by a lookup
  groups,         \* configuration of each GroupController that exists
  \* the sessions and the io thread
  conn, address, temp_id, guid, group,
  hello,          \* the hello between its two lookups, or None
  \* history
  first,          \* time stamp of the watcher's first look
  loaded,         \* clients of the last file that was parsed to its end
  wanted,         \* what the administrator saved last
  asked, sent,    \* per request: times saved, times answered
  refused,        \* the server could not open the file for writing
  listed          \* <<GUID, group>> of every file parsed to its end

fileVars   == <<file, mtime, saves, wanted, asked>>
parseVars  == <<snapshot, pending, lines>>
clockVars  == <<current_write, last_write, file_known_to_exist, first, booted>>
serverVars == <<valid_clients, groups, loaded, listed, sent, refused>>
sessionVars == <<conn, address, temp_id, guid, group>>
vars == <<fileVars, at, clockVars, parseVars, serverVars, sessionVars, hello>>

\* LoadFile can open the file and finds what the administrator wrote.
Readable == file \notin {Missing, Truncated}

-----------------------------------------------------------------------------
(***************************************************************************)
(* The administrator.                                                      *)
(***************************************************************************)
\* An edit; an editor that read the file long ago may bring back what the
\* server has removed from it.
Save(c) ==
  /\ saves < MaxSaves
  /\ saves' = saves + 1
  /\ file' = c
  /\ wanted' = c
  /\ mtime' = mtime + 1
  /\ asked' = [r \in Requests |-> IF r \in c.requests THEN asked[r] + 1 ELSE asked[r]]
  /\ UNCHANGED <<at, clockVars, parseVars, serverVars, sessionVars, hello>>

Delete ==
  /\ saves < MaxSaves
  /\ file # Missing
  /\ saves' = saves + 1
  /\ file' = Missing
  /\ UNCHANGED <<mtime, wanted, asked, at, clockVars, parseVars, serverVars, sessionVars,
                 hello>>

-----------------------------------------------------------------------------
(***************************************************************************)
(* ParseYaml and its callers.                                              *)
(***************************************************************************)
\* The watcher thread stamps the file before its loop.
FirstLook ==
  /\ at = "start"
  /\ last_write' = mtime
  /\ first' = mtime
  /\ file_known_to_exist' = (file # Missing)
  /\ at' = "idle"
  /\ UNCHANGED <<fileVars, current_write, booted, parseVars, serverVars,
                 sessionVars, hello>>

\* Mutant: once the file is known only a deletion is noticed.
Changed_OnceOnly == ~file_known_to_exist

Changed == ~file_known_to_exist \/ mtime > last_write

\* One round of the watcher's loop, every two seconds.
Poll ==
  /\ at = "idle"
  /\ \/ /\ file # Missing
        /\ Changed
        /\ current_write' = mtime
        /\ at' = "load"
        /\ UNCHANGED file_known_to_exist
     \/ /\ file = Missing
        /\ file_known_to_exist
        /\ file_known_to_exist' = FALSE
        /\ UNCHANGED <<current_write, at>>
  /\ UNCHANGED <<fileVars, last_write, first, booted, parseVars, serverVars,
                 sessionVars, hello>>

\* Mutant: the file is stamped again after it was parsed.
Stamp_Late == mtime

\* The stamp that counts is the one taken before the file was read.
Stamp == current_write

\* ParseYaml returns: to Run, which starts the watcher whatever the result, or
\* to the watcher, which takes the stamp over if all went well.
Return(success) ==
  /\ booted' = TRUE
  /\ at' = IF booted THEN "idle" ELSE "start"
  /\ IF booted /\ success
     THEN last_write' = Stamp /\ file_known_to_exist' = TRUE
     ELSE UNCHANGED <<last_write, file_known_to_exist>>
  /\ UNCHANGED <<current_write, first>>

LoadFile ==
  /\ at = "load"
  /\ Readable
  /\ snapshot' = file
  /\ at' = "groups"
  /\ UNCHANGED <<fileVars, clockVars, pending, lines, serverVars, sessionVars,
                 hello>>

\* An exception ends ParseYaml: there is no file, or the file is not well-formed
\* and the bad node is reached, whatever was done for the nodes before it.
Throw ==
  /\ \/ at = "load" /\ (Readable => ~file.ok)
     \/ at \in {"groups", "clients"} /\ ~snapshot.ok
  /\ Return(FALSE)
  /\ UNCHANGED <<fileVars, parseVars, serverVars, sessionVars, hello>>

\* OnGroupConfigChanged creates the controllers that do not exist yet and leaves
\* the others as they are.
Configured(S) ==
  [n \in Groups |-> IF n \in S /\ groups[n] = None THEN snapshot.groups[n] ELSE groups[n]]

ConfigureGroups ==
  /\ at = "groups"
  /\ \E S \in SUBSET Groups :
       /\ snapshot.ok => S = Groups
       /\ groups' = Configured(S)
  /\ pending' = snapshot.requests
  /\ at' = "clients"
  /\ UNCHANGED <<fileVars, clockVars, snapshot, lines, valid_clients, loaded, listed, sent,
                 refused, sessionVars, hello>>

GetID(s) == IF guid[s] # None THEN guid[s] ELSE temp_id[s]

\* Some session has the temporary id; two open ones never have the same.
Reached(r) == \E s \in Sessions : conn[s] = "open" /\ GetID(s) = r.temp

\* OnClientOnboarded: the session that has the temporary id is sent the GUID; if
\* there is none the request is gone all the same.  (Once a rewrite was refused,
\* answers are no longer counted: they may be repeated without end.)
Onboard(r) ==
  /\ at = "clients"
  /\ r \in pending
  /\ pending' = pending \ {r}
  /\ sent' = IF ~refused /\ Reached(r) THEN [sent EXCEPT ![r] = @ + 1] ELSE sent
  /\ at' = "read"
  /\ UNCHANGED <<fileVars, clockVars, snapshot, lines, valid_clients, groups, loaded,
                 listed, refused, sessionVars, hello>>

\* SafeRemoveOnboardTempId reads the file as it is now.
ReadLines ==
  /\ at = "read"
  /\ IF file = Missing \/ file.requests = {}
     THEN at' = "clients" /\ UNCHANGED lines
     ELSE at' = "truncate" /\ lines' = file
  /\ UNCHANGED <<fileVars, clockVars, snapshot, pending, serverVars, sessionVars,
                 hello>>

\* It opens the file for writing, which empties it, unless that is refused.
Truncate ==
  /\ at = "truncate"
  /\ \/ file' = Truncated /\ mtime' = mtime + 1 /\ at' = "write" /\ UNCHANGED refused
     \/ refused' = TRUE /\ at' = "clients" /\ UNCHANGED <<file, mtime>>
  /\ UNCHANGED <<saves, wanted, asked, clockVars, parseVars, valid_clients, groups,
                 loaded, listed, sent, sessionVars, hello>>

\* Mutant: the lines are written back with the temporary ids.
Stripped_Not == lines

\* Every line with a temporary id is left out.
Stripped == [lines EXCEPT !.requests = {}]

\* An edit saved meanwhile is overwritten; or it is what the name now stands for,
\* if the editor replaced the file instead of writing into it.
WriteBack ==
  /\ at = "write"
  /\ \/ file' = Stripped /\ mtime' = mtime + 1
     \/ file # Truncated /\ UNCHANGED <<file, mtime>>
  /\ at' = "clients"
  /\ UNCHANGED <<saves, wanted, asked, clockVars, parseVars, serverVars, sessionVars,
                 hello>>

\* The end of the loop: the new map replaces the old one.
Commit ==
  /\ at = "clients"
  /\ snapshot.ok
  /\ pending = {}
  /\ valid_clients' = snapshot.clients
  /\ loaded' = snapshot.clients
  /\ listed' = listed \cup {<<g, snapshot.clients[g]>> : g \in Guids}
  /\ Return(TRUE)
  /\ UNCHANGED <<fileVars, parseVars, groups, sent, refused, sessionVars, hello>>

Parser ==
  \/ FirstLook \/ Poll \/ LoadFile \/ Throw \/ ConfigureGroups
  \/ \E r \in Requests : Onboard(r)
  \/ ReadLines \/ Truncate \/ WriteBack \/ Commit

-----------------------------------------------------------------------------
(***************************************************************************)
(* The io thread: connections, enrollment and hello.                       *)
(***************************************************************************)
Serving == booted /\ hello = None

OnOpen(s, a) ==
  /\ Serving
  /\ conn[s] = "fresh"
  /\ \A t \in Sessions : conn[t] = "open" => address[t] # a
  /\ conn' = [conn EXCEPT ![s] = "open"]
  /\ address' = [address EXCEPT ![s] = a]
  /\ UNCHANGED <<fileVars, at, clockVars, parseVars, serverVars, temp_id, guid,
                 group, hello>>

OnClose(s) ==
  /\ Serving
  /\ conn[s] = "open"
  /\ conn' = [conn EXCEPT ![s] = "closed"]
  /\ UNCHANGED <<fileVars, at, clockVars, parseVars, serverVars, address, temp_id,
                 guid, group, hello>>

\* The temporary id is the address of the connection.
AssignTempID(s) ==
  /\ Serving
  /\ conn[s] = "open"
  /\ temp_id' = [temp_id EXCEPT ![s] = address[s]]
  /\ UNCHANGED <<fileVars, at, clockVars, parseVars, serverVars, conn, address,
                 guid, group, hello>>

\* Mutant: every GUID is known.
Known_Any(g) == TRUE

\* valid_clients_.count(guid)
Known(g) == valid_clients[g] # None

\* The first lookup of IsGUIDValid; an unknown GUID is only logged.
HelloKnown(s, g) ==
  /\ Serving
  /\ conn[s] = "open"
  /\ Known(g)
  /\ hello' = [who |-> s, guid |-> g]
  /\ UNCHANGED <<fileVars, at, clockVars, parseVars, serverVars, sessionVars>>

\* The second, valid_clients_[guid], makes an entry if the first has gone.
HelloAdmit ==
  /\ hello # None
  /\ LET g == hello.guid
         found == IF valid_clients[g] = None THEN "" ELSE valid_clients[g]
     IN  /\ valid_clients' = [valid_clients EXCEPT ![g] = found]
         /\ guid' = [guid EXCEPT ![hello.who] = g]
         /\ group' = [group EXCEPT ![hello.who] = found]
  /\ hello' = None
  /\ UNCHANGED <<fileVars, at, clockVars, parseVars, groups, loaded, listed, sent,
                 refused, conn, address, temp_id>>

-----------------------------------------------------------------------------
Init ==
  /\ file \in Contents \cup {Missing}
  /\ mtime = 1
  /\ saves = 0
  /\ wanted = file
  /\ at = "load"
  /\ booted = FALSE
  /\ current_write = 0
  /\ last_write = 0
  /\ first = 0
  /\ file_known_to_exist = FALSE
  /\ snapshot = None
  /\ pending = {}
  /\ lines = None
  /\ valid_clients = [g \in Guids |-> None]
  /\ groups = [n \in Groups |-> None]
  /\ loaded = [g \in Guids |-> None]
  /\ listed = {}
  /\ asked = [r \in Requests |-> IF file # Missing /\ r \in file.requests THEN 1 ELSE 0]
  /\ sent = [r \in Requests |-> 0]
  /\ refused = FALSE
  /\ conn = [s \in Sessions |-> "fresh"]
  /\ address = [s \in Sessions |-> None]
  /\ temp_id = [s \in Sessions |-> None]
  /\ guid = [s \in Sessions |-> None]
  /\ group = [s \in Sessions |-> None]
  /\ hello = None

Next ==
  \/ \E c \in Contents : Save(c)
  \/ Delete
  \/ Parser
  \/ \E s \in Sessions, a \in Addresses : OnOpen(s, a)
  \/ \E s \in Sessions : OnClose(s) \/ AssignTempID(s)
  \/ \E s \in Sessions, g \in Guids : HelloKnown(s, g)
  \/ HelloAdmit

SafeSpec == Init /\ [][Next]_vars

\* The parsing thread runs, and the watcher polls for as long as the process
\* lives; nobody else is obliged to do anything.
Fairness == WF_vars(Parser)

Spec == SafeSpec /\ Fairness

-----------------------------------------------------------------------------
Files == Content \cup {Missing, Truncated}
Parsing == at \in {"groups", "clients", "read", "truncate", "write"}

FileTypes ==
  /\ file \in Files
  /\ mtime \in Nat
  /\ saves \in 0..MaxSaves
  /\ wanted \in Content \cup {Missing}
  /\ asked \in [Requests -> Nat]

ParserTypes ==
  /\ at \in {"start", "idle", "load", "groups", "clients", "read", "truncate", "write"}
  /\ booted \in BOOLEAN
  /\ current_write \in Nat
  /\ last_write \in Nat
  /\ first \in Nat
  /\ file_known_to_exist \in BOOLEAN
  /\ snapshot \in Content \cup {None}
  /\ Parsing => snapshot # None
  /\ pending \in SUBSET Requests
  /\ lines \in Content \cup {None}
  /\ at \in {"truncate", "write"} => lines # None

ServerTypes ==
  /\ valid_clients \in [Guids -> Groups \cup {None, ""}]
  /\ groups \in [Groups -> Nat \cup {None}]
  /\ loaded \in [Guids -> Groups \cup {None}]
  /\ listed \in SUBSET (Guids \X (Groups \cup {None}))
  /\ sent \in [Requests -> Nat]
  /\ refused \in BOOLEAN

SessionTypes ==
  /\ conn \in [Sessions -> {"fresh", "open", "closed"}]
  /\ address \in [Sessions -> Addresses \cup {None}]
  /\ temp_id \in [Sessions -> Addresses \cup {None}]
  /\ guid \in [Sessions -> Guids \cup {None}]
  /\ group \in [Sessions -> Groups \cup {None, ""}]
  /\ hello \in [who : Sessions, guid : Guids] \cup {None}

\* The type invariant; a snapshot is there exactly from LoadFile on.
TypeOK == FileTypes /\ ParserTypes /\ ServerTypes /\ SessionTypes

\* A watcher that sees nothing new has nothing new to see: whatever was saved,
\* deleted, restored or rewritten while it was parsing, the clients it loaded
\* last are those of the file, unless the file is still the one it first looked
\* at (StartWatching's time stamps; what happened before the first look is lost).
UpToDate ==
  at = "idle" /\ ~Changed /\ Readable /\ mtime > first =>
    loaded = file.clients

\* A request is answered no more often than the administrator saved it, although
\* a file that fails to parse, or that is saved again, is parsed again: unless
\* the file cannot be written, it has lost the request by then (ParseYaml's
\* order of sending and removing).
RequestOnce == refused \/ \A r \in Requests : sent[r] <= asked[r]

\* A session has only a GUID that some loaded file listed, in a group that it
\* listed for it, or in none if the entry went while the hello was handled
\* (IsGUIDValid without a lock).
AdmittedWasListed ==
  \A s \in Sessions : guid[s] # None =>
    \E n \in Groups :
      /\ <<guid[s], n>> \in listed
      /\ group[s] \in {"", n}

\* The clients k stay in a well-formed file that the watcher has not seen first.
Settled(k) ==
  /\ Readable
  /\ file.ok
  /\ file.clients = k
  /\ mtime > first

InForce(k) == \A g \in Guids : k[g] # None => valid_clients[g] = k[g]

\* What the administrator saves and leaves alone is in force in the end, and
\* stays so: an id that was assigned before it became valid becomes valid.
ConfigTakesEffect ==
  \A c \in Contents : <>[]Settled(c.clients) => <>[]InForce(c.clients)

\* ConfigManager.cpp: "Safely removed" - removing temporary ids leaves the rest
\* of the file as the administrator saved it.
SafelyRemoved ==
  [][at = "write" /\ at' = "clients" /\ file' # Missing =>
       file'.clients = wanted.clients]_vars
=============================================================================

---------------------------- MODULE ConfigStore -----------------------------
(***************************************************************************)
(* The server's configuration: in memory and in server.toml (api.rs,       *)
(* app_state of server.rs), as changed by pages of the web console         *)
(* (ConfigEditor.tsx) and other clients.                                   *)
(*                                                                         *)
(* put_config reads, writes the file and then the memory without holding a *)
(* lock, and fs::write empties the file before it fills it.  A config is   *)
(* a port and the server_id; the other fields go the way of the port, and  *)
(* server_name that of the id.  What a page has fetched and edited is in   *)
(* no state of the server: a form is any port that it may hold.            *)
(***************************************************************************)
EXTENDS Naturals

CONSTANTS Page,       \* clients of /api/config
          PortMax,    \* u16::MAX
          CliPort,    \* --port
          MaxBoots    \* bound on starts of the server

ASSUME ConfigAssumption ==
    /\ PortMax \in Nat /\ CliPort \in 1..PortMax
    /\ MaxBoots \in Nat \ {0}

VARIABLES
    up,        \* the server process runs
    boots,     \* its starts: a new id is the number of the start
    mem,       \* AppState.config (the last one, while the server is down)
    file,      \* server.toml: missing, empty, torn or whole
    disk,      \* the config in it, when it is whole
    put,       \* the PUT request of a page: where it is
    new,       \* new_config of that request
    since      \* history: since the start nothing was saved (boot), PUTs were
               \* saved one by one (saved), or overlapped or failed (mixed)

configVars == <<up, boots, mem, file, disk, put, new, since>>

Config == [port : 1..PortMax, id : 1..MaxBoots]

ConfigTypeOK ==
    /\ up \in BOOLEAN /\ boots \in 1..MaxBoots /\ since \in {"boot", "saved", "mixed"}
    /\ mem \in Config /\ disk \in Config
    /\ file \in {"missing", "empty", "torn", "whole"}
    /\ put \in [Page -> {"none", "open", "write", "commit"}]
    /\ new \in [Page -> Config]

ConfigInit ==
    /\ up = TRUE /\ boots = 1
    /\ mem = [port |-> CliPort, id |-> 1]
    /\ file = "missing" /\ disk = mem
    /\ put = [p \in Page |-> "none"]
    /\ new = [p \in Page |-> mem]
    /\ since = "boot"

\* The process ends, with whatever requests it was serving.
Crash ==
    /\ up
    /\ up' = FALSE
    /\ put' = [p \in Page |-> "none"]
    /\ UNCHANGED <<boots, mem, file, disk, new, since>>

\* app_state: load_config falls back to defaults, with an id of their own, when
\* the file is missing or cannot be parsed.  The command line wins over the port
\* of the file.  Nothing is written.
Boot ==
    /\ ~up /\ boots < MaxBoots
    /\ up' = TRUE /\ boots' = boots + 1
    /\ mem' = [port |-> CliPort,
               id |-> IF file = "whole" THEN disk.id ELSE boots + 1]
    /\ since' = "boot"
    /\ UNCHANGED <<file, disk, put, new>>

\* Mutant: the port 0 passes.
MutValidatePort(port) == port \in 0..PortMax

ValidatePort(port) == port \in 1..PortMax

\* Mutant: the fields are set in a default configuration.
MutUpdated(port) == [port |-> port, id |-> boots]

\* The request has no field for the id.
Updated(port) == [mem EXCEPT !.port = port]

\* put_config: a clone of the memory, with the fields of the request.  A port
\* out of range is answered with 400, and nothing has changed.
PutRead(p, port) ==
    /\ up /\ put[p] = "none"
    /\ ValidatePort(port)
    /\ put' = [put EXCEPT ![p] = "open"]
    /\ new' = [new EXCEPT ![p] = Updated(port)]
    /\ since' = IF \A q \in Page : put[q] = "none" THEN since ELSE "mixed"
    /\ UNCHANGED <<up, boots, mem, file, disk>>

\* persist_config: fs::write opens the file, which empties it,
PersistOpen(p) ==
    /\ put[p] = "open"
    /\ put' = [put EXCEPT ![p] = "write"]
    /\ file' = "empty"
    /\ UNCHANGED <<up, boots, mem, disk, new, since>>

\* and writes.  Over what another request has written in the meantime, a shorter
\* text leaves the end of the longer one.
PersistWrite(p) ==
    /\ put[p] = "write"
    /\ put' = [put EXCEPT ![p] = "commit"]
    /\ disk' = new[p]
    /\ \/ file' = "whole"
       \/ file # "empty" /\ file' = "torn"
    /\ UNCHANGED <<up, boots, mem, new, since>>

\* The directory, the file or the write fails: 500.
PersistFails(p) ==
    /\ put[p] \in {"open", "write"}
    /\ put' = [put EXCEPT ![p] = "none"]
    /\ \/ UNCHANGED file
       \/ put[p] = "write" /\ file' = "torn"
    /\ since' = "mixed"
    /\ UNCHANGED <<up, boots, mem, disk, new>>

\* Mutant: the file is updated and the memory is not.
MutPutCommit(p) ==
    /\ put[p] = "commit"
    /\ put' = [put EXCEPT ![p] = "none"]
    /\ since' = IF since = "boot" THEN "saved" ELSE since
    /\ UNCHANGED <<up, boots, mem, file, disk, new>>

\* The memory follows.
PutCommit(p) ==
    /\ put[p] = "commit"
    /\ put' = [put EXCEPT ![p] = "none"]
    /\ mem' = new[p]
    /\ since' = IF since = "boot" THEN "saved" ELSE since
    /\ UNCHANGED <<up, boots, file, disk, new>>

\* handlePortChange: what a form takes over of what is typed into it.
Typed == {port \in 0..PortMax + 1 : port > 0 /\ port <= PortMax}

\* handleSave: a page sends its form, which may come from an old copy.
HandleSave(p) == \E port \in Typed : PutRead(p, port)

\* Other clients send any number.
OtherClient(p) == \E port \in 0..PortMax + 1 : PutRead(p, port)

ConfigNext ==
    \/ Crash \/ Boot
    \/ \E p \in Page :
         \/ PersistOpen(p) \/ PersistWrite(p)
         \/ PersistFails(p) \/ PutCommit(p)
         \/ HandleSave(p) \/ OtherClient(p)

ConfigSpec == ConfigInit /\ [][ConfigNext]_configVars

-----------------------------------------------------------------------------
\* put_config keeps the file and the memory the same if requests take turns: while
\* none overlapped and none failed since the start, the file holds what the server
\* uses.  Of overlapping requests nothing is said.
FileIsMemory ==
    up /\ since = "saved" /\ (\A p \in Page : put[p] = "none") => file = "whole" /\ disk = mem

\* Neither a PUT nor a start of the server with a readable file changes the id.  A
\* start without one does, be it that no request has written the file yet or that
\* a crash has left it empty.
IdSurvives ==
    [][file = "whole" \/ up => mem'.id = mem.id]_configVars

\* api.rs: "Stable per-server identifier (UUIDv7).  Generated on first boot and
\* persisted to server.toml."
IdIsStable == [][mem'.id = mem.id]_configVars

=============================================================================

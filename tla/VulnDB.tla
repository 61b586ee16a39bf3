------------------------------- MODULE VulnDB -------------------------------
(***************************************************************************)
(* A scan that reads the vulnerability database while it is republished:   *)
(* newConfig's LastModifiedTime, then FetchVulnerabilities, one ByModule   *)
(* for each module, over HTTP (src/internal/client/http.go) or from a      *)
(* directory (file.go).  ByModule reads the index, and the file of the     *)
(* module only if the index lists it, so the two are read at different     *)
(* times, and different modules at times further apart.                    *)
(*                                                                         *)
(* The publisher is not part of the repository.  It writes the files that  *)
(* change first and the index, with its modification time, last; that is   *)
(* what "assume that if anything changes, the index does" asks of it.      *)
(***************************************************************************)
EXTENDS Naturals, FiniteSets

CONSTANTS
  Module,       \* module paths, in the database or not
  Wanted,       \* those of the program that is scanned
  Publications  \* bound: number of publications

ASSUME WantedAssumption == Wanted \subseteq Module
ASSUME PublicationsAssumption == Publications \in Nat

VARIABLES
  version,   \* number of publications begun
  changed,   \* changed[v]: modules that publication v wrote
  pending,   \* modules the current publication has still to write
  file,      \* file[m]: publication that wrote m's file last, 0: no file
  index,     \* the modules index.json lists
  modified,  \* publication of index.json, its modification time
  LastModified,  \* what newConfig put into the Config, 0: nothing
  started,   \* newConfig is done
  asking,    \* modules whose ByModule found them in the index
  returned,  \* returned[m]: publication of the entries returned, 0: none
  answered,  \* modules whose ByModule has returned without an error
  requested, \* module paths the database server was told
  failed     \* a ByModule has failed, and so has FetchVulnerabilities

database == <<version, changed, pending, file, index, modified>>
client   == <<LastModified, started, asking, returned, answered, requested, failed>>
dbVars   == <<database, client>>

DBInit ==
  /\ version = 0
  /\ changed = [v \in 1 .. Publications |-> {}]
  /\ pending = {}
  /\ file = [m \in Module |-> 0]
  /\ index = {}
  /\ modified = 0
  /\ LastModified = 0 /\ started = FALSE
  /\ asking = {}
  /\ returned = [m \in Wanted |-> 0]
  /\ answered = {} /\ requested = {}
  /\ failed = FALSE

-----------------------------------------------------------------------------
(* The publisher.                                                          *)

Publish ==
  /\ pending = {} /\ modified = version /\ version < Publications
  /\ \E S \in (SUBSET Module) \ {{}} :
       /\ pending' = S
       /\ changed' = [changed EXCEPT ![version + 1] = S]
  /\ version' = version + 1
  /\ UNCHANGED <<file, index, modified, client>>

WriteFile ==
  /\ \E m \in pending :
       /\ file' = [file EXCEPT ![m] = version]
       /\ pending' = pending \ {m}
  /\ UNCHANGED <<version, changed, index, modified, client>>

WriteIndex ==
  /\ pending = {} /\ modified < version
  /\ index' = index \cup changed[version]
  /\ modified' = version
  /\ UNCHANGED <<version, changed, pending, file, client>>

-----------------------------------------------------------------------------
(* The scan.                                                               *)

\* newConfig; an error of LastModifiedTime leaves the field out.
ReadLastModified ==
  /\ ~started
  /\ started' = TRUE
  /\ LastModified' \in {modified, 0}
  /\ UNCHANGED <<database, asking, returned, answered, requested, failed>>

\* Bugs: the fetch begins before newConfig; the index is not consulted.
ReadIndexFirst(m) ==
  /\ ~failed /\ asking = {} /\ m \notin answered
  /\ IF m \in index
     THEN asking' = {m} /\ UNCHANGED answered
     ELSE answered' = answered \cup {m} /\ UNCHANGED asking
  /\ UNCHANGED <<database, LastModified, started, returned, requested, failed>>
SkipIndex(m) ==
  /\ started /\ ~failed /\ asking = {} /\ m \notin answered
  /\ asking' = {m}
  /\ UNCHANGED <<database, LastModified, started, returned, answered, requested,
                 failed>>

\* ByModule(m) reads the index.  A module that it does not list has no
\* entries, and the database is not told about it.
ReadIndex(m) ==
  /\ started /\ ~failed /\ asking = {} /\ m \notin answered
  /\ IF m \in index
     THEN asking' = {m} /\ UNCHANGED answered
     ELSE answered' = answered \cup {m} /\ UNCHANGED asking
  /\ UNCHANGED <<database, LastModified, started, returned, requested, failed>>

\* ByModule(m) reads the file of m; a file that is not there (404 over HTTP)
\* means no entries.
ReadFile(m) ==
  /\ ~failed /\ m \in asking
  /\ asking' = asking \ {m}
  /\ requested' = requested \cup {m}
  /\ answered' = answered \cup {m}
  /\ returned' = [returned EXCEPT ![m] = file[m]]
  /\ UNCHANGED <<database, LastModified, started, failed>>

\* Reading the index or the file fails: any status but 200 and 404, a
\* document that does not parse, a cancelled context.
ReadFails ==
  /\ started /\ ~failed /\ answered # Wanted
  /\ failed' = TRUE
  /\ requested' \in {requested, requested \cup asking}
  /\ UNCHANGED <<database, LastModified, started, asking, returned, answered>>

Publisher == Publish \/ WriteFile \/ WriteIndex
Scan ==
  \/ ReadLastModified \/ ReadFails
  \/ \E m \in Wanted : ReadIndex(m) \/ ReadFile(m)

DBNext == Publisher \/ Scan

DBSpec == DBInit /\ [][DBNext]_dbVars

-----------------------------------------------------------------------------
(***************************************************************************)
(* The scan uses no entries older than the time it reports: everything     *)
(* published up to the LastModified of the Config message is in what the   *)
(* later ByModule calls return, even if they fall into a publication.      *)
(***************************************************************************)
AsFreshAsReported ==
  \A m \in answered, v \in 1 .. LastModified :
    m \in changed[v] => returned[m] >= v

(***************************************************************************)
(* Privacy: the path of a module is sent to the database only if the       *)
(* database has published entries for it.                                  *)
(***************************************************************************)
OnlyPublicPaths ==
  requested \subseteq UNION {changed[v] : v \in 1 .. Publications}

(***************************************************************************)
(* A module that the index lists has its entries: reading the index before *)
(* the file can not turn a vulnerable module into one without entries.     *)
(***************************************************************************)
ListedHasEntries ==
  \A m \in requested \cap answered : returned[m] > 0

-----------------------------------------------------------------------------
(* The inductive invariant.                                                *)

DBTypeOK ==
  /\ version \in 0 .. Publications /\ modified \in 0 .. version
  /\ changed \in [1 .. Publications -> SUBSET Module]
  /\ pending \subseteq Module /\ index \subseteq Module
  /\ file \in [Module -> Nat]
  /\ LastModified \in 0 .. modified
  /\ started \in BOOLEAN /\ failed \in BOOLEAN
  /\ asking \subseteq Wanted /\ answered \subseteq Wanted
  /\ requested \subseteq Wanted
  /\ returned \in [Wanted -> Nat]

\* A file is written before the index that lists it: what a publication
\* changed is in the files, but for what the current one has still to write.
Published ==
  /\ modified = version => pending = {}
  /\ modified >= version - 1
  /\ \A v \in 1 .. Publications : v > version => changed[v] = {}
  /\ index = UNION {changed[v] : v \in 1 .. modified}
  /\ \A v \in 1 .. version : \A m \in changed[v] :
       file[m] >= v \/ (v = version /\ m \in pending)

\* Only modules of the index are asked for, and one is answered from its file
\* unless the index did not list it.
Asked ==
  /\ ~started => LastModified = 0 /\ asking = {} /\ answered = {}
  /\ asking \cup requested \subseteq index
  /\ asking \cap answered = {}
  /\ AsFreshAsReported
  /\ ListedHasEntries

DBInv == DBTypeOK /\ Published /\ Asked
=============================================================================

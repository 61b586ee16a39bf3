---------------------------- MODULE VulnDB_proof ----------------------------
(***************************************************************************)
(* Theorems about a scan that reads the database while it is republished,  *)
(* for any modules and any number of publications.                         *)
(***************************************************************************)
EXTENDS VulnDB, TLAPS

USE WantedAssumption, PublicationsAssumption

LEMMA InitInv == DBInit => DBInv
<1> SUFFICES ASSUME DBInit PROVE DBInv
  OBVIOUS
<1> USE DEF DBInit
<1>1. DBTypeOK
  <2>1. changed \in [1 .. Publications -> SUBSET Module]
    OBVIOUS
  <2>2. file \in [Module -> Nat] /\ returned \in [Wanted -> Nat]
    OBVIOUS
  <2>3. version \in 0 .. Publications /\ modified \in 0 .. version /\ LastModified \in 0 .. modified
    OBVIOUS
  <2> QED BY <2>1, <2>2, <2>3 DEF DBTypeOK
<1>2. Published
  <2>1. UNION {changed[v] : v \in 1 .. modified} = {}
    <3>1. 1 .. modified = {}
      OBVIOUS
    <3> QED BY <3>1, Zenon
  <2>2. \A v \in 1 .. Publications : changed[v] = {}
    BY Zenon
  <2>3. modified >= version - 1 /\ 1 .. version = {}
    OBVIOUS
  <2> QED BY <2>1, <2>2, <2>3 DEF Published
<1>3. Asked
  BY DEF Asked, AsFreshAsReported, ListedHasEntries
<1> QED BY <1>1, <1>2, <1>3 DEF DBInv

\* What the scan knows does not change while it does nothing: publications are
\* only added, beyond the modification time it read, and so is the index.
LEMMA AskedKept ==
  ASSUME DBInv, UNCHANGED client, index \subseteq index',
         \A v \in 1 .. modified : changed'[v] = changed[v]
  PROVE  Asked'
BY DEF DBInv, DBTypeOK, Asked, AsFreshAsReported, ListedHasEntries, client

LEMMA PublishStep == DBInv /\ Publish => DBInv'
<1> SUFFICES ASSUME DBInv, Publish PROVE DBInv'
  OBVIOUS
<1> USE DEF DBInv
<1>1. PICK S \in SUBSET Module :
        /\ pending' = S
        /\ changed' = [changed EXCEPT ![version + 1] = S]
        /\ S # {}
  BY DEF Publish
<1>2. /\ pending = {} /\ modified = version /\ version < Publications
      /\ version' = version + 1
      /\ UNCHANGED <<file, index, modified, client>>
  BY DEF Publish
<1>3. \A v \in 1 .. version : changed'[v] = changed[v]
  BY <1>1, <1>2 DEF DBTypeOK
<1>4. changed'[version + 1] = S
  BY <1>1, <1>2 DEF DBTypeOK
<1>5. DBTypeOK'
  BY <1>1, <1>2 DEF DBTypeOK, client
<1>6. Published'
  <2>1. modified' # version' /\ modified' >= version' - 1
    BY <1>2 DEF DBTypeOK
  <2>2. \A v \in 1 .. Publications : v > version' => changed'[v] = {}
    <3> SUFFICES ASSUME NEW v \in 1 .. Publications, v > version' PROVE changed'[v] = {}
      OBVIOUS
    <3>1. v # version + 1 /\ v > version
      BY <1>2 DEF DBTypeOK
    <3>2. changed'[v] = changed[v]
      BY <1>1, <3>1 DEF DBTypeOK
    <3> QED BY <3>1, <3>2 DEF Published
  <2>3. index' = UNION {changed'[v] : v \in 1 .. modified'}
    BY <1>2, <1>3 DEF DBTypeOK, Published
  <2>4. ASSUME NEW v \in 1 .. version', NEW m \in changed'[v]
        PROVE  file'[m] >= v \/ (v = version' /\ m \in pending')
    <3>1. CASE v = version'
      BY <1>1, <1>2, <1>4, <2>4, <3>1
    <3>2. CASE v # version'
      <4>1. v \in 1 .. version /\ m \in changed[v]
        BY <1>2, <1>3, <2>4, <3>2 DEF DBTypeOK
      <4> QED BY <1>2, <4>1 DEF Published
    <3> QED BY <3>1, <3>2
  <2> QED BY <2>1, <2>2, <2>3, <2>4 DEF Published
<1>7. Asked'
  BY <1>2, <1>3, AskedKept
<1> QED BY <1>5, <1>6, <1>7

LEMMA WriteFileStep == DBInv /\ WriteFile => DBInv'
<1> SUFFICES ASSUME DBInv, WriteFile PROVE DBInv'
  OBVIOUS
<1> USE DEF DBInv
<1>1. PICK m \in pending :
        file' = [file EXCEPT ![m] = version] /\ pending' = pending \ {m}
  BY DEF WriteFile
<1>2. UNCHANGED <<version, changed, index, modified, client>>
  BY DEF WriteFile
<1>3. DBTypeOK'
  BY <1>1, <1>2 DEF DBTypeOK, client
<1>4. Published'
  BY <1>1, <1>2 DEF DBTypeOK, Published
<1>5. Asked'
  BY <1>2, AskedKept
<1> QED BY <1>3, <1>4, <1>5

LEMMA WriteIndexStep == DBInv /\ WriteIndex => DBInv'
<1> SUFFICES ASSUME DBInv, WriteIndex PROVE DBInv'
  OBVIOUS
<1> USE DEF DBInv, WriteIndex
<1>1. modified = version - 1 /\ version \in 1 .. Publications
  BY DEF DBTypeOK, Published
<1>2. DBTypeOK'
  BY <1>1 DEF DBTypeOK, client
<1>3. Published'
  <2>1. index' = UNION {changed'[v] : v \in 1 .. modified'}
    <3>1. 1 .. version = (1 .. modified) \cup {version}
      BY <1>1
    <3> QED BY <3>1 DEF Published
  <2> QED BY <1>1, <2>1 DEF DBTypeOK, Published
<1>4. Asked'
  BY AskedKept
<1> QED BY <1>2, <1>3, <1>4

LEMMA ScanStep == DBInv /\ Scan => DBInv'
<1> SUFFICES ASSUME DBInv, Scan PROVE DBInv'
  OBVIOUS
<1> USE DEF DBInv
<1>1. UNCHANGED database
  BY DEF Scan, ReadLastModified, ReadFails, ReadIndex, ReadFile
<1>2. Published'
  BY <1>1 DEF Published, database
<1>3. CASE ReadLastModified
  BY <1>2, <1>3 DEF ReadLastModified, DBTypeOK, Asked, AsFreshAsReported,
     ListedHasEntries, database
<1>4. CASE ReadFails
  BY <1>2, <1>4 DEF ReadFails, DBTypeOK, Asked, AsFreshAsReported,
     ListedHasEntries, database
<1>5. ASSUME NEW m \in Wanted, ReadIndex(m) PROVE DBInv'
  <2>1. DBTypeOK'
    BY <1>5 DEF ReadIndex, DBTypeOK, database
  <2>2. started /\ asking = {} /\ UNCHANGED <<LastModified, started, returned, requested, index, changed>>
    BY <1>1, <1>5 DEF ReadIndex, database
  <2>3. AsFreshAsReported'
    <3>1. CASE m \in index
      BY <1>5, <2>2, <3>1 DEF ReadIndex, Asked, AsFreshAsReported
    <3>2. CASE m \notin index
      <4>1. \A v \in 1 .. LastModified : m \notin changed[v]
        BY <3>2 DEF DBTypeOK, Published
      <4> QED BY <1>5, <2>2, <3>2, <4>1 DEF ReadIndex, Asked, AsFreshAsReported
    <3> QED BY <3>1, <3>2
  <2>4. ListedHasEntries'
    <3>1. m \notin index => m \notin requested
      BY DEF Asked
    <3> QED BY <1>5, <2>2, <3>1 DEF ReadIndex, Asked, ListedHasEntries
  <2>5. asking' \cup requested' \subseteq index' /\ asking' \cap answered' = {}
    BY <1>5, <2>2 DEF ReadIndex, Asked
  <2>6. Asked'
    BY <2>2, <2>3, <2>4, <2>5 DEF Asked
  <2> QED BY <1>2, <2>1, <2>6
<1>6. ASSUME NEW m \in Wanted, ReadFile(m) PROVE DBInv'
  <2>1. DBTypeOK'
    BY <1>6 DEF ReadFile, DBTypeOK, database
  <2>2. \A v \in 1 .. modified : m \in changed[v] => file[m] >= v
    BY DEF DBTypeOK, Published
  <2>3. file[m] > 0
    BY <1>6, <2>2 DEF ReadFile, DBTypeOK, Published, Asked
  <2>4. Asked'
    BY <1>6, <2>2, <2>3 DEF ReadFile, DBTypeOK, Asked, AsFreshAsReported,
       ListedHasEntries, database
  <2> QED BY <1>2, <2>1, <2>4
<1> QED BY <1>3, <1>4, <1>5, <1>6 DEF Scan

LEMMA DBInvCorrect == DBSpec => []DBInv
<1>1. DBInv /\ UNCHANGED dbVars => DBInv'
  BY DEF dbVars, database, client, DBInv, DBTypeOK, Published, Asked,
     AsFreshAsReported, ListedHasEntries
<1>2. DBInv /\ [DBNext]_dbVars => DBInv'
  BY <1>1, PublishStep, WriteFileStep, WriteIndexStep, ScanStep
  DEF DBNext, Publisher
<1> QED BY <1>2, InitInv, PTL DEF DBSpec

(***************************************************************************)
(* The entries used are no older than the time that the report gives, how- *)
(* ever the publications fall between the requests.                        *)
(***************************************************************************)
THEOREM FreshnessCorrect == DBSpec => []AsFreshAsReported
<1>1. DBInv => AsFreshAsReported
  BY DEF DBInv, Asked
<1> QED BY <1>1, DBInvCorrect, PTL

(***************************************************************************)
(* The database is told of no module that it has not published itself.     *)
(***************************************************************************)
THEOREM PrivacyCorrect == DBSpec => []OnlyPublicPaths
<1>1. DBInv => OnlyPublicPaths
  BY DEF DBInv, DBTypeOK, Published, Asked, OnlyPublicPaths
<1> QED BY <1>1, DBInvCorrect, PTL

(***************************************************************************)
(* A module that the index lists is never answered with no entries.        *)
(***************************************************************************)
THEOREM EntriesCorrect == DBSpec => []ListedHasEntries
<1>1. DBInv => ListedHasEntries
  BY DEF DBInv, Asked
<1> QED BY <1>1, DBInvCorrect, PTL
=============================================================================

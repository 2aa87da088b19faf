-------------------------------- MODULE Artifacts --------------------------------
(***************************************************************************)
(* Content-addressed artifacts (artifacts/store.py, and the two uses that  *)
(* core.py makes of them): results too large for an envelope are put by    *)
(* the threads that finish a task, and fetched by the peers they belong to.*)
(*                                                                         *)
(* put() runs under _put_lock; its database transactions and its file      *)
(* operations are steps of their own, and the process can die between any  *)
(* two.  fetch takes no lock.  A digest stands for the bytes it names.     *)
(***************************************************************************)
EXTENDS Integers, FiniteSets, FiniteSetsExt

CONSTANTS Digests, SizeOf(_), Creators,
          MaxTotal,       \* max_total_bytes
          Retention,      \* ARTIFACT_RETENTION
          MaxArtifacts,   \* bound: artifact ids drawn
          LastDay         \* bound on the clock

ASSUME ArtifactAssumption ==
    /\ {MaxTotal, Retention, MaxArtifacts, LastDay} \subseteq Nat
    /\ \A d \in Digests : SizeOf(d) \in Nat \ {0}

VARIABLES
    day,
    rows,       \* the artifacts table: [id, digest, until]
    access,     \* artifact_access: <<id, peer>>
    files,      \* digests with a file at their path
    drawn,      \* ids drawn
    put,        \* the put under _put_lock: [at, digest, by, since, doomed]
    fetch       \* the fetch in progress: [at, id, by, digest]

artifactVars == <<day, rows, access, files, drawn, put, fetch>>
NoPut == [at |-> "none", digest |-> "none", by |-> "none", since |-> 0, doomed |-> {}]
NoFetch == [at |-> "none", id |-> 0, by |-> "none", digest |-> "none"]
BytesOf(R) == MapThenSumSet(LAMBDA r : SizeOf(r.digest), R)
TotalBytes == BytesOf(rows)
Ids(R) == {r.id : r \in R}

-----------------------------------------------------------------------------
(* put *)

\* The stamp is taken before the lock is waited for.
PutBegins(d, p, since) ==
    /\ put.at = "none"
    /\ put' = [at |-> "purge", digest |-> d, by |-> p, since |-> since,
               doomed |-> {r \in rows : r.until <= day}]
    /\ UNCHANGED <<day, rows, access, files, drawn, fetch>>

\* purge_expired: the metadata commits first, the bytes go afterwards.
PurgeCommits ==
    /\ put.at = "purge"
    /\ rows' = rows \ put.doomed
    /\ access' = {a \in access : a[1] \notin Ids(put.doomed)}
    /\ put' = [put EXCEPT !.at = IF put.doomed = {} THEN "lookup" ELSE "unlink"]
    /\ UNCHANGED <<day, files, drawn, fetch>>
\* One unlink of the loop.
PurgeUnlinks ==
    /\ put.at = "unlink"
    /\ \E r \in put.doomed :
         /\ files' = files \ {r.digest}
         /\ put' = [put EXCEPT !.doomed = @ \ {r}, !.at = IF put.doomed = {r} THEN "lookup" ELSE @]
    /\ UNCHANGED <<day, rows, access, drawn, fetch>>

\* The order of what follows the lookup: bytes first, then the row.
AfterRowFirst(at) == IF at = "lookup" THEN "row" ELSE IF at = "row" THEN "file" ELSE "none"   \* fault
After(at) == IF at = "lookup" THEN "file" ELSE IF at = "file" THEN "row" ELSE "none"
MoveOn == put' = IF After(put.at) = "none" THEN NoPut ELSE [put EXCEPT !.at = After(@)]

\* _put: the same bytes get the record they have; else there must be room.
LookupDigest ==
    /\ put.at = "lookup"
    /\ \/ \E r \in rows : /\ r.digest = put.digest
                          /\ access' = access \cup {<<r.id, put.by>>} /\ put' = NoPut
       \/ /\ ~\E r \in rows : r.digest = put.digest
          /\ UNCHANGED access
          /\ IF TotalBytes + SizeOf(put.digest) > MaxTotal THEN put' = NoPut ELSE MoveOn
    /\ UNCHANGED <<day, rows, files, drawn, fetch>>
\* The temporary file is complete before os.replace gives it its name.
WriteBytes ==
    /\ put.at = "file"
    /\ files' = files \cup {put.digest} /\ MoveOn
    /\ UNCHANGED <<day, rows, access, drawn, fetch>>
InsertRow ==
    /\ put.at = "row" /\ drawn < MaxArtifacts
    /\ drawn' = drawn + 1
    /\ rows' = rows \cup {[id |-> drawn', digest |-> put.digest, until |-> put.since + Retention]}
    /\ access' = access \cup {<<drawn', put.by>>}
    /\ MoveOn
    /\ UNCHANGED <<day, files, fetch>>

-----------------------------------------------------------------------------
(* _handle_artifact_fetch *)

FetchChecks(n, p) ==
    /\ fetch.at = "none" /\ n \in Ids(rows) /\ <<n, p>> \in access
    /\ fetch' = [NoFetch EXCEPT !.at = "row", !.id = n, !.by = p]
    /\ UNCHANGED <<day, rows, access, files, drawn, put>>
\* read_bytes: the row again, then the file.  A row that went meanwhile is
\* answered as a transfer that is too large, a file as unavailable.
FetchReadsRow ==
    /\ fetch.at = "row"
    /\ fetch' = IF \E r \in rows : r.id = fetch.id
                THEN [fetch EXCEPT !.at = "file", !.digest = (CHOOSE r \in rows : r.id = fetch.id).digest]
                ELSE NoFetch
    /\ UNCHANGED <<day, rows, access, files, drawn, put>>
FetchReadsFile ==
    /\ fetch.at = "file"
    /\ fetch' = NoFetch
    /\ UNCHANGED <<day, rows, access, files, drawn, put>>

\* The process dies: the lock, the put and the fetch are gone, disk is not.
Dies ==
    /\ put # NoPut
    /\ put' = NoPut /\ fetch' = NoFetch
    /\ UNCHANGED <<day, rows, access, files, drawn>>
NextDay == day < LastDay /\ day' = day + 1 /\ UNCHANGED <<rows, access, files, drawn, put, fetch>>

ArtifactInit ==
    /\ day = 0 /\ rows = {} /\ access = {} /\ files = {} /\ drawn = 0
    /\ put = NoPut /\ fetch = NoFetch
ArtifactNext ==
    \/ \E d \in Digests, p \in Creators, since \in 0..day : PutBegins(d, p, since)
    \/ PurgeCommits \/ PurgeUnlinks \/ LookupDigest \/ WriteBytes \/ InsertRow
    \/ \E n \in 1..MaxArtifacts, p \in Creators : FetchChecks(n, p)
    \/ FetchReadsRow \/ FetchReadsFile \/ Dies \/ NextDay
ArtifactSpec == ArtifactInit /\ [][ArtifactNext]_artifactVars

-----------------------------------------------------------------------------
(* Properties *)

Rows == [id : Nat, digest : Digests, until : Nat]
Puts == [at : {"none", "purge", "unlink", "lookup", "file", "row"}, digest : Digests \cup {"none"},
         by : Creators \cup {"none"}, since : Nat, doomed : SUBSET Rows]
Fetches == [at : {"none", "row", "file"}, id : Nat, by : Creators \cup {"none"},
            digest : Digests \cup {"none"}]
ArtifactTypeOK ==
    /\ day \in Nat /\ rows \subseteq Rows /\ access \subseteq Nat \X Creators
    /\ files \subseteq Digests /\ drawn \in Nat
    /\ put \in Puts /\ (put.at # "none" => put.digest \in Digests /\ put.by \in Creators)
    /\ fetch \in Fetches

\* "A stray file is a leak, not a correctness problem" (store.py), and the
\* other way round never happens: wherever the process dies, a row's bytes
\* are on disk, a digest has one row, the rows fit the cap, every permission
\* is to a row, and a fetch whose row is still there finds its bytes.
RowHasBytes ==
    /\ \A r \in rows : r.digest \in files
    /\ \A r, s \in rows : r.digest = s.digest => r = s
    /\ TotalBytes <= MaxTotal
    /\ \A a \in access : a[1] \in Ids(rows)
    /\ fetch.at = "file" /\ fetch.digest \notin files => fetch.id \notin Ids(rows)
=============================================================================

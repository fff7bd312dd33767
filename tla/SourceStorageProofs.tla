-------------------------- MODULE SourceStorageProofs --------------------------
(***************************************************************************)
(* Proofs about SourceStorage for any sources, documents, clients, legal   *)
(* holds and bounds.                                                       *)
(***************************************************************************)
EXTENDS SourceStorage, FiniteSetTheorems, TLAPS

-----------------------------------------------------------------------------
(***************************************************************************)
(* The inductive invariant                                                 *)
(***************************************************************************)

\* What the collector may take once its retention is over: never undone.
Retired(v) ==
    \/ ver[v] = "superseded"
    \/ ver[v] # "none" /\ docOf[v] \in deleted

\* A request whose rows are flushed is alone with its key, which is unused.
RequestsSound ==
    \A c \in Clients :
        /\ req[c].pc # "idle" => req[c].src \in Sources /\ req[c].doc \in Documents
        /\ req[c].pc \in {"flushed", "put"} =>
              /\ ver[req[c].src] = "none"
              /\ \A other \in Clients \ {c} :
                    req[other].pc \in {"flushed", "put"} => req[other].src # req[c].src

\* The version a document serves is ready and its own.
ActiveSound ==
    /\ \A v \in Sources : ver[v] # "none" => docOf[v] \in Documents
    /\ \A d \in Documents : active[d] # NoVersion =>
          ver[active[d]] = "ready" /\ docOf[active[d]] = d

\* A worker works on a pending version; what it has put is still there, unless
\* the document was deleted under it.
WorkSound ==
    \A v \in Sources : wpc[v] # "idle" =>
        /\ ver[v] = "pending"
        /\ wpc[v] \in {"promoted", "stored", "rendered", "indexed"} => keyAt[v] = "original"
        /\ wpc[v] = "indexed" => row[<<v, "normalized">>] # "none"
        /\ docOf[v] \notin deleted =>
              /\ wpc[v] \in {"put", "promoted", "stored", "rendered", "indexed"} =>
                    <<v, "original">> \in objects
              /\ wpc[v] \in {"rendered", "indexed"} => <<v, "normalized">> \in objects

\* The rows of final objects: made before the version is served, and deleted
\* before its chunks are.
RowsSound ==
    \A v \in Sources :
        /\ row[<<v, "staging">>] # "referenced"
        /\ keyAt[v] = "original" => row[<<v, "original">>] # "none"
        /\ \A k \in {"original", "normalized"} :
              /\ row[<<v, k>>] # "staged"
              /\ ver[v] \in {"ready", "superseded"} =>
                    /\ row[<<v, k>>] # "none"
                    /\ v \notin chunks => row[<<v, k>>] = "deleted"

\* Only the objects of retired versions have a retention, and no answer is
\* reading a version whose retention has passed.
RetentionSound ==
    \A v \in Sources, k \in Kinds :
        /\ retain[<<v, k>>] # "none" => Retired(v)
        /\ retain[<<v, k>>] = "past" => reading # v

\* What the collector holds in its hands is retired, final and not being read;
\* what it has decided to delete is not cited.
CollectionSound ==
    /\ \A v \in Sources, k \in Kinds :
          /\ <<v, k>> \in gc.left \cup gc.chosen \cup gc.gone =>
                k # "staging" /\ Retired(v) /\ reading # v
          /\ <<v, k>> \in gc.chosen \cup gc.gone => v \notin cited
    /\ \A v \in gc.versions : Retired(v) /\ reading # v

\* What is read, cited or served is whole.
ReadersSound ==
    /\ reading # NoVersion => Whole(reading)
    /\ CitedVersionIntact
    /\ ServedVersionIntact

StorageInv ==
    /\ StorageTypeOK
    /\ RequestsSound /\ ActiveSound /\ WorkSound /\ RowsSound
    /\ RetentionSound /\ CollectionSound /\ ReadersSound

-----------------------------------------------------------------------------
\* Nothing else in the state is about a version that does not exist yet.
LEMMA NotYetThere ==
    ASSUME StorageInv, NEW v \in Sources, ver[v] = "none"
    PROVE  /\ wpc[v] = "idle" /\ ~Retired(v)
           /\ \A d \in Documents : active[d] # v
<1>1. wpc[v] = "idle" BY DEF StorageInv, WorkSound
<1>2. ~Retired(v) BY DEF Retired
<1>3. \A d \in Documents : active[d] # v BY ParametersAssumption DEF StorageInv, ActiveSound
<1> QED BY <1>1, <1>2, <1>3

\* A step that retires versions but touches no retention keeps RetentionSound.
LEMMA RetentionStays ==
    ASSUME RetentionSound, UNCHANGED <<retain, reading>>,
           \A v \in Sources : Retired(v) => Retired(v)'
    PROVE  RetentionSound'
BY DEF RetentionSound

\* The same for the collector.
LEMMA CollectionStays ==
    ASSUME CollectionSound, gc.versions \subseteq Sources, UNCHANGED <<gc, reading, cited>>,
           \A v \in Sources : Retired(v) => Retired(v)'
    PROVE  CollectionSound'
BY DEF CollectionSound

\* Rows of versions: nothing changes for them but their status.
LEMMA RowsStay ==
    ASSUME RowsSound, UNCHANGED <<row, keyAt, chunks>>,
           \A v \in Sources : ver'[v] \in {"ready", "superseded"} =>
               ver[v] \in {"ready", "superseded"}
    PROVE  RowsSound'
BY DEF RowsSound

\* The rows a run of the collector leaves: only those of final objects change.
LEMMA RowsGoneSound ==
    ASSUME StorageInv
    PROVE  /\ RowsGone \in [Objects -> RowStates]
           /\ \A v \in Sources :
                 /\ RowsGone[<<v, "staging">>] = row[<<v, "staging">>]
                 /\ \A k \in {"original", "normalized"} :
                       RowsGone[<<v, k>>] \in {"deleted", row[<<v, k>>]}
<1>1. row \in [Objects -> RowStates] BY DEF StorageInv, StorageTypeOK
<1>2. RowsGone \in [Objects -> RowStates] BY <1>1 DEF RowsGone, RowStates
<1>3. ASSUME NEW v \in Sources, NEW k \in Kinds
      PROVE RowsGone[<<v, k>>] = IF <<v, k>> \in gc.gone THEN "deleted" ELSE row[<<v, k>>]
    BY DEF RowsGone, Objects
<1>4. \A v \in Sources : <<v, "staging">> \notin gc.gone
    BY DEF StorageInv, CollectionSound, Kinds
<1> QED BY <1>2, <1>3, <1>4 DEF Kinds

-----------------------------------------------------------------------------
(***************************************************************************)
(* Every step keeps the invariant                                          *)
(***************************************************************************)

\* accept_source reads its document and takes the next number.
LEMMA ReadForAcceptanceKeeps ==
    ASSUME StorageInv, NEW c \in Clients, NEW v \in Sources, NEW d \in Documents,
           ReadForAcceptance(c, v, d)
    PROVE  StorageInv'
<1>1. StorageTypeOK'
    BY ParametersAssumption
    DEF StorageInv, StorageTypeOK, ReadForAcceptance, VersionsOf, dbVars, store, registry,
        indexVars, workers
<1>2. RequestsSound'
    BY DEF StorageInv, StorageTypeOK, RequestsSound, ReadForAcceptance, VersionsOf, dbVars,
        store, registry, indexVars, workers
<1>3. ActiveSound' /\ WorkSound' /\ RowsSound' /\ RetentionSound' /\ CollectionSound' /\ ReadersSound'
    BY DEF StorageInv, ActiveSound, WorkSound, RowsSound, RetentionSound, Retired,
        CollectionSound, ReadersSound, CitedVersionIntact, ServedVersionIntact, Whole,
        Final, ReadForAcceptance, VersionsOf, dbVars, store, registry, indexVars, workers
<1> QED BY <1>1, <1>2, <1>3 DEF StorageInv

\* The rows are flushed: no rival holds the key or the number.
LEMMA FlushRowsKeeps ==
    ASSUME StorageInv, NEW c \in Clients, FlushRows(c)
    PROVE  StorageInv'
<1>1. /\ req' = [req EXCEPT ![c].pc = "flushed"]
      /\ UNCHANGED <<dbVars, store, registry, indexVars, workers, reading, sweep, gc,
                     requests, mishaps>>
    BY DEF FlushRows
<1>2. req' \in [Clients -> [pc : {"idle", "read", "flushed", "put"},
                            src : Sources \union {NoVersion},
                            doc : Documents \union {NoDocument}, no : Nat]]
    BY <1>1 DEF StorageInv, StorageTypeOK
<1>3. StorageTypeOK'
    BY <1>1, <1>2 DEF StorageInv, StorageTypeOK, dbVars, store, registry, indexVars, workers
<1>4. RequestsSound'
    BY ParametersAssumption
    DEF StorageInv, StorageTypeOK, VersionStates, RequestsSound, FlushRows, CommittedCollision,
        Collide, Accepted, dbVars
<1>5. ActiveSound' /\ WorkSound' /\ RowsSound' /\ RetentionSound' /\ CollectionSound' /\ ReadersSound'
    BY <1>1 DEF StorageInv, ActiveSound, WorkSound, RowsSound, RetentionSound, Retired,
        CollectionSound, ReadersSound, CitedVersionIntact, ServedVersionIntact, Whole, Final,
        dbVars, store, registry, indexVars, workers
<1> QED BY <1>3, <1>4, <1>5 DEF StorageInv

\* A committed rival has the key or the number.
LEMMA FlushCollidesKeeps ==
    ASSUME StorageInv, NEW c \in Clients, FlushCollides(c)
    PROVE  StorageInv'
<1>1. StorageTypeOK'
    BY DEF StorageInv, StorageTypeOK, FlushCollides, CommittedCollision, Idle, Collide,
        Accepted, dbVars, store, registry, indexVars, workers
<1>2. RequestsSound'
    BY DEF StorageInv, StorageTypeOK, RequestsSound, FlushCollides, CommittedCollision, Idle,
        Collide, Accepted, dbVars, store, registry, indexVars, workers
<1>3. ActiveSound' /\ WorkSound' /\ RowsSound' /\ RetentionSound' /\ CollectionSound' /\ ReadersSound'
    BY DEF StorageInv, ActiveSound, WorkSound, RowsSound, RetentionSound, Retired,
        CollectionSound, ReadersSound, CitedVersionIntact, ServedVersionIntact, Whole,
        Final, FlushCollides, CommittedCollision, Idle, Collide, Accepted, dbVars, store,
        registry, indexVars, workers
<1> QED BY <1>1, <1>2, <1>3 DEF StorageInv

\* A refused source is recorded as failed.
LEMMA CommitQuarantinedKeeps ==
    ASSUME StorageInv, NEW c \in Clients, CommitQuarantined(c)
    PROVE  StorageInv'
<1> DEFINE v == req[c].src
<1>1. /\ v \in Sources /\ req[c].doc \in Documents /\ ver[v] = "none"
      /\ wpc[v] = "idle" /\ ~Retired(v) /\ \A d \in Documents : active[d] # v
    <2>1. v \in Sources /\ req[c].doc \in Documents /\ ver[v] = "none"
        BY DEF StorageInv, RequestsSound, CommitQuarantined
    <2> QED BY <2>1, NotYetThere
<1>2. /\ ver' = [ver EXCEPT ![v] = "failed"] /\ docOf' = [docOf EXCEPT ![v] = req[c].doc]
      /\ UNCHANGED <<keyAt, active, deleted, objects, row, retain, chunks, cited, wpc,
                     reading, gc>>
    BY DEF CommitQuarantined, store, registry, indexVars, workers
<1>3. StorageTypeOK'
    BY ParametersAssumption
    DEF StorageInv, StorageTypeOK, VersionStates, CommitQuarantined, Idle, store, registry,
        indexVars, workers
<1>4. RequestsSound'
    BY ParametersAssumption
    DEF StorageInv, StorageTypeOK, RequestsSound, CommitQuarantined, Idle
<1> HIDE DEF v
<1>5. /\ ver \in [Sources -> VersionStates] /\ active \in [Documents -> Sources \union {NoVersion}]
      /\ docOf \in [Sources -> Documents \union {NoDocument}]
      /\ gc.versions \subseteq Sources
    BY DEF StorageInv, StorageTypeOK
<1>6. ActiveSound' BY <1>1, <1>2, <1>5 DEF StorageInv, ActiveSound
<1>7. WorkSound' BY <1>1, <1>2, <1>5 DEF StorageInv, WorkSound
<1>8. RowsSound' BY <1>1, <1>2, <1>5, RowsStay DEF StorageInv
<1>9. \A w \in Sources : Retired(w) => Retired(w)' BY <1>1, <1>2, <1>5 DEF Retired
<1>10. RetentionSound' /\ CollectionSound'
    BY <1>2, <1>5, <1>9, RetentionStays, CollectionStays DEF StorageInv
<1>11. ReadersSound'
    BY <1>2 DEF StorageInv, ReadersSound, CitedVersionIntact, ServedVersionIntact, Whole, Final
<1> QED BY <1>3, <1>4, <1>6, <1>7, <1>8, <1>10, <1>11 DEF StorageInv

\* The staged bytes are put: no final object changes.
LEMMA PutStagingKeeps ==
    ASSUME StorageInv, NEW c \in Clients, PutStaging(c)
    PROVE  StorageInv'
<1> DEFINE v == req[c].src
<1>1. /\ req[c].pc = "flushed" /\ v \in Sources
      /\ req' = [req EXCEPT ![c].pc = "put"]
      /\ objects' = objects \union {<<v, "staging">>} /\ aged' = aged \ {v}
      /\ UNCHANGED <<dbVars, registry, indexVars, workers, reading, sweep, gc, requests, mishaps>>
    BY DEF StorageInv, RequestsSound, PutStaging, Staging
<1> HIDE DEF v
<1>2. req' \in [Clients -> [pc : {"idle", "read", "flushed", "put"},
                            src : Sources \union {NoVersion},
                            doc : Documents \union {NoDocument}, no : Nat]]
    BY <1>1 DEF StorageInv, StorageTypeOK
<1>3. objects' \subseteq Objects /\ aged' \subseteq Sources
    BY <1>1 DEF StorageInv, StorageTypeOK, Objects, Kinds
<1>4. StorageTypeOK'
    BY <1>1, <1>2, <1>3 DEF StorageInv, StorageTypeOK, dbVars, registry, indexVars, workers
<1>5. RequestsSound'
    BY <1>1 DEF StorageInv, StorageTypeOK, RequestsSound, dbVars
<1>6. WorkSound' /\ ReadersSound'
    BY <1>1 DEF StorageInv, WorkSound, ReadersSound, CitedVersionIntact, ServedVersionIntact,
        Whole, Final, dbVars, registry, indexVars, workers
<1>7. ActiveSound' /\ RowsSound' /\ RetentionSound' /\ CollectionSound'
    BY <1>1 DEF StorageInv, ActiveSound, RowsSound, RetentionSound, Retired, CollectionSound,
        dbVars, registry, indexVars
<1> QED BY <1>4, <1>5, <1>6, <1>7 DEF StorageInv

\* The version, its job and its registry row appear.
LEMMA CommitAcceptedKeeps ==
    ASSUME StorageInv, NEW c \in Clients, CommitAccepted(c)
    PROVE  StorageInv'
<1> DEFINE v == req[c].src
<1>1. /\ v \in Sources /\ req[c].doc \in Documents /\ ver[v] = "none"
      /\ wpc[v] = "idle" /\ ~Retired(v) /\ \A d \in Documents : active[d] # v
    <2>1. v \in Sources /\ req[c].doc \in Documents /\ ver[v] = "none"
        BY DEF StorageInv, RequestsSound, CommitAccepted
    <2> QED BY <2>1, NotYetThere
<1>2. /\ ver' = [ver EXCEPT ![v] = "pending"] /\ docOf' = [docOf EXCEPT ![v] = req[c].doc]
      /\ keyAt' = [keyAt EXCEPT ![v] = "staging"]
      /\ row' = [row EXCEPT ![<<v, "staging">>] = "staged"]
      /\ UNCHANGED <<active, deleted, objects, retain, chunks, cited, wpc, reading, gc>>
    BY DEF CommitAccepted, Staging, store, indexVars, workers
<1>3. StorageTypeOK'
    BY ParametersAssumption
    DEF StorageInv, StorageTypeOK, VersionStates, RowStates, CommitAccepted, Staging, Idle,
        store, indexVars, workers
<1>4. RequestsSound'
    BY ParametersAssumption
    DEF StorageInv, StorageTypeOK, RequestsSound, CommitAccepted, Idle
<1> HIDE DEF v
<1>5. /\ ver \in [Sources -> VersionStates] /\ active \in [Documents -> Sources \union {NoVersion}]
      /\ docOf \in [Sources -> Documents \union {NoDocument}]
      /\ keyAt \in [Sources -> {"none", "staging", "original"}]
      /\ row \in [Objects -> RowStates] /\ gc.versions \subseteq Sources
    BY DEF StorageInv, StorageTypeOK
<1>6. \A w \in Sources, k \in Kinds :
         row'[<<w, k>>] = IF w = v /\ k = "staging" THEN "staged" ELSE row[<<w, k>>]
    BY <1>1, <1>2, <1>5 DEF Objects, Kinds
<1>7. ActiveSound' BY <1>1, <1>2, <1>5 DEF StorageInv, ActiveSound
<1>8. WorkSound'
    <2> SUFFICES ASSUME NEW w \in Sources, wpc'[w] # "idle"
        PROVE w # v /\ UNCHANGED <<ver[w], keyAt[w], docOf[w], row[<<w, "normalized">>]>>
        BY <1>2 DEF StorageInv, WorkSound
    <2> QED BY <1>1, <1>2, <1>5, <1>6 DEF Kinds
<1>9. RowsSound'
    <2> SUFFICES ASSUME NEW w \in Sources
        PROVE /\ row'[<<w, "staging">>] # "referenced"
              /\ keyAt'[w] = "original" => row'[<<w, "original">>] # "none"
              /\ \A k \in {"original", "normalized"} :
                    /\ row'[<<w, k>>] # "staged"
                    /\ ver'[w] \in {"ready", "superseded"} =>
                          /\ row'[<<w, k>>] # "none"
                          /\ w \notin chunks' => row'[<<w, k>>] = "deleted"
        BY DEF RowsSound
    <2>1. /\ row'[<<w, "staging">>] \in {"staged", row[<<w, "staging">>]}
          /\ \A k \in {"original", "normalized"} : row'[<<w, k>>] = row[<<w, k>>]
        BY <1>6 DEF Kinds
    <2>2. ver'[w] \in {"ready", "superseded"} => ver[w] = ver'[w] BY <1>1, <1>2, <1>5
    <2>3. keyAt'[w] = "original" => keyAt[w] = "original" BY <1>1, <1>2, <1>5
    <2> QED BY <1>2, <2>1, <2>2, <2>3 DEF StorageInv, RowsSound
<1>10. \A w \in Sources : Retired(w) => Retired(w)' BY <1>1, <1>2, <1>5 DEF Retired
<1>11. RetentionSound' /\ CollectionSound'
    BY <1>2, <1>5, <1>10, RetentionStays, CollectionStays DEF StorageInv
<1>12. ReadersSound'
    BY <1>2 DEF StorageInv, ReadersSound, CitedVersionIntact, ServedVersionIntact, Whole, Final
<1> QED BY <1>3, <1>4, <1>7, <1>8, <1>9, <1>11, <1>12 DEF StorageInv

\* A request dies; its object may stay.
LEMMA RequestDiesKeeps ==
    ASSUME StorageInv, NEW c \in Clients, RequestDies(c)
    PROVE  StorageInv'
<1>1. StorageTypeOK'
    BY ParametersAssumption
    DEF StorageInv, StorageTypeOK, RequestDies, Mishap, Idle, dbVars, store, registry,
        indexVars, workers
<1>2. RequestsSound'
    BY DEF StorageInv, StorageTypeOK, RequestsSound, RequestDies, Mishap, Idle, dbVars, store,
        registry, indexVars, workers
<1>3. ActiveSound' /\ WorkSound' /\ RowsSound' /\ RetentionSound' /\ CollectionSound' /\ ReadersSound'
    BY DEF StorageInv, ActiveSound, WorkSound, RowsSound, RetentionSound, Retired,
        CollectionSound, ReadersSound, CitedVersionIntact, ServedVersionIntact, Whole,
        Final, RequestDies, Mishap, Idle, dbVars, store, registry, indexVars, workers
<1> QED BY <1>1, <1>2, <1>3 DEF StorageInv

\* run_ingestion_job begins, with a snapshot of the active version.
LEMMA StartJobKeeps ==
    ASSUME StorageInv, NEW v \in Sources, StartJob(v)
    PROVE  StorageInv'
<1>1. /\ ver[v] = "pending" /\ wpc' = [wpc EXCEPT ![v] = "start"]
      /\ expected' = [expected EXCEPT ![v] = active[docOf[v]]]
      /\ UNCHANGED <<dbVars, store, registry, indexVars, req, reading, sweep, gc,
                     requests, mishaps>>
    BY DEF StartJob
<1>2. wpc' \in [Sources -> WorkerPlaces] /\ expected' \in [Sources -> Sources \union {NoVersion}]
    <2>1. docOf[v] \in Documents BY <1>1 DEF StorageInv, ActiveSound
    <2>2. active[docOf[v]] \in Sources \union {NoVersion} BY <2>1 DEF StorageInv, StorageTypeOK
    <2> QED BY <1>1, <2>2 DEF StorageInv, StorageTypeOK, WorkerPlaces
<1>3. StorageTypeOK'
    BY <1>1, <1>2 DEF StorageInv, StorageTypeOK, dbVars, store, registry, indexVars
<1>4. WorkSound'
    BY <1>1 DEF StorageInv, StorageTypeOK, WorkSound, dbVars, store, registry
<1>5. RequestsSound' /\ ActiveSound' /\ RowsSound' /\ RetentionSound' /\ CollectionSound' /\ ReadersSound'
    BY <1>1 DEF StorageInv, RequestsSound, ActiveSound, RowsSound, RetentionSound, Retired,
        CollectionSound, ReadersSound, CitedVersionIntact, ServedVersionIntact, Whole, Final,
        dbVars, store, registry, indexVars
<1> QED BY <1>3, <1>4, <1>5 DEF StorageInv

\* The final original is put before any row names it.
LEMMA PutOriginalKeeps ==
    ASSUME StorageInv, NEW v \in Sources, PutOriginal(v)
    PROVE  StorageInv'
<1>1. StorageTypeOK'
    BY DEF StorageInv, StorageTypeOK, WorkerPlaces, Objects, Kinds, PutOriginal, WorkerStep,
        Staging, dbVars, registry, indexVars
<1>2. WorkSound'
    BY DEF StorageInv, StorageTypeOK, WorkSound, PutOriginal, WorkerStep, Staging, dbVars,
        registry, indexVars
<1>3. ReadersSound'
    BY DEF StorageInv, StorageTypeOK, ReadersSound, CitedVersionIntact, ServedVersionIntact,
        Whole, Final, PutOriginal, WorkerStep, Staging, dbVars, registry, indexVars
<1>4. RequestsSound' /\ ActiveSound' /\ RowsSound' /\ RetentionSound' /\ CollectionSound'
    BY DEF StorageInv, RequestsSound, ActiveSound, RowsSound, RetentionSound, Retired,
        CollectionSound, PutOriginal, WorkerStep, Staging, dbVars, registry, indexVars
<1> QED BY <1>1, <1>2, <1>3, <1>4 DEF StorageInv

\* The promotion: the version names its final original.
LEMMA CommitOriginalKeeps ==
    ASSUME StorageInv, NEW v \in Sources, CommitOriginal(v)
    PROVE  StorageInv'
<1>1. StorageTypeOK'
    BY DEF StorageInv, StorageTypeOK, WorkerPlaces, RowStates, Objects, Kinds, CommitOriginal,
           WorkerStep, Staging, store, indexVars
<1>2. /\ row \in [Objects -> RowStates] /\ keyAt \in [Sources -> {"none", "staging", "original"}]
      /\ wpc \in [Sources -> WorkerPlaces]
    BY DEF StorageInv, StorageTypeOK
<1>3. /\ wpc[v] = "put" /\ wpc' = [wpc EXCEPT ![v] = "promoted"]
      /\ keyAt' = [keyAt EXCEPT ![v] = "original"]
      /\ UNCHANGED <<ver, docOf, active, deleted, objects, retain, chunks, cited, req,
                     reading, gc>>
    BY DEF CommitOriginal, WorkerStep, store, indexVars
<1>4. \A w \in Sources, k \in Kinds :
         row'[<<w, k>>] =
             IF w = v /\ k = "staging" /\ row[<<w, k>>] # "none" THEN "deleted"
             ELSE IF w = v /\ k = "original" /\ row[<<w, k>>] = "none" THEN "referenced"
             ELSE row[<<w, k>>]
    BY <1>2 DEF CommitOriginal, Staging, Objects, Kinds
<1>5. WorkSound'
    <2>1. \A w \in Sources : row'[<<w, "normalized">>] = row[<<w, "normalized">>]
        BY <1>4 DEF Kinds
    <2> QED BY <1>2, <1>3, <2>1 DEF StorageInv, WorkSound
<1>6. RowsSound'
    <2> SUFFICES ASSUME NEW w \in Sources
        PROVE /\ row'[<<w, "staging">>] # "referenced"
              /\ keyAt'[w] = "original" => row'[<<w, "original">>] # "none"
              /\ \A k \in {"original", "normalized"} :
                    /\ row'[<<w, k>>] # "staged"
                    /\ ver'[w] \in {"ready", "superseded"} =>
                          /\ row'[<<w, k>>] # "none"
                          /\ w \notin chunks' => row'[<<w, k>>] = "deleted"
        BY DEF RowsSound
    <2>1. CASE w = v
        <3>1. /\ row'[<<w, "staging">>] \in {"none", "deleted"}
              /\ row'[<<w, "original">>] =
                    IF row[<<w, "original">>] = "none" THEN "referenced" ELSE row[<<w, "original">>]
              /\ row'[<<w, "normalized">>] = row[<<w, "normalized">>]
            BY <1>4, <2>1 DEF Kinds
        <3>2. ver'[w] = "pending" BY <1>3, <2>1 DEF StorageInv, WorkSound
        <3> QED BY <3>1, <3>2 DEF StorageInv, RowsSound
    <2>2. CASE w # v
        <3>1. \A k \in Kinds : row'[<<w, k>>] = row[<<w, k>>] BY <1>4, <2>2
        <3>2. UNCHANGED <<keyAt[w], ver[w], chunks>> BY <1>2, <1>3, <2>2
        <3> QED BY <3>1, <3>2 DEF StorageInv, RowsSound, Kinds
    <2> QED BY <2>1, <2>2
<1>7. RequestsSound' /\ ActiveSound' /\ RetentionSound' /\ CollectionSound' /\ ReadersSound'
    BY <1>3 DEF StorageInv, RequestsSound, ActiveSound, RetentionSound, Retired,
                CollectionSound, ReadersSound, CitedVersionIntact, ServedVersionIntact, Whole, Final
<1> QED BY <1>1, <1>5, <1>6, <1>7 DEF StorageInv

\* The staged bytes go once the original is named.
LEMMA RemoveStagingKeeps ==
    ASSUME StorageInv, NEW v \in Sources, RemoveStaging(v)
    PROVE  StorageInv'
<1>1. StorageTypeOK'
    BY DEF StorageInv, StorageTypeOK, WorkerPlaces, Objects, Kinds, RemoveStaging, WorkerStep,
        Staging, dbVars, registry, indexVars
<1>2. WorkSound'
    BY DEF StorageInv, StorageTypeOK, WorkSound, RemoveStaging, WorkerStep, Staging, dbVars,
        registry, indexVars
<1>3. ReadersSound'
    BY DEF StorageInv, StorageTypeOK, ReadersSound, CitedVersionIntact, ServedVersionIntact,
        Whole, Final, RemoveStaging, WorkerStep, Staging, dbVars, registry, indexVars
<1>4. RequestsSound' /\ ActiveSound' /\ RowsSound' /\ RetentionSound' /\ CollectionSound'
    BY DEF StorageInv, RequestsSound, ActiveSound, RowsSound, RetentionSound, Retired,
        CollectionSound, RemoveStaging, WorkerStep, Staging, dbVars, registry, indexVars
<1> QED BY <1>1, <1>2, <1>3, <1>4 DEF StorageInv

\* A retry finds the original promoted.
LEMMA ReuseOriginalKeeps ==
    ASSUME StorageInv, NEW v \in Sources, ReuseOriginal(v)
    PROVE  StorageInv'
<1>1. /\ wpc[v] = "start" /\ wpc' = [wpc EXCEPT ![v] = "stored"]
      /\ keyAt[v] = "original" /\ <<v, "original">> \in objects
      /\ UNCHANGED <<dbVars, store, registry, indexVars, expected, req, reading, sweep, gc,
                     requests, mishaps>>
    BY DEF ReuseOriginal, WorkerStep
<1>2. wpc' \in [Sources -> WorkerPlaces] BY <1>1 DEF StorageInv, StorageTypeOK, WorkerPlaces
<1>3. StorageTypeOK'
    BY <1>1, <1>2 DEF StorageInv, StorageTypeOK, dbVars, store, registry, indexVars
<1>4. WorkSound'
    BY <1>1 DEF StorageInv, StorageTypeOK, WorkSound, dbVars, store, registry
<1>5. RequestsSound' /\ ActiveSound' /\ RowsSound' /\ RetentionSound' /\ CollectionSound' /\ ReadersSound'
    BY <1>1 DEF StorageInv, RequestsSound, ActiveSound, RowsSound, RetentionSound, Retired,
        CollectionSound, ReadersSound, CitedVersionIntact, ServedVersionIntact, Whole, Final,
        dbVars, store, registry, indexVars
<1> QED BY <1>3, <1>4, <1>5 DEF StorageInv

\* The normalized text is put.
LEMMA PutNormalizedKeeps ==
    ASSUME StorageInv, NEW v \in Sources, PutNormalized(v)
    PROVE  StorageInv'
<1>1. StorageTypeOK'
    BY DEF StorageInv, StorageTypeOK, WorkerPlaces, Objects, Kinds, PutNormalized, WorkerStep,
        dbVars, registry, indexVars
<1>2. WorkSound'
    BY DEF StorageInv, StorageTypeOK, WorkSound, PutNormalized, WorkerStep, dbVars, registry,
        indexVars
<1>3. ReadersSound'
    BY DEF StorageInv, StorageTypeOK, ReadersSound, CitedVersionIntact, ServedVersionIntact,
        Whole, Final, PutNormalized, WorkerStep, dbVars, registry, indexVars
<1>4. RequestsSound' /\ ActiveSound' /\ RowsSound' /\ RetentionSound' /\ CollectionSound'
    BY DEF StorageInv, RequestsSound, ActiveSound, RowsSound, RetentionSound, Retired,
        CollectionSound, PutNormalized, WorkerStep, dbVars, registry, indexVars
<1> QED BY <1>1, <1>2, <1>3, <1>4 DEF StorageInv

\* Registry row and chunks of the normalized text.
LEMMA CommitIndexKeeps ==
    ASSUME StorageInv, NEW v \in Sources, CommitIndex(v)
    PROVE  StorageInv'
<1>1. StorageTypeOK'
    BY DEF StorageInv, StorageTypeOK, WorkerPlaces, RowStates, Objects, Kinds, CommitIndex,
           WorkerStep, dbVars, store
<1>2. row \in [Objects -> RowStates] /\ wpc \in [Sources -> WorkerPlaces]
    BY DEF StorageInv, StorageTypeOK
<1>3. /\ wpc[v] = "rendered" /\ wpc' = [wpc EXCEPT ![v] = "indexed"]
      /\ chunks' = chunks \union {v}
      /\ UNCHANGED <<ver, docOf, keyAt, active, deleted, objects, retain, cited, req,
                     reading, gc>>
    BY DEF CommitIndex, WorkerStep, dbVars, store
<1>4. \A w \in Sources, k \in Kinds :
         row'[<<w, k>>] =
             IF w = v /\ k = "normalized" /\ row[<<w, k>>] = "none" THEN "referenced"
             ELSE row[<<w, k>>]
    BY <1>2 DEF CommitIndex, Objects, Kinds
<1>5. WorkSound'
    <2>1. \A w \in Sources : row[<<w, "normalized">>] # "none" => row'[<<w, "normalized">>] # "none"
        BY <1>4 DEF Kinds
    <2>2. row'[<<v, "normalized">>] # "none" BY <1>4 DEF Kinds
    <2> QED BY <1>2, <1>3, <2>1, <2>2 DEF StorageInv, WorkSound
<1>6. RowsSound'
    <2>1. \A w \in Sources, k \in {"staging", "original"} : row'[<<w, k>>] = row[<<w, k>>]
        BY <1>4 DEF Kinds
    <2>2. \A w \in Sources : /\ row'[<<w, "normalized">>] \in {"referenced", row[<<w, "normalized">>]}
                             /\ w # v => row'[<<w, "normalized">>] = row[<<w, "normalized">>]
        BY <1>4 DEF Kinds
    <2>3. ver[v] = "pending" BY <1>3 DEF StorageInv, WorkSound
    <2> QED BY <1>3, <2>1, <2>2, <2>3 DEF StorageInv, RowsSound
<1>7. RequestsSound' /\ ActiveSound' /\ RetentionSound' /\ CollectionSound' /\ ReadersSound'
    BY <1>3 DEF StorageInv, RequestsSound, ActiveSound, RetentionSound, Retired,
                CollectionSound, ReadersSound, CitedVersionIntact, ServedVersionIntact, Whole, Final
<1> QED BY <1>1, <1>5, <1>6, <1>7 DEF StorageInv

\* The compare-and-swap retires the version that was served.
LEMMA ActivateVersionKeeps ==
    ASSUME StorageInv, NEW v \in Sources, ActivateVersion(v)
    PROVE  StorageInv'
<1> DEFINE d == docOf[v]
           old == expected[v]
<1>1. /\ wpc[v] = "indexed" /\ ver[v] = "pending" /\ d \in Documents
      /\ keyAt[v] = "original" /\ row[<<v, "normalized">>] # "none"
      /\ row[<<v, "original">>] # "none"
      /\ d \notin deleted => <<v, "original">> \in objects /\ <<v, "normalized">> \in objects
    <2>1. wpc[v] = "indexed" BY DEF ActivateVersion
    <2>2. ver[v] = "pending" /\ keyAt[v] = "original" BY <2>1 DEF StorageInv, WorkSound
    <2> QED BY <2>1, <2>2 DEF StorageInv, WorkSound, ActiveSound, RowsSound
<1>2. /\ active[d] = old /\ v \in chunks
      /\ active' = [active EXCEPT ![d] = v]
      /\ ver' = [w \in Sources |-> IF w = v THEN "ready"
                                   ELSE IF w = old THEN "superseded" ELSE ver[w]]
      /\ retain' = [o \in Objects |->
           IF o[1] = old /\ row[o] = "referenced" /\ retain[o] = "none"
           THEN "later" ELSE retain[o]]
      /\ wpc' = [wpc EXCEPT ![v] = "idle"] /\ expected' = [expected EXCEPT ![v] = NoVersion]
      /\ UNCHANGED <<docOf, no, keyAt, deleted, objects, aged, row, chunks, cited, req, reading,
                     sweep, gc, requests, mishaps>>
    BY DEF ActivateVersion, Rest, store, indexVars
<1> HIDE DEF d, old
<1>3. /\ ver \in [Sources -> VersionStates] /\ active \in [Documents -> Sources \union {NoVersion}]
      /\ wpc \in [Sources -> WorkerPlaces] /\ expected \in [Sources -> Sources \union {NoVersion}]
      /\ retain \in [Objects -> {"none", "later", "past"}] /\ gc.versions \subseteq Sources
    BY DEF StorageInv, StorageTypeOK
<1>4. StorageTypeOK'
    <2>1. ver' \in [Sources -> VersionStates] BY <1>2, <1>3 DEF VersionStates
    <2>2. active' \in [Documents -> Sources \union {NoVersion}] BY <1>2, <1>3
    <2>3. retain' \in [Objects -> {"none", "later", "past"}] BY <1>2, <1>3
    <2>4. wpc' \in [Sources -> WorkerPlaces] /\ expected' \in [Sources -> Sources \union {NoVersion}]
        BY <1>2, <1>3 DEF WorkerPlaces
    <2> QED BY <1>2, <2>1, <2>2, <2>3, <2>4 DEF StorageInv, StorageTypeOK
\* The version that is replaced was the one the document served.
<1>5. old # NoVersion => old \in Sources /\ ver[old] = "ready" /\ docOf[old] = d /\ old # v
    BY <1>1, <1>2, <1>3 DEF StorageInv, ActiveSound
<1>6. /\ ver'[v] = "ready"
      /\ \A w \in Sources \ {v} :
            ver'[w] = IF w = old THEN "superseded" ELSE ver[w]
      /\ \A w \in Sources : ver[w] = "none" => ver'[w] = "none"
      /\ \A w \in Sources : ver[w] = "superseded" => ver'[w] = "superseded"
      /\ \A w \in Sources : ver'[w] = "pending" => ver[w] = "pending"
      /\ \A w \in Sources : wpc'[w] # "idle" => w # v /\ wpc'[w] = wpc[w]
    BY <1>1, <1>2, <1>3, <1>5, ParametersAssumption
<1>7. RequestsSound' BY <1>2, <1>6 DEF StorageInv, RequestsSound
<1>8. ActiveSound'
    <2>1. \A w \in Sources : ver'[w] # "none" => docOf[w] \in Documents
        BY <1>1, <1>5, <1>6 DEF StorageInv, ActiveSound, d
    <2>2. ASSUME NEW e \in Documents, active'[e] # NoVersion
          PROVE ver'[active'[e]] = "ready" /\ docOf[active'[e]] = e
        <3>1. CASE e = d BY <1>1, <1>2, <1>3, <1>6, <3>1 DEF d
        <3>2. CASE e # d
            <4>1. /\ active'[e] = active[e] /\ active[e] \in Sources
                  /\ ver[active[e]] = "ready" /\ docOf[active[e]] = e
                BY <1>2, <1>3, <2>2, <3>2 DEF StorageInv, ActiveSound
            <4>2. active[e] # old /\ active[e] # v
                BY <1>1, <1>5, <3>2, <4>1, ParametersAssumption
            <4> QED BY <1>6, <4>1, <4>2
        <3> QED BY <3>1, <3>2
    <2> QED BY <1>2, <2>1, <2>2 DEF ActiveSound
<1>9. WorkSound'
    <2> SUFFICES ASSUME NEW w \in Sources, wpc'[w] # "idle"
        PROVE ver'[w] = ver[w] /\ wpc'[w] = wpc[w]
        BY <1>2 DEF StorageInv, WorkSound
    <2>1. w # v /\ wpc'[w] = wpc[w] BY <1>6
    <2>2. ver[w] = "pending" BY <2>1 DEF StorageInv, WorkSound
    <2> QED BY <1>5, <1>6, <2>1, <2>2, ParametersAssumption
<1>10. RowsSound'
    <2>1. ASSUME NEW w \in Sources \ {v}, ver'[w] \in {"ready", "superseded"}
          PROVE ver[w] \in {"ready", "superseded"}
        BY <1>5, <1>6, <2>1, ParametersAssumption
    <2> QED BY <1>1, <1>2, <2>1 DEF StorageInv, RowsSound
<1>11. \A w \in Sources : Retired(w) => Retired(w)'
    BY <1>1, <1>2, <1>3, <1>6 DEF Retired, d
<1>12. RetentionSound'
    <2>1. ASSUME NEW w \in Sources, NEW k \in Kinds
          PROVE /\ retain'[<<w, k>>] # "none" => retain[<<w, k>>] # "none" \/ w = old
                /\ retain'[<<w, k>>] = "past" => retain[<<w, k>>] = "past"
        <3>1. <<w, k>> \in Objects /\ <<w, k>>[1] = w BY DEF Objects
        <3> QED BY <1>2, <3>1
    <2>2. ASSUME NEW w \in Sources, w = old PROVE Retired(w)'
        BY <1>5, <1>6, <2>2, ParametersAssumption DEF Retired
    <2> QED BY <1>2, <1>11, <2>1, <2>2 DEF StorageInv, RetentionSound
<1>13. CollectionSound' BY <1>2, <1>3, <1>11, CollectionStays DEF StorageInv
<1>14. ReadersSound'
    <2>1. ServedVersionIntact'
        <3> SUFFICES ASSUME NEW e \in Documents \ deleted, active'[e] # NoVersion
            PROVE Final(active'[e]) \subseteq objects /\ active'[e] \in chunks
            BY <1>2 DEF ServedVersionIntact, Whole, Final
        <3>1. CASE e = d BY <1>1, <1>2, <1>3, <3>1 DEF Final
        <3>2. CASE e # d
            <4>1. active'[e] = active[e] BY <1>2, <1>3, <3>2
            <4> QED BY <1>2, <4>1 DEF StorageInv, ReadersSound, ServedVersionIntact, Whole, Final
        <3> QED BY <3>1, <3>2
    <2>2. CitedVersionIntact' /\ (reading' # NoVersion => Whole(reading)')
        BY <1>2 DEF StorageInv, ReadersSound, CitedVersionIntact, Whole, Final
    <2> QED BY <2>1, <2>2 DEF ReadersSound
<1> QED BY <1>4, <1>7, <1>8, <1>9, <1>10, <1>12, <1>13, <1>14 DEF StorageInv

\* A retryable failure.
LEMMA GiveBackKeeps ==
    ASSUME StorageInv, NEW v \in Sources, GiveBack(v)
    PROVE  StorageInv'
<1>1. StorageTypeOK'
    BY DEF StorageInv, StorageTypeOK, WorkerPlaces, GiveBack, Rest, dbVars, store, registry,
        indexVars
<1>2. WorkSound'
    BY DEF StorageInv, StorageTypeOK, WorkSound, GiveBack, Rest, dbVars, store, registry, indexVars
<1>3. RequestsSound' /\ ActiveSound' /\ RowsSound' /\ RetentionSound' /\ CollectionSound' /\ ReadersSound'
    BY DEF StorageInv, RequestsSound, ActiveSound, RowsSound, RetentionSound, Retired,
        CollectionSound, ReadersSound, CitedVersionIntact, ServedVersionIntact, Whole,
        Final, GiveBack, Rest, dbVars, store, registry, indexVars
<1> QED BY <1>1, <1>2, <1>3 DEF StorageInv

\* The worker is killed.
LEMMA WorkerStopsKeeps ==
    ASSUME StorageInv, NEW v \in Sources, WorkerStops(v)
    PROVE  StorageInv'
<1>1. StorageTypeOK'
    BY ParametersAssumption
    DEF StorageInv, StorageTypeOK, WorkerPlaces, WorkerStops, Rest, Mishap, dbVars, store,
        registry, indexVars
<1>2. WorkSound'
    BY DEF StorageInv, StorageTypeOK, WorkSound, WorkerStops, Rest, Mishap, dbVars, store,
        registry, indexVars
<1>3. RequestsSound' /\ ActiveSound' /\ RowsSound' /\ RetentionSound' /\ CollectionSound' /\ ReadersSound'
    BY DEF StorageInv, RequestsSound, ActiveSound, RowsSound, RetentionSound, Retired,
        CollectionSound, ReadersSound, CitedVersionIntact, ServedVersionIntact, Whole,
        Final, WorkerStops, Rest, Mishap, dbVars, store, registry, indexVars
<1> QED BY <1>1, <1>2, <1>3 DEF StorageInv

\* The job fails for good or is cancelled.
LEMMA JobEndsKeeps ==
    ASSUME StorageInv, NEW v \in Sources, JobEnds(v)
    PROVE  StorageInv'
<1>1. /\ ver[v] = "pending" /\ ver' = [ver EXCEPT ![v] = "failed"]
      /\ wpc' = [wpc EXCEPT ![v] = "idle"] /\ expected' = [expected EXCEPT ![v] = NoVersion]
      /\ UNCHANGED <<docOf, no, keyAt, active, deleted, store, registry, indexVars, req,
                     reading, sweep, gc>>
    BY DEF JobEnds, Rest
<1>2. /\ ver \in [Sources -> VersionStates] /\ wpc \in [Sources -> WorkerPlaces]
      /\ gc.versions \subseteq Sources
    BY DEF StorageInv, StorageTypeOK
<1>3. StorageTypeOK'
    <2>1. ver' \in [Sources -> VersionStates] /\ wpc' \in [Sources -> WorkerPlaces]
          /\ expected' \in [Sources -> Sources \union {NoVersion}]
        BY <1>1 DEF StorageInv, StorageTypeOK, VersionStates, WorkerPlaces
    <2>2. UNCHANGED requests /\ mishaps' \in 0..MaxMishaps
        BY ParametersAssumption DEF StorageInv, StorageTypeOK, JobEnds, Mishap
    <2> QED BY <1>1, <2>1, <2>2 DEF StorageInv, StorageTypeOK, store, registry, indexVars
<1>4. RequestsSound' BY <1>1, <1>2 DEF StorageInv, RequestsSound
<1>5. ActiveSound' BY <1>1, <1>2 DEF StorageInv, ActiveSound
<1>6. WorkSound' BY <1>1, <1>2 DEF StorageInv, WorkSound, store, registry
<1>7. RowsSound' BY <1>1, <1>2, RowsStay DEF StorageInv, registry, indexVars
<1>8. \A w \in Sources : Retired(w) => Retired(w)' BY <1>1, <1>2 DEF Retired
<1>9. RetentionSound' /\ CollectionSound'
    BY <1>1, <1>2, <1>8, RetentionStays, CollectionStays DEF StorageInv, registry, indexVars
<1>10. ReadersSound'
    BY <1>1 DEF StorageInv, ReadersSound, CitedVersionIntact, ServedVersionIntact, Whole, Final,
        store, indexVars
<1> QED BY <1>3, <1>4, <1>5, <1>6, <1>7, <1>9, <1>10 DEF StorageInv

\* delete_document retires all versions of the document.
LEMMA DeleteDocumentKeeps ==
    ASSUME StorageInv, NEW d \in Documents, DeleteDocument(d)
    PROVE  StorageInv'
<1>1. /\ deleted' = deleted \union {d}
      /\ retain' = [o \in Objects |->
           IF o[1] \in VersionsOf(d) /\ row[o] = "referenced" THEN "later" ELSE retain[o]]
      /\ UNCHANGED <<ver, docOf, no, keyAt, active, store, row, indexVars, req, workers,
                     reading, sweep, gc, requests, mishaps>>
    BY DEF DeleteDocument
<1>2. retain \in [Objects -> {"none", "later", "past"}] /\ gc.versions \subseteq Sources
    BY DEF StorageInv, StorageTypeOK
<1>3. StorageTypeOK'
    <2>1. retain' \in [Objects -> {"none", "later", "past"}] /\ deleted' \subseteq Documents
        BY <1>1, <1>2 DEF StorageInv, StorageTypeOK
    <2> QED BY <1>1, <2>1 DEF StorageInv, StorageTypeOK, store, indexVars, workers
<1>4. WorkSound' BY <1>1 DEF StorageInv, WorkSound, store, workers
<1>5. \A w \in Sources : Retired(w) => Retired(w)' BY <1>1 DEF Retired
<1>6. RetentionSound'
    <2>1. ASSUME NEW w \in Sources, NEW k \in Kinds
          PROVE /\ retain'[<<w, k>>] # "none" => retain[<<w, k>>] # "none" \/ w \in VersionsOf(d)
                /\ retain'[<<w, k>>] = "past" => retain[<<w, k>>] = "past"
        <3>1. <<w, k>> \in Objects /\ <<w, k>>[1] = w BY DEF Objects
        <3> QED BY <1>1, <3>1
    <2>2. \A w \in VersionsOf(d) : Retired(w)' BY <1>1 DEF VersionsOf, Accepted, Retired
    <2> QED BY <1>1, <1>5, <2>1, <2>2 DEF StorageInv, RetentionSound
<1>7. CollectionSound' BY <1>1, <1>2, <1>5, CollectionStays DEF StorageInv, indexVars
<1>8. RequestsSound' /\ ActiveSound' /\ RowsSound' /\ ReadersSound'
    BY <1>1 DEF StorageInv, RequestsSound, ActiveSound, RowsSound, ReadersSound,
        CitedVersionIntact, ServedVersionIntact, Whole, Final, store, indexVars
<1> QED BY <1>3, <1>4, <1>6, <1>7, <1>8 DEF StorageInv

\* Retention ends, while nobody reads the version.
LEMMA RetentionPassesKeeps ==
    ASSUME StorageInv, NEW v \in Sources, RetentionPasses(v)
    PROVE  StorageInv'
<1>1. /\ reading # v
      /\ retain' = [o \in Objects |->
           IF o[1] = v /\ retain[o] = "later" THEN "past" ELSE retain[o]]
      /\ UNCHANGED <<dbVars, store, row, indexVars, req, workers, reading, sweep, gc,
                     requests, mishaps>>
    BY DEF RetentionPasses
<1>2. StorageTypeOK'
    <2>1. retain' \in [Objects -> {"none", "later", "past"}]
        BY <1>1 DEF StorageInv, StorageTypeOK
    <2> QED BY <1>1, <2>1 DEF StorageInv, StorageTypeOK, dbVars, store, indexVars, workers
<1>3. RetentionSound'
    <2>1. ASSUME NEW w \in Sources, NEW k \in Kinds
          PROVE /\ retain'[<<w, k>>] # "none" => retain[<<w, k>>] # "none"
                /\ retain'[<<w, k>>] = "past" => retain[<<w, k>>] = "past" \/ w = v
        <3>1. <<w, k>> \in Objects /\ <<w, k>>[1] = w BY DEF Objects
        <3> QED BY <1>1, <3>1
    <2> QED BY <1>1, <2>1 DEF StorageInv, RetentionSound, Retired, dbVars
<1>4. RequestsSound' /\ ActiveSound' /\ WorkSound' /\ RowsSound' /\ CollectionSound' /\ ReadersSound'
    BY <1>1 DEF StorageInv, RequestsSound, ActiveSound, WorkSound, RowsSound, CollectionSound,
        Retired, ReadersSound, CitedVersionIntact, ServedVersionIntact, Whole, Final,
        dbVars, store, indexVars, workers
<1> QED BY <1>2, <1>3, <1>4 DEF StorageInv

\* A staging object gets old.
LEMMA GracePassesKeeps ==
    ASSUME StorageInv, NEW v \in Sources, GracePasses(v)
    PROVE  StorageInv'
<1>1. StorageTypeOK'
    BY DEF StorageInv, StorageTypeOK, GracePasses, Staging, dbVars, registry, indexVars, workers
<1>2. RequestsSound' /\ ActiveSound' /\ WorkSound' /\ RowsSound' /\ RetentionSound' /\ CollectionSound' /\ ReadersSound'
    BY DEF StorageInv, RequestsSound, ActiveSound, WorkSound, RowsSound, RetentionSound,
        Retired, CollectionSound, ReadersSound, CitedVersionIntact, ServedVersionIntact,
        Whole, Final, GracePasses, Staging, dbVars, registry, indexVars, workers
<1> QED BY <1>1, <1>2 DEF StorageInv

\* What is retrieved is active: whole and not retired.
LEMMA RetrieveKeeps ==
    ASSUME StorageInv, NEW v \in Sources, Retrieve(v)
    PROVE  StorageInv'
<1>1. /\ reading' = v
      /\ UNCHANGED <<dbVars, store, registry, indexVars, req, workers, sweep, gc, requests,
                     mishaps>>
    BY DEF Retrieve
\* What is served is whole and not retired.
<1>2. Whole(v) /\ ~Retired(v)
    <2>1. PICK d \in Documents \ deleted : active[d] = v BY DEF Retrieve
    <2>2. ver[v] = "ready" /\ docOf[v] = d BY <2>1, ParametersAssumption DEF StorageInv, ActiveSound
    <2>3. Whole(v) BY <2>1, ParametersAssumption DEF StorageInv, ReadersSound, ServedVersionIntact
    <2> QED BY <2>1, <2>2, <2>3 DEF Retired
<1>3. StorageTypeOK'
    BY <1>1 DEF StorageInv, StorageTypeOK, dbVars, store, registry, indexVars, workers
<1>4. \A w \in Sources : Retired(w)' <=> Retired(w) BY <1>1 DEF Retired, dbVars
<1>5. RetentionSound'
    BY <1>1, <1>2, <1>4 DEF StorageInv, RetentionSound, registry
<1>6. CollectionSound'
    BY <1>1, <1>2, <1>4 DEF StorageInv, StorageTypeOK, CollectionSound, indexVars
<1>7. ReadersSound'
    BY <1>1, <1>2 DEF StorageInv, ReadersSound, CitedVersionIntact, ServedVersionIntact, Whole,
        Final, dbVars, store, indexVars
<1>8. RequestsSound' /\ ActiveSound' /\ WorkSound' /\ RowsSound'
    BY <1>1 DEF StorageInv, RequestsSound, ActiveSound, WorkSound, RowsSound,
        dbVars, store, registry, indexVars, workers
<1> QED BY <1>3, <1>5, <1>6, <1>7, <1>8 DEF StorageInv

\* What is cited is what was being read.
LEMMA AnswerEndsKeeps ==
    ASSUME StorageInv, AnswerEnds
    PROVE  StorageInv'
<1>1. /\ reading # NoVersion /\ reading' = NoVersion
      /\ cited' = cited \/ cited' = cited \union ({reading} \intersect chunks)
      /\ UNCHANGED <<dbVars, store, registry, chunks, req, workers, sweep, gc, requests, mishaps>>
    BY DEF AnswerEnds
<1>2. cited \subseteq cited' /\ cited' \subseteq cited \union {reading} BY <1>1
<1>3. StorageTypeOK'
    BY <1>1, <1>2 DEF StorageInv, StorageTypeOK, dbVars, store, registry, workers
<1>4. \A w \in Sources : Retired(w)' <=> Retired(w) BY <1>1 DEF Retired, dbVars
<1>5. RetentionSound'
    BY <1>1, <1>4, ParametersAssumption DEF StorageInv, RetentionSound, registry
<1>6. CollectionSound'
    BY <1>1, <1>2, <1>4, ParametersAssumption DEF StorageInv, StorageTypeOK, CollectionSound
<1>7. ReadersSound'
    <2>1. \A w : Whole(w)' <=> Whole(w) BY <1>1 DEF Whole, Final, store
    <2>2. CitedVersionIntact'
        BY <1>1, <1>2, <2>1 DEF StorageInv, ReadersSound, CitedVersionIntact
    <2>3. ServedVersionIntact'
        BY <1>1 DEF StorageInv, ReadersSound, ServedVersionIntact, Whole, Final, dbVars, store
    <2> QED BY <1>1, <2>2, <2>3 DEF ReadersSound
<1>8. RequestsSound' /\ ActiveSound' /\ WorkSound' /\ RowsSound'
    BY <1>1 DEF StorageInv, RequestsSound, ActiveSound, WorkSound, RowsSound,
        dbVars, store, registry, workers
<1> QED BY <1>3, <1>5, <1>6, <1>7, <1>8 DEF StorageInv

\* The sweeper reads the registry.
LEMMA ReadRegistryKeeps ==
    ASSUME StorageInv, ReadRegistry
    PROVE  StorageInv'
<1>1. StorageTypeOK'
    BY DEF StorageInv, StorageTypeOK, ReadRegistry, Staging, NoSweep, dbVars, store, registry,
        indexVars, workers
<1>2. RequestsSound' /\ ActiveSound' /\ WorkSound' /\ RowsSound' /\ RetentionSound' /\ CollectionSound' /\ ReadersSound'
    BY DEF StorageInv, RequestsSound, ActiveSound, WorkSound, RowsSound, RetentionSound,
        Retired, CollectionSound, ReadersSound, CitedVersionIntact, ServedVersionIntact,
        Whole, Final, ReadRegistry, Staging, NoSweep, dbVars, store, registry, indexVars,
        workers
<1> QED BY <1>1, <1>2 DEF StorageInv

\* The sweeper lists the storage.
LEMMA ListStagingKeeps ==
    ASSUME StorageInv, ListStaging
    PROVE  StorageInv'
<1>1. StorageTypeOK'
    BY DEF StorageInv, StorageTypeOK, ListStaging, dbVars, store, registry, indexVars, workers
<1>2. RequestsSound' /\ ActiveSound' /\ WorkSound' /\ RowsSound' /\ RetentionSound' /\ CollectionSound' /\ ReadersSound'
    BY DEF StorageInv, RequestsSound, ActiveSound, WorkSound, RowsSound, RetentionSound,
        Retired, CollectionSound, ReadersSound, CitedVersionIntact, ServedVersionIntact,
        Whole, Final, ListStaging, dbVars, store, registry, indexVars, workers
<1> QED BY <1>1, <1>2 DEF StorageInv

\* The sweeper removes staging objects only.
LEMMA SweepObjectKeeps ==
    ASSUME StorageInv, NEW v \in Sources, SweepObject(v)
    PROVE  StorageInv'
<1>1. /\ objects \ {<<v, "staging">>} \subseteq objects' /\ objects' \subseteq objects
      /\ aged' \subseteq aged
      /\ \/ sweep' = [sweep EXCEPT !.left = sweep.left \ {v},
                                   !.swept = sweep.swept \union ({v} \intersect sweep.known)]
         \/ sweep' = [sweep EXCEPT !.left = sweep.left \ {v}]
      /\ UNCHANGED <<dbVars, registry, indexVars, req, workers, reading, gc, requests, mishaps>>
    BY DEF SweepObject, Staging, store
<1>2. StorageTypeOK'
    <2>1. sweep' \in [pc : {"idle", "read", "sweeping"}, known : SUBSET Sources,
                      staged : SUBSET Sources, left : SUBSET Sources, swept : SUBSET Sources]
        <3>1. sweep \in [pc : {"idle", "read", "sweeping"}, known : SUBSET Sources,
                         staged : SUBSET Sources, left : SUBSET Sources, swept : SUBSET Sources]
            BY DEF StorageInv, StorageTypeOK
        <3>2. CASE sweep' = [sweep EXCEPT !.left = sweep.left \ {v}] BY <3>1, <3>2
        <3>3. CASE sweep' = [sweep EXCEPT !.left = sweep.left \ {v},
                                 !.swept = sweep.swept \union ({v} \intersect sweep.known)]
            <4>1. sweep.left \ {v} \subseteq Sources
                  /\ sweep.swept \union ({v} \intersect sweep.known) \subseteq Sources
                BY <3>1
            <4> QED BY <3>1, <3>3, <4>1
        <3> QED BY <1>1, <3>2, <3>3
    <2>2. objects' \subseteq Objects /\ aged' \subseteq Sources
        BY <1>1 DEF StorageInv, StorageTypeOK
    <2> QED BY <1>1, <2>1, <2>2 DEF StorageInv, StorageTypeOK, dbVars, registry, indexVars, workers
<1>3. \A w \in Sources, k \in {"original", "normalized"} :
         <<w, k>> \in objects => <<w, k>> \in objects'
    BY <1>1
<1>4. WorkSound' BY <1>1, <1>3 DEF StorageInv, WorkSound, dbVars, registry, workers
<1>5. ReadersSound'
    BY <1>1, <1>3 DEF StorageInv, StorageTypeOK, ReadersSound, CitedVersionIntact,
        ServedVersionIntact, Whole, Final, dbVars, indexVars
<1>6. RequestsSound' /\ ActiveSound' /\ RowsSound' /\ RetentionSound' /\ CollectionSound'
    BY <1>1 DEF StorageInv, RequestsSound, ActiveSound, RowsSound, RetentionSound, Retired,
        CollectionSound, dbVars, registry, indexVars
<1> QED BY <1>2, <1>4, <1>5, <1>6 DEF StorageInv

\* The sweeper changes rows of staging objects only.
LEMMA CommitSweepKeeps ==
    ASSUME StorageInv, CommitSweep
    PROVE  StorageInv'
<1>1. /\ row' = [o \in Objects |->
           IF o \in {Staging(v) : v \in sweep.swept} THEN "deleted" ELSE row[o]]
      /\ sweep' = NoSweep
      /\ UNCHANGED <<dbVars, store, retain, indexVars, req, workers, reading, gc, requests,
                     mishaps>>
    BY DEF CommitSweep
<1>2. StorageTypeOK'
    <2>1. row' \in [Objects -> RowStates] BY <1>1 DEF StorageInv, StorageTypeOK, RowStates
    <2>2. sweep' \in [pc : {"idle", "read", "sweeping"}, known : SUBSET Sources,
                      staged : SUBSET Sources, left : SUBSET Sources, swept : SUBSET Sources]
        BY <1>1 DEF NoSweep
    <2> QED BY <1>1, <2>1, <2>2 DEF StorageInv, StorageTypeOK, dbVars, store, indexVars, workers
<1>3. ASSUME NEW w \in Sources
      PROVE /\ row'[<<w, "staging">>] \in {"deleted", row[<<w, "staging">>]}
            /\ row'[<<w, "original">>] = row[<<w, "original">>]
            /\ row'[<<w, "normalized">>] = row[<<w, "normalized">>]
    BY <1>1 DEF Objects, Kinds, Staging
<1>4. WorkSound' BY <1>1, <1>3 DEF StorageInv, WorkSound, dbVars, store, workers
<1>5. RowsSound'
    <2> SUFFICES ASSUME NEW w \in Sources
        PROVE /\ row'[<<w, "staging">>] # "referenced"
              /\ keyAt[w] = "original" => row'[<<w, "original">>] # "none"
              /\ \A k \in {"original", "normalized"} :
                    /\ row'[<<w, k>>] # "staged"
                    /\ ver[w] \in {"ready", "superseded"} =>
                          /\ row'[<<w, k>>] # "none"
                          /\ w \notin chunks => row'[<<w, k>>] = "deleted"
        BY <1>1 DEF RowsSound, dbVars, indexVars
    <2> QED BY <1>3 DEF StorageInv, RowsSound
<1>6. RequestsSound' /\ ActiveSound' /\ RetentionSound' /\ CollectionSound' /\ ReadersSound'
    BY <1>1 DEF StorageInv, RequestsSound, ActiveSound, RetentionSound, Retired, CollectionSound,
        ReadersSound, CitedVersionIntact, ServedVersionIntact, Whole, Final, dbVars, store, indexVars
<1> QED BY <1>2, <1>4, <1>5, <1>6 DEF StorageInv

\* The sweeper dies.
LEMMA SweepDiesKeeps ==
    ASSUME StorageInv, SweepDies
    PROVE  StorageInv'
<1>1. StorageTypeOK'
    BY ParametersAssumption
    DEF StorageInv, StorageTypeOK, SweepDies, Mishap, NoSweep, dbVars, store, registry,
        indexVars, workers
<1>2. RequestsSound' /\ ActiveSound' /\ WorkSound' /\ RowsSound' /\ RetentionSound' /\ CollectionSound' /\ ReadersSound'
    BY DEF StorageInv, RequestsSound, ActiveSound, WorkSound, RowsSound, RetentionSound,
        Retired, CollectionSound, ReadersSound, CitedVersionIntact, ServedVersionIntact,
        Whole, Final, SweepDies, Mishap, NoSweep, dbVars, store, registry, indexVars,
        workers
<1> QED BY <1>1, <1>2 DEF StorageInv

\* The candidates have a retention: they are retired.
LEMMA ReadCandidatesKeeps ==
    ASSUME StorageInv, ReadCandidates
    PROVE  StorageInv'
<1> DEFINE due == {o \in Objects \ Held : row[o] = "referenced" /\ retain[o] = "past"}
<1>1. /\ gc' = [pc |-> "collecting", left |-> due, versions |-> {o[1] : o \in due},
                chosen |-> {}, gone |-> {}]
      /\ UNCHANGED <<dbVars, store, registry, indexVars, req, workers, reading, sweep,
                     requests, mishaps>>
    BY DEF ReadCandidates, NoCollection
<1>2. ASSUME NEW v \in Sources, NEW k \in Kinds, <<v, k>> \in due
      PROVE k # "staging" /\ Retired(v) /\ reading # v
    BY <1>2 DEF StorageInv, RowsSound, RetentionSound, Kinds
<1>3. due \subseteq Objects /\ {o[1] : o \in due} \subseteq Sources BY DEF Objects
<1>4. \A v \in {o[1] : o \in due} : \E k \in Kinds : v \in Sources /\ <<v, k>> \in due
    BY DEF Objects
<1> HIDE DEF due
<1>5. StorageTypeOK'
    <2>1. gc' \in [pc : {"idle", "collecting"}, left : SUBSET Objects, versions : SUBSET Sources,
                   chosen : SUBSET Objects, gone : SUBSET Objects]
        BY <1>1, <1>3
    <2> QED BY <1>1, <2>1 DEF StorageInv, StorageTypeOK, dbVars, store, registry, indexVars, workers
<1>6. \A v \in Sources : Retired(v)' <=> Retired(v) BY <1>1 DEF Retired, dbVars
<1>7. CollectionSound'
    <2>1. /\ gc'.left = due /\ gc'.chosen = {} /\ gc'.gone = {}
          /\ gc'.versions = {o[1] : o \in due} /\ reading' = reading
        BY <1>1
    <2> QED BY <1>2, <1>3, <1>4, <1>6, <2>1 DEF CollectionSound
<1>8. RequestsSound' /\ ActiveSound' /\ WorkSound' /\ RowsSound' /\ RetentionSound' /\ ReadersSound'
    BY <1>1 DEF StorageInv, RequestsSound, ActiveSound, WorkSound, RowsSound, RetentionSound,
        Retired, ReadersSound, CitedVersionIntact, ServedVersionIntact, Whole, Final,
        dbVars, store, registry, indexVars, workers
<1> QED BY <1>5, <1>7, <1>8 DEF StorageInv

\* An object is chosen only if nobody cites its version.
LEMMA ChooseObjectKeeps ==
    ASSUME StorageInv, NEW o \in Objects, ChooseObject(o)
    PROVE  StorageInv'
<1>1. /\ gc.chosen = {} /\ o \in gc.left
      /\ gc' = [gc EXCEPT !.left = gc.left \ {o},
                          !.chosen = IF Collectable(o[1]) THEN {o} ELSE {}]
      /\ UNCHANGED <<dbVars, store, registry, indexVars, req, workers, reading, sweep,
                     requests, mishaps>>
    BY DEF ChooseObject
<1>2. gc \in [pc : {"idle", "collecting"}, left : SUBSET Objects, versions : SUBSET Sources,
              chosen : SUBSET Objects, gone : SUBSET Objects]
    BY DEF StorageInv, StorageTypeOK
<1>3. /\ gc'.left = gc.left \ {o} /\ gc'.gone = gc.gone /\ gc'.versions = gc.versions
      /\ gc'.chosen \subseteq {o} /\ (gc'.chosen # {} => o[1] \notin cited)
    BY <1>1, <1>2 DEF Collectable
<1>4. StorageTypeOK'
    <2>1. gc' \in [pc : {"idle", "collecting"}, left : SUBSET Objects, versions : SUBSET Sources,
                   chosen : SUBSET Objects, gone : SUBSET Objects]
        BY <1>1, <1>2
    <2> QED BY <1>1, <2>1 DEF StorageInv, StorageTypeOK, dbVars, store, registry, indexVars, workers
<1>5. \A v \in Sources : Retired(v)' <=> Retired(v) BY <1>1 DEF Retired, dbVars
<1>6. CollectionSound'
    <2>1. UNCHANGED <<reading, cited>> BY <1>1 DEF indexVars
    <2>2. ASSUME NEW v \in Sources, NEW k \in Kinds, <<v, k>> \in gc'.chosen
          PROVE <<v, k>> \in gc.left /\ v \notin cited
        BY <1>1, <1>3, <2>2
    <2> QED BY <1>2, <1>3, <1>5, <2>1, <2>2 DEF StorageInv, CollectionSound
<1>7. RequestsSound' /\ ActiveSound' /\ WorkSound' /\ RowsSound' /\ RetentionSound' /\ ReadersSound'
    BY <1>1 DEF StorageInv, RequestsSound, ActiveSound, WorkSound, RowsSound, RetentionSound,
        Retired, ReadersSound, CitedVersionIntact, ServedVersionIntact, Whole, Final,
        dbVars, store, registry, indexVars, workers
<1> QED BY <1>4, <1>6, <1>7 DEF StorageInv

\* The object that is deleted is retired, and neither cited nor read.
LEMMA DeleteChosenKeeps ==
    ASSUME StorageInv, DeleteChosen
    PROVE  StorageInv'
<1>1. /\ objects' = objects \ gc.chosen
      /\ gc' = [gc EXCEPT !.chosen = {}, !.gone = gc.gone \union gc.chosen]
      /\ UNCHANGED <<dbVars, aged, registry, indexVars, req, workers, reading, sweep, requests,
                     mishaps>>
    BY DEF DeleteChosen
<1>2. gc \in [pc : {"idle", "collecting"}, left : SUBSET Objects, versions : SUBSET Sources,
              chosen : SUBSET Objects, gone : SUBSET Objects]
    BY DEF StorageInv, StorageTypeOK
<1>3. StorageTypeOK'
    <2>1. gc' \in [pc : {"idle", "collecting"}, left : SUBSET Objects, versions : SUBSET Sources,
                   chosen : SUBSET Objects, gone : SUBSET Objects]
        BY <1>1, <1>2
    <2> QED BY <1>1, <2>1
        DEF StorageInv, StorageTypeOK, dbVars, registry, indexVars, workers
\* What is lost is retired, final, not cited and not being read.
<1>4. ASSUME NEW v \in Sources, NEW k \in Kinds, <<v, k>> \in objects, <<v, k>> \notin objects'
      PROVE k # "staging" /\ Retired(v) /\ reading # v /\ v \notin cited
    BY <1>1, <1>4 DEF StorageInv, CollectionSound
<1>5. WorkSound'
    <2> SUFFICES ASSUME NEW v \in Sources, wpc[v] # "idle", docOf[v] \notin deleted,
                        NEW k \in Kinds, <<v, k>> \in objects
                 PROVE <<v, k>> \in objects'
        BY <1>1 DEF StorageInv, WorkSound, Kinds, dbVars, registry, workers
    <2>1. ~Retired(v) BY DEF StorageInv, WorkSound, Retired
    <2> QED BY <1>4, <2>1
<1>6. CollectionSound'
    <2>1. /\ gc'.left = gc.left /\ gc'.chosen = {} /\ gc'.gone = gc.gone \union gc.chosen
          /\ gc'.versions = gc.versions /\ UNCHANGED <<reading, cited>>
        BY <1>1, <1>2 DEF indexVars
    <2>2. \A v \in Sources : Retired(v)' <=> Retired(v) BY <1>1 DEF Retired, dbVars
    <2> QED BY <1>2, <2>1, <2>2 DEF StorageInv, CollectionSound
<1>7. ReadersSound'
    <2>1. ASSUME NEW v \in Sources, Whole(v), reading = v \/ v \in cited \/ ~Retired(v)
          PROVE Final(v) \subseteq objects' /\ v \in chunks'
        BY <1>1, <1>4, <2>1 DEF Whole, Final, Kinds, indexVars
    <2>2. ServedVersionIntact'
        <3> SUFFICES ASSUME NEW d \in Documents \ deleted, active[d] # NoVersion
            PROVE Final(active[d]) \subseteq objects' /\ active[d] \in chunks'
            BY <1>1 DEF ServedVersionIntact, Whole, dbVars
        <3>1. active[d] \in Sources /\ ~Retired(active[d])
            BY DEF StorageInv, StorageTypeOK, ActiveSound, Retired
        <3>2. Whole(active[d]) BY DEF StorageInv, ReadersSound, ServedVersionIntact
        <3> QED BY <2>1, <3>1, <3>2
    <2>3. CitedVersionIntact'
        <3>1. cited \subseteq Sources /\ cited' = cited
            BY <1>1 DEF StorageInv, StorageTypeOK, indexVars
        <3> QED BY <2>1, <3>1 DEF StorageInv, ReadersSound, CitedVersionIntact, Whole
    <2>4. reading' # NoVersion => Whole(reading)'
        BY <1>1, <2>1 DEF StorageInv, StorageTypeOK, ReadersSound, Whole
    <2> QED BY <2>2, <2>3, <2>4 DEF ReadersSound
<1>8. RequestsSound' /\ ActiveSound' /\ RowsSound' /\ RetentionSound'
    BY <1>1 DEF StorageInv, RequestsSound, ActiveSound, RowsSound, RetentionSound, Retired,
        dbVars, registry, indexVars
<1> QED BY <1>3, <1>5, <1>6, <1>7, <1>8 DEF StorageInv

\* A failed deletion commits the rows of what is gone.
LEMMA DeleteRaisesKeeps ==
    ASSUME StorageInv, DeleteRaises
    PROVE  StorageInv'
<1>1. /\ row' = RowsGone /\ gc' = NoCollection
      /\ UNCHANGED <<dbVars, store, retain, indexVars, req, workers, reading, sweep, requests>>
      /\ mishaps' \in 0..MaxMishaps
    BY ParametersAssumption DEF DeleteRaises, Mishap, StorageInv, StorageTypeOK
<1>2. /\ row' \in [Objects -> RowStates]
      /\ \A v \in Sources :
            /\ row'[<<v, "staging">>] = row[<<v, "staging">>]
            /\ \A k \in {"original", "normalized"} : row'[<<v, k>>] \in {"deleted", row[<<v, k>>]}
    BY <1>1, RowsGoneSound
<1>3. StorageTypeOK'
    BY <1>1, <1>2 DEF StorageInv, StorageTypeOK, NoCollection, dbVars, store, indexVars, workers
<1>4. WorkSound' BY <1>1, <1>2 DEF StorageInv, WorkSound, dbVars, store, workers
<1>5. RowsSound'
    <2> SUFFICES ASSUME NEW w \in Sources
        PROVE /\ row'[<<w, "staging">>] # "referenced"
              /\ keyAt[w] = "original" => row'[<<w, "original">>] # "none"
              /\ \A k \in {"original", "normalized"} :
                    /\ row'[<<w, k>>] # "staged"
                    /\ ver[w] \in {"ready", "superseded"} =>
                          /\ row'[<<w, k>>] # "none"
                          /\ w \notin chunks => row'[<<w, k>>] = "deleted"
        BY <1>1 DEF RowsSound, dbVars, indexVars
    <2> QED BY <1>2 DEF StorageInv, RowsSound
<1>6. CollectionSound' BY <1>1 DEF CollectionSound, NoCollection
<1>7. RequestsSound' /\ ActiveSound' /\ RetentionSound' /\ ReadersSound'
    BY <1>1 DEF StorageInv, RequestsSound, ActiveSound, RetentionSound, Retired,
        ReadersSound, CitedVersionIntact, ServedVersionIntact, Whole, Final, dbVars, store, indexVars
<1> QED BY <1>3, <1>4, <1>5, <1>6, <1>7 DEF StorageInv

\* Chunks go only where no object is referenced any more.
LEMMA CommitCollectionKeeps ==
    ASSUME StorageInv, CommitCollection
    PROVE  StorageInv'
<1> DEFINE emptied == {v \in gc.versions :
                         /\ v \notin cited
                         /\ \A o \in Final(v) : RowsGone[o] # "referenced"}
<1>1. /\ row' = RowsGone /\ gc' = NoCollection /\ chunks' = chunks \ emptied
      /\ UNCHANGED <<dbVars, store, retain, cited, req, workers, reading, sweep, requests,
                     mishaps>>
    BY DEF CommitCollection
<1>2. /\ row' \in [Objects -> RowStates]
      /\ \A v \in Sources :
            /\ row'[<<v, "staging">>] = row[<<v, "staging">>]
            /\ \A k \in {"original", "normalized"} : row'[<<v, k>>] \in {"deleted", row[<<v, k>>]}
    BY <1>1, RowsGoneSound
<1>3. /\ \A v \in emptied : Retired(v) /\ reading # v /\ v \notin cited
      /\ \A v \in emptied, k \in {"original", "normalized"} : row'[<<v, k>>] # "referenced"
    BY <1>1 DEF StorageInv, CollectionSound, Final
<1> HIDE DEF emptied
<1>4. StorageTypeOK'
    BY <1>1, <1>2 DEF StorageInv, StorageTypeOK, NoCollection, dbVars, store, workers
<1>5. WorkSound' BY <1>1, <1>2 DEF StorageInv, WorkSound, dbVars, store, workers
<1>6. RowsSound'
    <2> SUFFICES ASSUME NEW w \in Sources
        PROVE /\ row'[<<w, "staging">>] # "referenced"
              /\ keyAt[w] = "original" => row'[<<w, "original">>] # "none"
              /\ \A k \in {"original", "normalized"} :
                    /\ row'[<<w, k>>] # "staged"
                    /\ ver[w] \in {"ready", "superseded"} =>
                          /\ row'[<<w, k>>] # "none"
                          /\ w \notin chunks' => row'[<<w, k>>] = "deleted"
        BY <1>1 DEF RowsSound, dbVars
    <2>1. \A k \in {"original", "normalized"} : row'[<<w, k>>] \in {"none", "staged", "referenced", "deleted"}
        BY <1>2 DEF Objects, Kinds, RowStates
    <2>2. w \notin chunks' => w \notin chunks \/ w \in emptied BY <1>1
    <2> QED BY <1>2, <1>3, <2>1, <2>2 DEF StorageInv, RowsSound
<1>7. CollectionSound' BY <1>1 DEF CollectionSound, NoCollection
<1>8. ReadersSound'
    <2>1. ASSUME NEW v \in Sources, Whole(v), reading = v \/ v \in cited \/ ~Retired(v)
          PROVE Final(v) \subseteq objects' /\ v \in chunks'
        BY <1>1, <1>3, <2>1 DEF Whole, Final, store
    <2>2. ServedVersionIntact'
        <3> SUFFICES ASSUME NEW d \in Documents \ deleted, active[d] # NoVersion
            PROVE Final(active[d]) \subseteq objects' /\ active[d] \in chunks'
            BY <1>1 DEF ServedVersionIntact, Whole, dbVars
        <3>1. active[d] \in Sources /\ ~Retired(active[d])
            BY DEF StorageInv, StorageTypeOK, ActiveSound, Retired
        <3>2. Whole(active[d]) BY DEF StorageInv, ReadersSound, ServedVersionIntact
        <3> QED BY <2>1, <3>1, <3>2
    <2>3. CitedVersionIntact'
        <3>1. cited \subseteq Sources /\ cited' = cited
            BY <1>1 DEF StorageInv, StorageTypeOK
        <3> QED BY <2>1, <3>1 DEF StorageInv, ReadersSound, CitedVersionIntact, Whole
    <2>4. reading' # NoVersion => Whole(reading)'
        BY <1>1, <2>1 DEF StorageInv, StorageTypeOK, ReadersSound, Whole
    <2> QED BY <2>2, <2>3, <2>4 DEF ReadersSound
<1>9. RequestsSound' /\ ActiveSound' /\ RetentionSound'
    BY <1>1 DEF StorageInv, RequestsSound, ActiveSound, RetentionSound, Retired, dbVars, store
<1> QED BY <1>4, <1>5, <1>6, <1>7, <1>8, <1>9 DEF StorageInv

\* The collector dies.
LEMMA CollectorDiesKeeps ==
    ASSUME StorageInv, CollectorDies
    PROVE  StorageInv'
<1>1. StorageTypeOK'
    BY ParametersAssumption
    DEF StorageInv, StorageTypeOK, CollectorDies, Mishap, NoCollection, dbVars, store,
        registry, indexVars, workers
<1>2. CollectionSound'
    BY DEF StorageInv, StorageTypeOK, CollectionSound, Retired, CollectorDies, Mishap,
        NoCollection, dbVars, store, registry, indexVars, workers
<1>3. RequestsSound' /\ ActiveSound' /\ WorkSound' /\ RowsSound' /\ RetentionSound' /\ ReadersSound'
    BY DEF StorageInv, RequestsSound, ActiveSound, WorkSound, RowsSound, RetentionSound,
        Retired, ReadersSound, CitedVersionIntact, ServedVersionIntact, Whole, Final,
        CollectorDies, Mishap, NoCollection, dbVars, store, registry, indexVars, workers
<1> QED BY <1>1, <1>2, <1>3 DEF StorageInv

-----------------------------------------------------------------------------
(***************************************************************************)
(* The invariant holds                                                     *)
(***************************************************************************)

\* Nothing is accepted, stored or read at first.
LEMMA InitSound == Init => StorageInv
<1> SUFFICES ASSUME Init PROVE StorageInv OBVIOUS
<1>1. StorageTypeOK
    BY ParametersAssumption
    DEF Init, StorageTypeOK, VersionStates, RowStates, WorkerPlaces, Objects, Kinds, Idle,
        NoSweep, NoCollection
<1>2. RequestsSound /\ ActiveSound /\ WorkSound
    BY ParametersAssumption DEF Init, RequestsSound, ActiveSound, WorkSound, Idle
<1>3. RowsSound
    <2>1. \A v \in Sources, k \in Kinds : row[<<v, k>>] = "none" BY DEF Init, Objects
    <2> QED BY <2>1 DEF Init, RowsSound, Kinds
<1>4. RetentionSound
    <2>1. \A v \in Sources, k \in Kinds : retain[<<v, k>>] = "none" BY DEF Init, Objects
    <2> QED BY <2>1 DEF RetentionSound
<1>5. CollectionSound BY DEF Init, CollectionSound, NoCollection
<1>6. ReadersSound
    BY DEF Init, ReadersSound, CitedVersionIntact, ServedVersionIntact
<1> QED BY <1>1, <1>2, <1>3, <1>4, <1>5, <1>6 DEF StorageInv

\* One case per kind of step.
LEMMA StepSound == StorageInv /\ [Next]_vars => StorageInv'
<1> SUFFICES ASSUME StorageInv, [Next]_vars PROVE StorageInv' OBVIOUS
<1>1. CASE \E c \in Clients : Acceptance(c)
    BY <1>1, ReadForAcceptanceKeeps, FlushRowsKeeps, FlushCollidesKeeps, CommitQuarantinedKeeps,
       PutStagingKeeps, CommitAcceptedKeeps, RequestDiesKeeps
    DEF Acceptance
<1>2. CASE \E v \in Sources : Work(v)
    <2> PICK v \in Sources : Work(v) BY <1>2
    <2>1. CASE StartJob(v) \/ PutOriginal(v) \/ CommitOriginal(v) \/ RemoveStaging(v)
        BY <2>1, StartJobKeeps, PutOriginalKeeps, CommitOriginalKeeps, RemoveStagingKeeps
    <2>2. CASE ReuseOriginal(v) \/ PutNormalized(v) \/ CommitIndex(v)
        BY <2>2, ReuseOriginalKeeps, PutNormalizedKeeps, CommitIndexKeeps
    <2>3. CASE ActivateVersion(v) \/ GiveBack(v) \/ WorkerStops(v) \/ JobEnds(v)
        BY <2>3, ActivateVersionKeeps, GiveBackKeeps, WorkerStopsKeeps, JobEndsKeeps
    <2> QED BY <2>1, <2>2, <2>3 DEF Work
<1>3. CASE \E v \in Sources : GracePasses(v) \/ Retrieve(v) \/ RetentionPasses(v)
    BY <1>3, GracePassesKeeps, RetrieveKeeps, RetentionPassesKeeps
<1>4. CASE (\E d \in Documents : DeleteDocument(d)) \/ AnswerEnds
    BY <1>4, DeleteDocumentKeeps, AnswerEndsKeeps
<1>5. CASE Sweeping
    BY <1>5, ReadRegistryKeeps, ListStagingKeeps, SweepObjectKeeps, CommitSweepKeeps,
       SweepDiesKeeps
    DEF Sweeping
<1>6. CASE Collecting
    BY <1>6, ReadCandidatesKeeps, ChooseObjectKeeps, DeleteChosenKeeps, DeleteRaisesKeeps,
       CommitCollectionKeeps, CollectorDiesKeeps
    DEF Collecting
<1>7. CASE UNCHANGED vars
    <2>1. UNCHANGED <<ver, docOf, no, keyAt, active, deleted, objects, aged, row, retain, chunks,
                      cited, req, wpc, expected, reading, sweep, gc, requests, mishaps>>
        BY <1>7 DEF vars, dbVars, store, registry, indexVars, workers
    <2>2. StorageTypeOK' BY <2>1 DEF StorageInv, StorageTypeOK
    <2>3. RequestsSound' /\ ActiveSound' /\ WorkSound' /\ RowsSound'
        BY <2>1 DEF StorageInv, RequestsSound, ActiveSound, WorkSound, RowsSound
    <2>4. RetentionSound' /\ CollectionSound' /\ ReadersSound'
        BY <2>1 DEF StorageInv, RetentionSound, Retired, CollectionSound, ReadersSound,
            CitedVersionIntact, ServedVersionIntact, Whole, Final
    <2> QED BY <2>2, <2>3, <2>4 DEF StorageInv
<1> QED BY <1>1, <1>2, <1>3, <1>4, <1>5, <1>6, <1>7 DEF Next

\* The invariant of the storage of sources, for any constants.
THEOREM StorageInvariant == Spec => []StorageInv
BY InitSound, StepSound, PTL DEF Spec

\* Every variable keeps its type.
THEOREM StorageTypes == Spec => []StorageTypeOK
<1>1. StorageInv => StorageTypeOK BY DEF StorageInv
<1> QED BY <1>1, StorageInvariant, PTL

\* The active version of a live document has its objects and its chunks,
\* between any two steps of promotion, sweep, collection and activation.
THEOREM ServedStaysIntact == Spec => []ServedVersionIntact
<1>1. StorageInv => ServedVersionIntact BY DEF StorageInv, ReadersSound
<1> QED BY <1>1, StorageInvariant, PTL

\* What an answer cites is never collected, though the collector counts the
\* citations before it deletes.
THEOREM CitedStaysIntact == Spec => []CitedVersionIntact
<1>1. StorageInv => CitedVersionIntact BY DEF StorageInv, ReadersSound
<1> QED BY <1>1, StorageInvariant, PTL

\* A run of the collector that fails halfway leaves the chunks with the
\* objects it spared.
THEOREM ChunksStayWithObjects == Spec => []ChunksOutliveObjects
<1>1. StorageInv => ChunksOutliveObjects
    BY DEF StorageInv, RowsSound, ChunksOutliveObjects, Final
<1> QED BY <1>1, StorageInvariant, PTL

\* The only steps that remove objects.
LEMMA WhatRemoves ==
    ASSUME [Next]_vars
    PROVE  \/ objects \subseteq objects'
           \/ \E v \in Sources : RemoveStaging(v)
           \/ \E v \in Sources : SweepObject(v)
           \/ DeleteChosen
<1>1. ASSUME NEW c \in Clients, Acceptance(c) PROVE objects \subseteq objects'
    BY <1>1 DEF Acceptance, ReadForAcceptance, FlushRows, FlushCollides, CommitQuarantined,
        PutStaging, CommitAccepted, RequestDies, store
<1>2. ASSUME NEW v \in Sources, Work(v) PROVE RemoveStaging(v) \/ objects \subseteq objects'
    BY <1>2 DEF Work, StartJob, PutOriginal, CommitOriginal, ReuseOriginal, PutNormalized,
        CommitIndex, ActivateVersion, GiveBack, WorkerStops, JobEnds, store
<1>3. ASSUME NEW v \in Sources, GracePasses(v) \/ Retrieve(v) \/ RetentionPasses(v)
      PROVE objects' = objects
    BY <1>3 DEF GracePasses, Retrieve, RetentionPasses, store
<1>4. ASSUME (\E d \in Documents : DeleteDocument(d)) \/ AnswerEnds PROVE objects' = objects
    BY <1>4 DEF DeleteDocument, AnswerEnds, store
<1>5. ASSUME Sweeping PROVE objects' = objects \/ \E v \in Sources : SweepObject(v)
    BY <1>5 DEF Sweeping, ReadRegistry, ListStaging, CommitSweep, SweepDies, store
<1>6. ASSUME Collecting PROVE objects' = objects \/ DeleteChosen
    BY <1>6 DEF Collecting, ReadCandidates, ChooseObject, DeleteRaises, CommitCollection,
        CollectorDies, store
<1>7. ASSUME UNCHANGED vars PROVE objects' = objects BY <1>7 DEF vars, store
<1> QED BY <1>1, <1>2, <1>3, <1>4, <1>5, <1>6, <1>7 DEF Next

\* The sweeper never removes the staged bytes of a waiting job whose registry
\* row it has read; nobody else removes them before the promotion.
THEOREM RegisteredStays == Spec => RegisteredBytesKept
<1> DEFINE Kept ==
        \A v \in Sources :
            (/\ ver[v] = "pending" /\ keyAt[v] = "staging"
             /\ Staging(v) \in objects \ objects')
              => sweep.pc = "sweeping" /\ v \notin sweep.known
<1>1. StorageInv /\ [Next]_vars => [Kept]_vars
    <2> SUFFICES ASSUME StorageInv, [Next]_vars, NEW v \in Sources, ver[v] = "pending",
                        keyAt[v] = "staging", <<v, "staging">> \in objects,
                        <<v, "staging">> \notin objects'
                 PROVE sweep.pc = "sweeping" /\ v \notin sweep.known
        BY DEF Staging
    <2>1. CASE \E w \in Sources : RemoveStaging(w)
        <3> PICK w \in Sources : RemoveStaging(w) BY <2>1
        <3>1. wpc[w] = "promoted" /\ objects' = objects \ {<<w, "staging">>}
            BY DEF RemoveStaging, WorkerStep, Staging
        <3>2. keyAt[w] = "original" BY <3>1 DEF StorageInv, WorkSound
        <3> QED BY <3>1, <3>2
    <2>2. CASE \E w \in Sources : SweepObject(w)
        <3> PICK w \in Sources : SweepObject(w) BY <2>2
        <3>1. w = v BY DEF SweepObject, Staging, store
        <3>2. sweep.pc = "sweeping" /\ Abandoned(v) BY <3>1 DEF SweepObject, store
        <3> QED BY <3>2 DEF Abandoned
    <2>3. CASE DeleteChosen
        <3>1. <<v, "staging">> \in gc.chosen BY <2>3 DEF DeleteChosen
        <3> QED BY <3>1 DEF StorageInv, CollectionSound, Kinds
    <2> QED BY <2>1, <2>2, <2>3, WhatRemoves
<1> QED BY <1>1, StorageInvariant, PTL DEF Spec, RegisteredBytesKept

-----------------------------------------------------------------------------
(***************************************************************************)
(* The storage implements SourceVault                                      *)
(***************************************************************************)

\* What SourceVault sees of the versions.
ServedNow == {v \in Sources : ver[v] \in {"ready", "superseded"}}
WholeNow == {v \in Sources : Whole(v)}

\* A step that a reader cannot tell.
LEMMA VaultStutters ==
    ASSUME UNCHANGED <<chunks, active, cited, deleted>>, ServedNow' = ServedNow,
           \A v \in Sources, k \in {"original", "normalized"} :
               <<v, k>> \in objects' <=> <<v, k>> \in objects
    PROVE  UNCHANGED Vault!vaultVars
<1>1. WholeNow' = WholeNow BY DEF WholeNow, Whole, Final
<1> QED BY <1>1 DEF Vault!vaultVars, WholeNow, ServedNow

\* A step that adds to a version nobody has been served.
LEMMA VaultBuilds ==
    ASSUME NEW v \in Sources, ver[v] = "pending", UNCHANGED <<ver, active, cited, deleted>>,
           chunks \subseteq chunks', chunks' \subseteq chunks \union {v},
           objects \subseteq objects', \A o \in objects' \ objects : o[1] = v
    PROVE  Vault!Build(v) \/ UNCHANGED Vault!vaultVars
<1>1. \A w \in Sources \ {v} : w \in WholeNow' <=> w \in WholeNow
    <2> TAKE w \in Sources \ {v}
    <2>1. \A k : <<w, k>> \in objects' <=> <<w, k>> \in objects OBVIOUS
    <2> QED BY <2>1 DEF WholeNow, Whole, Final
<1>2. v \in WholeNow => v \in WholeNow' BY DEF WholeNow, Whole
<1>3. WholeNow' = WholeNow \/ WholeNow' = WholeNow \union {v} BY <1>1, <1>2 DEF WholeNow
<1>4. v \notin ServedNow /\ ServedNow' = ServedNow BY DEF ServedNow
<1> QED BY <1>3, <1>4 DEF Vault!Build, Vault!vaultVars, WholeNow, ServedNow

\* A step that removes objects or chunks of retired versions nobody cites.
LEMMA VaultReclaims ==
    ASSUME StorageInv, UNCHANGED <<ver, active, cited, deleted>>, WholeNow' \subseteq WholeNow,
           \A v \in WholeNow \ WholeNow' : Retired(v) /\ v \notin cited
    PROVE  \E lost \in SUBSET Sources : Vault!Reclaim(lost)
<1> DEFINE lost == WholeNow \ WholeNow'
<1>1. lost \in SUBSET Sources BY DEF WholeNow
<1>2. lost \intersect cited = {} OBVIOUS
<1>3. \A d \in Documents : active[d] \in lost => d \in deleted
    BY <1>1, ParametersAssumption DEF StorageInv, ActiveSound, Retired
<1>4. WholeNow' = WholeNow \ lost OBVIOUS
<1>5. ServedNow' = ServedNow BY DEF ServedNow
<1> HIDE DEF lost
<1>6. Vault!Reclaim(lost) BY <1>2, <1>3, <1>4, <1>5 DEF Vault!Reclaim, WholeNow, ServedNow
<1> QED BY <1>1, <1>6

\* Acceptance happens behind the readers' back.
LEMMA AcceptanceHidden ==
    ASSUME StorageInv, NEW c \in Clients, Acceptance(c)
    PROVE  UNCHANGED Vault!vaultVars
<1>1. UNCHANGED <<chunks, active, cited, deleted>>
    BY DEF Acceptance, ReadForAcceptance, FlushRows, FlushCollides, CommitQuarantined, PutStaging,
        CommitAccepted, RequestDies, dbVars, indexVars
<1>2. \A v \in Sources, k \in {"original", "normalized"} :
         <<v, k>> \in objects' <=> <<v, k>> \in objects
    BY DEF Acceptance, ReadForAcceptance, FlushRows, FlushCollides, CommitQuarantined, PutStaging,
        CommitAccepted, RequestDies, store, Staging
<1>3. ServedNow' = ServedNow
    <2>1. CASE CommitQuarantined(c)
        <3>1. ver[req[c].src] = "none" /\ ver' = [ver EXCEPT ![req[c].src] = "failed"]
            BY <2>1 DEF StorageInv, RequestsSound, CommitQuarantined
        <3>2. ver \in [Sources -> VersionStates] BY DEF StorageInv, StorageTypeOK
        <3> QED BY <3>1, <3>2 DEF ServedNow
    <2>2. CASE CommitAccepted(c)
        <3>1. ver[req[c].src] = "none" /\ ver' = [ver EXCEPT ![req[c].src] = "pending"]
            BY <2>2 DEF StorageInv, RequestsSound, CommitAccepted
        <3>2. ver \in [Sources -> VersionStates] BY DEF StorageInv, StorageTypeOK
        <3> QED BY <3>1, <3>2 DEF ServedNow
    <2>3. CASE ver' = ver BY <2>3 DEF ServedNow
    <2> QED BY <2>1, <2>2, <2>3 DEF Acceptance, ReadForAcceptance, FlushRows, FlushCollides,
        PutStaging, RequestDies, dbVars
<1> QED BY <1>1, <1>2, <1>3, VaultStutters

\* A worker builds a version, then serves it.
LEMMA WorkBuildsAndServes ==
    ASSUME StorageInv, NEW v \in Sources, Work(v)
    PROVE  Vault!VaultNext \/ UNCHANGED Vault!vaultVars
<1>1. CASE StartJob(v) \/ CommitOriginal(v) \/ RemoveStaging(v) \/ ReuseOriginal(v)
           \/ GiveBack(v) \/ WorkerStops(v)
    <2>1. UNCHANGED <<ver, chunks, active, cited, deleted>>
        BY <1>1 DEF StartJob, CommitOriginal, RemoveStaging, ReuseOriginal, GiveBack, WorkerStops,
            dbVars, indexVars
    <2>2. \A w \in Sources, k \in {"original", "normalized"} :
             <<w, k>> \in objects' <=> <<w, k>> \in objects
        BY <1>1 DEF StartJob, CommitOriginal, RemoveStaging, ReuseOriginal, GiveBack, WorkerStops,
            store, Staging
    <2>3. ServedNow' = ServedNow BY <2>1 DEF ServedNow
    <2> QED BY <2>1, <2>2, <2>3, VaultStutters
<1>2. CASE PutOriginal(v) \/ PutNormalized(v) \/ CommitIndex(v)
    <2>1. ver[v] = "pending"
        BY <1>2 DEF PutOriginal, PutNormalized, CommitIndex, WorkerStep, StorageInv, WorkSound
    <2>2. UNCHANGED <<ver, active, cited, deleted>>
        BY <1>2 DEF PutOriginal, PutNormalized, CommitIndex, dbVars, indexVars
    <2>3. /\ chunks \subseteq chunks' /\ chunks' \subseteq chunks \union {v}
          /\ objects \subseteq objects'
          /\ \A o \in objects' \ objects : o[1] = v
        BY <1>2 DEF PutOriginal, PutNormalized, CommitIndex, indexVars, store
    <2>4. Vault!Build(v) \/ UNCHANGED Vault!vaultVars BY <2>1, <2>2, <2>3, VaultBuilds
    <2> QED BY <2>4 DEF Vault!VaultNext
<1>3. CASE ActivateVersion(v)
    <2> DEFINE d == docOf[v]
    <2>1. /\ ver[v] = "pending" /\ d \in Documents
          /\ d \notin deleted => v \in WholeNow
        <3>1. wpc[v] = "indexed" /\ v \in chunks BY <1>3 DEF ActivateVersion
        <3>2. ver[v] = "pending" BY <3>1 DEF StorageInv, WorkSound
        <3> QED BY <3>1, <3>2 DEF StorageInv, WorkSound, ActiveSound, WholeNow, Whole, Final
    <2>2. /\ active[d] = expected[v] /\ active' = [active EXCEPT ![d] = v]
          /\ ver' = [w \in Sources |-> IF w = v THEN "ready"
                                       ELSE IF w = expected[v] THEN "superseded" ELSE ver[w]]
          /\ UNCHANGED <<objects, chunks, cited, deleted>>
        BY <1>3 DEF ActivateVersion, store, indexVars
    <2>3. expected[v] # NoVersion => ver[expected[v]] = "ready"
        BY <2>1, <2>2 DEF StorageInv, ActiveSound
    <2>4. ServedNow' = ServedNow \union {v}
        BY <2>2, <2>3, ParametersAssumption DEF ServedNow
    <2>5. v \notin ServedNow /\ WholeNow' = WholeNow
        BY <2>1, <2>2 DEF ServedNow, WholeNow, Whole, Final
    <2> HIDE DEF d
    <2>6. Vault!Serve(d, v)
        BY <2>1, <2>2, <2>4, <2>5 DEF Vault!Serve, WholeNow, ServedNow
    <2> QED BY <2>1, <2>6 DEF Vault!VaultNext
<1>4. CASE JobEnds(v)
    <2>1. /\ ver[v] = "pending" /\ ver' = [ver EXCEPT ![v] = "failed"]
          /\ UNCHANGED <<objects, chunks, active, cited, deleted>>
        BY <1>4 DEF JobEnds, store, indexVars
    <2>2. ServedNow' = ServedNow BY <2>1 DEF ServedNow, StorageInv, StorageTypeOK
    <2> QED BY <2>1, <2>2, VaultStutters
<1> QED BY <1>1, <1>2, <1>3, <1>4 DEF Work

\* The sweeper works behind the readers' back.
LEMMA SweepingHidden ==
    ASSUME StorageInv, Sweeping
    PROVE  UNCHANGED Vault!vaultVars
<1>1. UNCHANGED <<ver, chunks, active, cited, deleted>>
    BY DEF Sweeping, ReadRegistry, ListStaging, SweepObject, CommitSweep, SweepDies, dbVars,
        indexVars
<1>2. \A w \in Sources, k \in {"original", "normalized"} :
         <<w, k>> \in objects' <=> <<w, k>> \in objects
    BY DEF Sweeping, ReadRegistry, ListStaging, SweepObject, CommitSweep, SweepDies, store, Staging
<1>3. ServedNow' = ServedNow BY <1>1 DEF ServedNow
<1> QED BY <1>1, <1>2, <1>3, VaultStutters

\* The collector reclaims what nobody is promised.
LEMMA CollectingReclaims ==
    ASSUME StorageInv, Collecting
    PROVE  Vault!VaultNext \/ UNCHANGED Vault!vaultVars
<1>1. UNCHANGED <<ver, active, cited, deleted>>
    BY DEF Collecting, ReadCandidates, ChooseObject, DeleteChosen, DeleteRaises, CommitCollection,
        CollectorDies, dbVars, indexVars
<1>2. CASE DeleteChosen
    <2>1. objects' = objects \ gc.chosen /\ chunks' = chunks BY <1>2 DEF DeleteChosen, indexVars
    <2>2. WholeNow' \subseteq WholeNow BY <2>1 DEF WholeNow, Whole
    <2>3. ASSUME NEW v \in WholeNow, v \notin WholeNow' PROVE Retired(v) /\ v \notin cited
        <3>1. v \in Sources /\ \E k \in {"original", "normalized"} : <<v, k>> \in gc.chosen
            BY <2>1, <2>3 DEF WholeNow, Whole, Final
        <3> QED BY <3>1 DEF StorageInv, CollectionSound, Kinds
    <2> QED BY <1>1, <2>2, <2>3, VaultReclaims DEF Vault!VaultNext
<1>3. CASE CommitCollection
    <2>1. /\ objects' = objects /\ chunks' \subseteq chunks
          /\ \A v \in chunks \ chunks' : v \in gc.versions /\ v \notin cited
        BY <1>3 DEF CommitCollection, store
    <2>2. WholeNow' \subseteq WholeNow BY <2>1 DEF WholeNow, Whole
    <2>3. ASSUME NEW v \in WholeNow, v \notin WholeNow' PROVE Retired(v) /\ v \notin cited
        <3>1. v \in chunks \ chunks' BY <2>1, <2>3 DEF WholeNow, Whole
        <3> QED BY <2>1, <3>1 DEF StorageInv, CollectionSound
    <2> QED BY <1>1, <2>2, <2>3, VaultReclaims DEF Vault!VaultNext
<1>4. CASE objects' = objects /\ chunks' = chunks
    <2>1. ServedNow' = ServedNow BY <1>1 DEF ServedNow
    <2> QED BY <1>1, <1>4, <2>1, VaultStutters
<1> QED BY <1>2, <1>3, <1>4 DEF Collecting, ReadCandidates, ChooseObject, DeleteRaises,
    CollectorDies, store, indexVars

\* Readers and followers of citations see only the steps of SourceVault.
THEOREM StorageRefinesVault == Spec => VaultRefined
<1>1. Init => Vault!VaultInit
    <2> SUFFICES ASSUME Init PROVE Vault!VaultInit OBVIOUS
    <2>1. WholeNow = {} /\ ServedNow = {} BY DEF Init, WholeNow, Whole, ServedNow
    <2> QED BY <2>1 DEF Init, Vault!VaultInit, WholeNow, ServedNow
<1>2. StorageInv /\ [Next]_vars => [Vault!VaultNext]_(Vault!vaultVars)
    <2> SUFFICES ASSUME StorageInv, [Next]_vars
        PROVE Vault!VaultNext \/ UNCHANGED Vault!vaultVars
        OBVIOUS
    <2>1. CASE \E c \in Clients : Acceptance(c) BY <2>1, AcceptanceHidden
    <2>2. CASE \E v \in Sources : Work(v) BY <2>2, WorkBuildsAndServes
    <2>3. CASE \E v \in Sources : GracePasses(v) \/ Retrieve(v) \/ RetentionPasses(v)
        <3>1. UNCHANGED <<ver, objects, chunks, active, cited, deleted>>
            BY <2>3 DEF GracePasses, Retrieve, RetentionPasses, dbVars, store, indexVars
        <3>2. ServedNow' = ServedNow BY <3>1 DEF ServedNow
        <3> QED BY <3>1, <3>2, VaultStutters
    <2>4. CASE \E d \in Documents : DeleteDocument(d)
        <3> PICK d \in Documents : DeleteDocument(d) BY <2>4
        <3>1. deleted' = deleted \union {d} /\ UNCHANGED <<ver, objects, chunks, active, cited>>
            BY DEF DeleteDocument, store, indexVars
        <3>2. ServedNow' = ServedNow /\ WholeNow' = WholeNow
            BY <3>1 DEF ServedNow, WholeNow, Whole, Final
        <3>3. Vault!Withdraw(d) BY <3>1, <3>2 DEF Vault!Withdraw, WholeNow, ServedNow
        <3> QED BY <3>3 DEF Vault!VaultNext
    <2>5. CASE AnswerEnds
        <3>1. /\ reading # NoVersion
              /\ cited' = cited \/ cited' = cited \union {reading}
              /\ UNCHANGED <<ver, objects, chunks, active, deleted>>
            BY <2>5 DEF AnswerEnds, dbVars, store
        <3>2. reading \in Sources /\ Whole(reading)
            BY <3>1 DEF StorageInv, StorageTypeOK, ReadersSound
        <3>3. ServedNow' = ServedNow /\ WholeNow' = WholeNow
            BY <3>1 DEF ServedNow, WholeNow, Whole, Final
        <3>4. Vault!Cite(reading) \/ UNCHANGED Vault!vaultVars
            BY <3>1, <3>2, <3>3 DEF Vault!Cite, Vault!vaultVars, WholeNow, ServedNow
        <3> QED BY <3>2, <3>4 DEF Vault!VaultNext
    <2>6. CASE Sweeping BY <2>6, SweepingHidden
    <2>7. CASE Collecting BY <2>7, CollectingReclaims
    <2>8. CASE UNCHANGED vars
        <3>1. UNCHANGED <<ver, objects, chunks, active, cited, deleted>>
            BY <2>8 DEF vars, dbVars, store, indexVars
        <3>2. ServedNow' = ServedNow BY <3>1 DEF ServedNow
        <3> QED BY <3>1, <3>2, VaultStutters
    <2> QED BY <2>1, <2>2, <2>3, <2>4, <2>5, <2>6, <2>7, <2>8 DEF Next
<1> QED BY <1>1, <1>2, StorageInvariant, PTL DEF Spec, VaultRefined, Vault!VaultSpec

-----------------------------------------------------------------------------
(***************************************************************************)
(* The numbers of a document's versions                                    *)
(***************************************************************************)

\* A request under way holds the number after one that is taken; once flushed
\* it is alone with it.
NumberHeld(c) ==
    /\ req[c].no \in Nat \ {0}
    /\ req[c].no = 1 \/ \E w \in VersionsOf(req[c].doc) : no[w] = req[c].no - 1
    /\ req[c].pc \in {"flushed", "put"} =>
          /\ \A w \in VersionsOf(req[c].doc) : no[w] # req[c].no
          /\ \A other \in Clients \ {c} :
                req[other].pc \in {"flushed", "put"} =>
                    ~(req[other].doc = req[c].doc /\ req[other].no = req[c].no)

NumbersSound ==
    /\ VersionsNumbered
    /\ \A d \in Documents : IsFiniteSet(VersionsOf(d))
    /\ \A c \in Clients : req[c].pc # "idle" => NumberHeld(c)

\* A commit of a flushed request numbers the new version one higher.
LEMMA NumberTaken ==
    ASSUME StorageInv, NumbersSound, NEW c \in Clients, req[c].pc \in {"flushed", "put"},
           NEW status \in VersionStates \ {"none"},
           ver' = [ver EXCEPT ![req[c].src] = status],
           docOf' = [docOf EXCEPT ![req[c].src] = req[c].doc],
           no' = [no EXCEPT ![req[c].src] = req[c].no],
           req' = [req EXCEPT ![c] = Idle]
    PROVE  NumbersSound'
<1> PICK v \in Sources, d \in Documents, n \in Nat :
        req[c].src = v /\ req[c].doc = d /\ req[c].no = n
    BY DEF StorageInv, StorageTypeOK, RequestsSound
<1> DEFINE V == VersionsOf(d)
<1>1. /\ v \in Sources /\ d \in Documents /\ ver[v] = "none"
      /\ ver \in [Sources -> VersionStates] /\ no \in [Sources -> Nat]
      /\ docOf \in [Sources -> Documents \union {NoDocument}]
      /\ DOMAIN req = Clients
    BY DEF StorageInv, StorageTypeOK, RequestsSound
<1>2. NumberHeld(c) BY DEF NumbersSound
<1>3. v \notin V /\ \A e \in Documents : v \notin VersionsOf(e)
    BY <1>1 DEF VersionsOf, Accepted
<1>4. /\ VersionsOf(d)' = V \union {v}
      /\ \A e \in Documents \ {d} : VersionsOf(e)' = VersionsOf(e)
      /\ \A w \in Sources \ {v} : no'[w] = no[w]
      /\ no'[v] = n
    BY <1>1 DEF VersionsOf, Accepted
<1>5. IsFiniteSet(V) /\ {no[w] : w \in V} = 1..Cardinality(V)
    BY <1>1 DEF NumbersSound, VersionsNumbered
<1>6. Cardinality(V) \in Nat BY <1>5, FS_CardinalityType
<1>7. n = Cardinality(V) + 1
    <2>1. n \in Nat \ {0} /\ n \notin {no[w] : w \in V} BY <1>2 DEF NumberHeld
    <2>2. n = 1 \/ n - 1 \in {no[w] : w \in V} BY <1>2 DEF NumberHeld
    <2>3. n \notin 1..Cardinality(V) /\ (n = 1 \/ n - 1 \in 1..Cardinality(V))
        BY <1>5, <2>1, <2>2
    <2> HIDE DEF V
    <2> QED BY <1>6, <2>1, <2>3
<1>8. IsFiniteSet(V \union {v}) /\ Cardinality(V \union {v}) = Cardinality(V) + 1
    BY <1>3, <1>5, FS_AddElement
<1>9. VersionsNumbered'
    <2> SUFFICES ASSUME NEW e \in Documents
        PROVE {no'[w] : w \in VersionsOf(e)'} = 1..Cardinality(VersionsOf(e)')
        BY DEF VersionsNumbered
    <2>1. CASE e = d
        <3>1. {no'[w] : w \in V \union {v}} = {no[w] : w \in V} \union {n}
            BY <1>3, <1>4 DEF VersionsOf, Accepted
        <3> HIDE DEF V
        <3>2. 1..Cardinality(V) \union {Cardinality(V) + 1} = 1..(Cardinality(V) + 1) BY <1>6
        <3> QED BY <1>4, <1>5, <1>7, <1>8, <2>1, <3>1, <3>2
    <2>2. CASE e # d
        <3>1. VersionsOf(e)' = VersionsOf(e) /\ \A w \in VersionsOf(e) : no'[w] = no[w]
            BY <1>3, <1>4, <2>2 DEF VersionsOf, Accepted
        <3>2. {no'[w] : w \in VersionsOf(e)} = {no[w] : w \in VersionsOf(e)} BY <3>1
        <3> QED BY <3>1, <3>2 DEF NumbersSound, VersionsNumbered
    <2> QED BY <2>1, <2>2
<1>10. \A e \in Documents : IsFiniteSet(VersionsOf(e)') BY <1>4, <1>8 DEF NumbersSound
<1>11. ASSUME NEW o \in Clients, req'[o].pc # "idle" PROVE NumberHeld(o)'
    <2>1. o # c /\ req'[o] = req[o] BY <1>1, <1>11 DEF Idle
    <2>2. PICK e \in Documents : req[o].doc = e
        BY <1>11, <2>1 DEF StorageInv, RequestsSound
    <2>3. NumberHeld(o) BY <1>11, <2>1 DEF NumbersSound
    <2>4. /\ VersionsOf(e) \subseteq VersionsOf(e)'
          /\ \A w \in VersionsOf(e) : no'[w] = no[w]
          /\ \A w \in VersionsOf(e)' \ VersionsOf(e) : w = v /\ e = d
        BY <1>3, <1>4 DEF VersionsOf, Accepted
    <2>5. req[o].pc \in {"flushed", "put"} => \A w \in VersionsOf(e)' : no'[w] # req[o].no
        <3> SUFFICES ASSUME req[o].pc \in {"flushed", "put"}, NEW w \in VersionsOf(e)'
            PROVE no'[w] # req[o].no
            OBVIOUS
        <3>1. CASE w \in VersionsOf(e) BY <2>2, <2>3, <2>4, <3>1 DEF NumberHeld
        <3>2. CASE w \notin VersionsOf(e)
            <4>1. w = v /\ e = d BY <2>4, <3>2
            <4>2. req[o].no # n BY <1>2, <2>1, <2>2, <4>1 DEF NumberHeld
            <4> QED BY <1>4, <4>1, <4>2
        <3> QED BY <3>1, <3>2
    <2>6. \A other \in Clients \ {o} : req'[other].pc \in {"flushed", "put"} =>
              req[other].pc \in {"flushed", "put"} /\ req'[other] = req[other]
        BY <1>1 DEF Idle
    <2> QED BY <2>1, <2>2, <2>3, <2>4, <2>5, <2>6 DEF NumberHeld
<1> QED BY <1>9, <1>10, <1>11 DEF NumbersSound

\* Where the versions stay, a request may be forgotten.
LEMMA NumbersStay ==
    ASSUME NumbersSound, UNCHANGED <<docOf, no>>,
           \A v \in Sources : ver'[v] = "none" <=> ver[v] = "none",
           \A c \in Clients : req'[c].pc # "idle" =>
               /\ req'[c].doc = req[c].doc /\ req'[c].no = req[c].no
               /\ req'[c].pc \in {"flushed", "put"} <=> req[c].pc \in {"flushed", "put"}
               /\ req[c].pc # "idle"
    PROVE  NumbersSound'
<1>1. \A d : VersionsOf(d)' = VersionsOf(d) BY DEF VersionsOf, Accepted
<1>2. VersionsNumbered' /\ \A d \in Documents : IsFiniteSet(VersionsOf(d)')
    BY <1>1 DEF NumbersSound, VersionsNumbered
<1>3. ASSUME NEW c \in Clients, req'[c].pc # "idle" PROVE NumberHeld(c)'
    BY <1>1, <1>3 DEF NumbersSound, NumberHeld
<1> QED BY <1>2, <1>3 DEF NumbersSound

\* The requests of overlapping clients.
LEMMA AcceptanceNumbers ==
    ASSUME StorageInv, NumbersSound, NEW c \in Clients, Acceptance(c)
    PROVE  NumbersSound'
<1>1. DOMAIN req = Clients BY DEF StorageInv, StorageTypeOK
<1>2. CASE \E v \in Sources, d \in Documents : ReadForAcceptance(c, v, d)
    <2> PICK v \in Sources, d \in Documents : ReadForAcceptance(c, v, d) BY <1>2
    <2>1. PICK n \in 1..(Cardinality(Sources) + 1) :
             /\ n > 1 => \E w \in VersionsOf(d) : no[w] = n - 1
             /\ req' = [req EXCEPT ![c] = [pc |-> "read", src |-> v, doc |-> d, no |-> n]]
        BY DEF ReadForAcceptance
    <2>2. UNCHANGED <<ver, docOf, no>> BY DEF ReadForAcceptance, dbVars
    <2>3. \A e : VersionsOf(e)' = VersionsOf(e) BY <2>2 DEF VersionsOf, Accepted
    <2>4. VersionsNumbered' /\ \A e \in Documents : IsFiniteSet(VersionsOf(e)')
        BY <2>2, <2>3 DEF NumbersSound, VersionsNumbered
    <2>5. NumberHeld(c)'
        <3>1. /\ req'[c].pc = "read" /\ req'[c].doc = d /\ req'[c].no = n BY <1>1, <2>1
        <3>2. n \in Nat \ {0} /\ (n = 1 \/ n > 1) OBVIOUS
        <3> QED BY <2>1, <2>2, <2>3, <3>1, <3>2 DEF NumberHeld
    <2>6. ASSUME NEW o \in Clients \ {c}, req'[o].pc # "idle" PROVE NumberHeld(o)'
        <3>1. req'[o] = req[o] /\ NumberHeld(o) BY <1>1, <2>1, <2>6 DEF NumbersSound
        <3>2. \A other \in Clients : req'[other].pc \in {"flushed", "put"} => req'[other] = req[other]
            BY <1>1, <2>1
        <3> QED BY <2>2, <2>3, <3>1, <3>2 DEF NumberHeld
    <2> QED BY <2>4, <2>5, <2>6 DEF NumbersSound
<1>3. CASE FlushRows(c)
    <2>1. /\ req[c].pc = "read" /\ UNCHANGED <<ver, docOf, no>>
          /\ req' = [req EXCEPT ![c].pc = "flushed"]
          /\ \A w \in Accepted : ~(req[c].doc = docOf[w] /\ req[c].no = no[w])
          /\ \A other \in Clients \ {c} : req[other].pc \in {"flushed", "put"} =>
                ~(req[c].doc = req[other].doc /\ req[c].no = req[other].no)
        BY <1>3 DEF FlushRows, CommittedCollision, Collide, dbVars
    <2>2. /\ req'[c].pc = "flushed" /\ req'[c].doc = req[c].doc /\ req'[c].no = req[c].no
          /\ \A o \in Clients \ {c} : req'[o] = req[o]
        BY <2>1 DEF StorageInv, StorageTypeOK
    <2>3. \A e : VersionsOf(e)' = VersionsOf(e) BY <2>1 DEF VersionsOf, Accepted
    <2>4. VersionsNumbered' /\ \A e \in Documents : IsFiniteSet(VersionsOf(e)')
        BY <2>1, <2>3 DEF NumbersSound, VersionsNumbered
    <2>5. NumberHeld(c)'
        <3>1. NumberHeld(c) BY <2>1 DEF NumbersSound
        <3>2. \A w \in VersionsOf(req[c].doc) : no[w] # req[c].no BY <2>1 DEF VersionsOf
        <3> QED BY <2>1, <2>2, <2>3, <3>1, <3>2 DEF NumberHeld
    <2>6. ASSUME NEW o \in Clients \ {c}, req'[o].pc # "idle" PROVE NumberHeld(o)'
        <3>1. NumberHeld(o) BY <2>2, <2>6 DEF NumbersSound
        <3> QED BY <2>1, <2>2, <2>3, <3>1 DEF NumberHeld
    <2> QED BY <2>4, <2>5, <2>6 DEF NumbersSound
<1>4. CASE FlushCollides(c) \/ RequestDies(c)
    <2>1. req' = [req EXCEPT ![c] = Idle] /\ UNCHANGED <<ver, docOf, no>>
        BY <1>4 DEF FlushCollides, RequestDies, dbVars
    <2> QED BY <1>1, <2>1, NumbersStay DEF Idle
<1>5. CASE CommitQuarantined(c)
    BY <1>5, NumberTaken DEF CommitQuarantined, VersionStates
<1>6. CASE PutStaging(c)
    <2>1. req' = [req EXCEPT ![c].pc = "put"] /\ req[c].pc = "flushed" /\ UNCHANGED <<ver, docOf, no>>
        BY <1>6 DEF PutStaging, dbVars
    <2>2. \A o \in Clients : /\ req'[o].doc = req[o].doc /\ req'[o].no = req[o].no
                             /\ o # c => req'[o] = req[o]
                             /\ o = c => req'[o].pc = "put"
        BY <2>1 DEF StorageInv, StorageTypeOK
    <2> QED BY <2>1, <2>2, NumbersStay
<1>7. CASE CommitAccepted(c)
    BY <1>7, NumberTaken DEF CommitAccepted, VersionStates
<1> QED BY <1>2, <1>3, <1>4, <1>5, <1>6, <1>7 DEF Acceptance

\* Nobody else makes, renumbers or forgets a version.
LEMMA OthersNumberNothing ==
    ASSUME StorageInv, NumbersSound, [Next]_vars, ~ \E c \in Clients : Acceptance(c)
    PROVE  NumbersSound'
<1>1. UNCHANGED <<docOf, no, req>> /\ \A v \in Sources : ver'[v] = "none" <=> ver[v] = "none"
    <2>1. CASE \E v \in Sources : Work(v)
        <3> PICK v \in Sources : Work(v) BY <2>1
        <3>1. UNCHANGED <<docOf, no, req>>
            BY DEF Work, WorkerStep, StartJob, PutOriginal, CommitOriginal, RemoveStaging,
                ReuseOriginal, PutNormalized, CommitIndex, ActivateVersion, GiveBack, WorkerStops,
                JobEnds, dbVars
        <3>2. CASE ActivateVersion(v)
            <4>1. /\ wpc[v] = "indexed" /\ active[docOf[v]] = expected[v]
                  /\ ver' = [w \in Sources |-> IF w = v THEN "ready"
                                ELSE IF w = expected[v] THEN "superseded" ELSE ver[w]]
                BY <3>2 DEF ActivateVersion
            <4>2. ver[v] = "pending" /\ docOf[v] \in Documents
                BY <4>1 DEF StorageInv, WorkSound, ActiveSound
            <4>3. expected[v] # NoVersion => ver[expected[v]] = "ready"
                BY <4>1, <4>2 DEF StorageInv, ActiveSound
            <4> QED BY <3>1, <4>1, <4>2, <4>3, ParametersAssumption
        <3>3. CASE JobEnds(v)
            BY <3>1, <3>3 DEF JobEnds, StorageInv, StorageTypeOK
        <3>4. CASE ver' = ver BY <3>1, <3>4
        <3> QED BY <3>2, <3>3, <3>4 DEF Work, StartJob, PutOriginal, CommitOriginal, RemoveStaging,
                ReuseOriginal, PutNormalized, CommitIndex, GiveBack, WorkerStops, dbVars
    <2>2. CASE \E v \in Sources : GracePasses(v) \/ Retrieve(v) \/ RetentionPasses(v)
        BY <2>2 DEF GracePasses, Retrieve, RetentionPasses, dbVars
    <2>3. CASE (\E d \in Documents : DeleteDocument(d)) \/ AnswerEnds
        BY <2>3 DEF DeleteDocument, AnswerEnds, dbVars
    <2>4. CASE Sweeping
        BY <2>4 DEF Sweeping, ReadRegistry, ListStaging, SweepObject, CommitSweep, SweepDies, dbVars
    <2>5. CASE Collecting
        BY <2>5 DEF Collecting, ReadCandidates, ChooseObject, DeleteChosen, DeleteRaises,
            CommitCollection, CollectorDies, dbVars
    <2>6. CASE UNCHANGED vars BY <2>6 DEF vars, dbVars
    <2> QED BY <2>1, <2>2, <2>3, <2>4, <2>5, <2>6 DEF Next
<1> QED BY <1>1, NumbersStay

\* The committed versions of a document are numbered 1, 2, 3 ..., whatever
\* requests overlap, collide or die.
THEOREM VersionsAreNumbered == Spec => []VersionsNumbered
<1>1. Init => NumbersSound
    <2> SUFFICES ASSUME Init PROVE NumbersSound OBVIOUS
    <2>1. \A d : VersionsOf(d) = {} BY DEF Init, VersionsOf, Accepted
    <2>2. IsFiniteSet({}) /\ Cardinality({}) = 0 BY FS_EmptySet
    <2>3. VersionsNumbered
        <3>1. 1..0 = {} OBVIOUS
        <3> QED BY <2>1, <2>2, <3>1 DEF VersionsNumbered
    <2> QED BY <2>1, <2>2, <2>3 DEF Init, NumbersSound, Idle
<1>2. StorageInv /\ NumbersSound /\ [Next]_vars => NumbersSound'
    BY AcceptanceNumbers, OthersNumberNothing
<1>3. NumbersSound => VersionsNumbered BY DEF NumbersSound
<1> QED BY <1>1, <1>2, <1>3, StorageInvariant, PTL DEF Spec
=============================================================================

----------------------------- MODULE UploadsProofs -----------------------------
(****************************************************************************)
(* Proofs about Uploads, for any number of intents, contents, keys and      *)
(* overlapping requests, any length of a lease and any life of an intent.   *)
(****************************************************************************)
EXTENDS Uploads, TLAPS

\* The assumptions on the constants.
LEMMA Constants ==
  /\ None \notin Intents /\ None \notin Contents /\ None \notin Keys
  /\ None \notin Requests /\ None \notin Answer
  /\ Verifiable \subseteq Contents
  /\ Lease \in Nat /\ TTL \in Nat
  BY NoneAssumption, ContentAssumption, TimeAssumption

\* What a request has read and copied is still so, although it holds no row
\* between its two transactions.
RequestInv ==
  \A r \in Requests :
    /\ pc[r] # "idle" =>
         /\ intentOf[r] \in Intents /\ keyOf[r] \in Keys
         /\ intents[intentOf[r]].status # "NONE"
    /\ pc[r] \in {"copy", "begin", "register"} =>
         digest[r] \in Verifiable /\ digest[r] = incoming[intentOf[r]]
    /\ pc[r] \in {"begin", "register"} => originals[intentOf[r]] = digest[r]
    /\ pc[r] = "publish" => answer[r] # None

\* Completed records and consumed intents point at each other.
LedgerInv ==
  /\ \A k \in Keys :
       /\ records[k].intent = None =>
            records[k].response = None /\ records[k].owner = None
       /\ records[k].response # None =>
            /\ records[k].intent \in Intents
            /\ intents[records[k].intent].status = "CONSUMED"
            /\ intents[records[k].intent].record = k
  /\ \A i \in Intents : intents[i].status = "CONSUMED" =>
       /\ intents[i].record \in Keys
       /\ records[intents[i].record].intent = i
       /\ records[intents[i].record].response # None

\* A request that has phase 2 open is alone with its intent and its key, and the
\* duplicate it has found is a document.
HolderInv ==
  /\ \A r \in Requests : pc[r] = "register" =>
       /\ intents[intentOf[r]].status = "OPEN"
       /\ records[keyOf[r]].intent = intentOf[r]
       /\ records[keyOf[r]].response = None
       /\ records[keyOf[r]].owner = r
       /\ duplicate[r] # None =>
            \E d \in documents : d.id = duplicate[r] /\ d.content = digest[r]
  /\ \A r, s \in Requests :
       pc[r] = "register" /\ pc[s] = "register" /\ intentOf[r] = intentOf[s]
         => r = s

\* An answer is the response in the completed record of its intent.
AnswerInv ==
  \A r \in Requests : answer[r] # None =>
    /\ pc[r] \in {"publish", "answered", "failed"}
    /\ intents[intentOf[r]].status = "CONSUMED"
    /\ records[intents[intentOf[r]].record].response = answer[r]

\* A document was inserted by a request that has gone on.
InsertedInv ==
  \A d \in documents : pc[d.id] \in {"publish", "answered", "failed"}

DocumentInv ==
  InsertedInv /\ OneRegistration /\ OriginalsKept /\ Repairable /\ DuplicatesTrue

UploadInv ==
  TypeOK /\ RequestInv /\ LedgerInv /\ HolderInv /\ AnswerInv /\ DocumentInv

LEMMA UploadInit == Init => UploadInv
<1> USE Constants
    DEF Init, NoRecord
<1>1. Init => TypeOK
  BY DEF TypeOK
<1>2. Init => RequestInv /\ LedgerInv /\ HolderInv /\ AnswerInv
  BY DEF RequestInv, LedgerInv, HolderInv, AnswerInv
<1>3. Init => DocumentInv
  BY DEF DocumentInv, InsertedInv, OneRegistration, OriginalsKept, Repairable,
         DuplicatesTrue
<1> QED
  BY <1>1, <1>2, <1>3 DEF UploadInv

\* The document a search finds.
LEMMA FoundIs ==
  ASSUME TypeOK, NEW r \in Requests
  PROVE  /\ Found(r) \in Requests \cup {None}
         /\ Found(r) # None =>
              \E d \in documents : d.id = Found(r) /\ d.content = digest[r]
<1>1. CASE Duplicates(r) = {}
  BY <1>1 DEF Found
<1>2. CASE Duplicates(r) # {}
  <2> DEFINE d == CHOOSE e \in Duplicates(r) : TRUE
  <2>1. d \in Duplicates(r)
    BY <1>2
  <2>2. d \in documents /\ d.content = digest[r] /\ d.id \in Requests
    BY <2>1 DEF Duplicates, TypeOK
  <2>3. Found(r) = d.id
    BY <1>2 DEF Found
  <2> QED
    BY <2>2, <2>3
<1> QED
  BY <1>1, <1>2

\* What a commit leaves in its two rows, and what the request answers.
Committed(r, a) ==
  /\ intentOf[r] \in Intents /\ keyOf[r] \in Keys
  /\ records' = [records EXCEPT ![keyOf[r]] =
       [intent |-> records[keyOf[r]].intent, owner |-> None, until |-> 0,
        response |-> a]]
  /\ intents' = [intents EXCEPT ![intentOf[r]] =
       [status |-> "CONSUMED", expires |-> intents[intentOf[r]].expires,
        record |-> keyOf[r]]]
  /\ answer' = [answer EXCEPT ![r] = a]
  /\ \E l \in {"publish", "answered"} : pc' = [pc EXCEPT ![r] = l]
  /\ UNCHANGED <<now, incoming, originals, messages, intentOf, keyOf, start,
                 digest, duplicate>>

LEMMA CommitIs ==
  ASSUME RequestInv, NEW r \in Requests, pc[r] = "register", NEW a, Commit(r, a)
  PROVE  Committed(r, a)
<1>1. intentOf[r] \in Intents /\ keyOf[r] \in Keys
  BY DEF RequestInv
<1> QED
  BY <1>1 DEF Committed, Commit, Completed, Consumed, Reply, Goto, storage

\* Every step keeps the types.
LEMMA TypeStep ==
  ASSUME TypeOK, RequestInv, [Next]_vars
  PROVE  TypeOK'
<1> USE Constants DEF TypeOK, storage, local, Goto
<1>1. CASE UNCHANGED vars
  BY <1>1 DEF vars
<1>2. CASE Tick
  BY <1>2 DEF Tick
<1>3. ASSUME NEW i \in Intents, CreateIntent(i) PROVE TypeOK'
  BY <1>3 DEF CreateIntent
<1>4. ASSUME NEW i \in Intents, NEW c \in Contents, PutObject(i, c) PROVE TypeOK'
  BY <1>4 DEF PutObject
<1>5. ASSUME NEW r \in Requests, NEW i \in Intents, NEW k \in Keys, Receive(r, i, k)
      PROVE  TypeOK'
  BY <1>5 DEF Receive
<1>6. ASSUME NEW r \in Requests, Replay(r) PROVE TypeOK'
  BY <1>6 DEF Replay, Reply, RequestInv
<1>7. ASSUME NEW r \in Requests, Reserve(r) PROVE TypeOK'
  BY <1>7 DEF Reserve, RequestInv
<1>8. ASSUME NEW r \in Requests, VerifyObject(r) PROVE TypeOK'
  BY <1>8 DEF VerifyObject, HeadMatches
<1>9. ASSUME NEW r \in Requests, CopyImmutable(r) PROVE TypeOK'
  BY <1>9 DEF CopyImmutable, RequestInv
<1>10. ASSUME NEW r \in Requests, BeginRegistration(r) PROVE TypeOK'
  BY <1>10, FoundIs DEF BeginRegistration
<1>11. ASSUME NEW r \in Requests, NEW a \in Answer, pc[r] = "register", Commit(r, a),
              documents' \subseteq [id : Requests, intent : Intents, content : Contents]
       PROVE  TypeOK'
  <2> HIDE DEF TypeOK
  <2>1. Committed(r, a)
    BY <1>11, CommitIs
  <2>2. records' \in [Keys -> [intent : Intents \cup {None},
                      owner : Requests \cup {None}, until : Nat,
                      response : Answer \cup {None}]]
    BY <1>11, <2>1 DEF TypeOK, Committed
  <2>3. intents' \in [Intents -> [status : {"NONE", "OPEN", "CONSUMED"},
                      expires : Nat, record : Keys \cup {None}]]
    BY <1>11, <2>1 DEF TypeOK, Committed
  <2> QED
    BY <1>11, <2>1, <2>2, <2>3 DEF TypeOK, Committed
<1>12. ASSUME NEW r \in Requests, Register(r) PROVE TypeOK'
  <2> DEFINE a == [outcome |-> "REGISTERED", document |-> r]
  <2>1. pc[r] = "register" /\ Commit(r, a)
    BY <1>12 DEF Register
  <2>2. a \in Answer
    BY DEF Answer
  <2>3. documents' \subseteq [id : Requests, intent : Intents, content : Contents]
    BY <1>12 DEF Register, NewDocument, RequestInv
  <2> HIDE DEF a
  <2> QED
    BY <2>1, <2>2, <2>3, <1>11
<1>13. ASSUME NEW r \in Requests, RecordDuplicate(r) PROVE TypeOK'
  <2> DEFINE a == [outcome |-> "DUPLICATE", document |-> duplicate[r]]
  <2>1. pc[r] = "register" /\ Commit(r, a) /\ documents' = documents
    BY <1>13 DEF RecordDuplicate
  <2>2. a \in Answer
    BY <1>13 DEF RecordDuplicate, Answer
  <2> HIDE DEF a
  <2> QED
    BY <2>1, <2>2, <1>11
<1>14. ASSUME NEW r \in Requests, Publish(r) PROVE TypeOK'
  BY <1>14 DEF Publish, RequestInv, Answer
<1>15. ASSUME NEW r \in Requests, Fail(r) PROVE TypeOK'
  BY <1>15 DEF Fail
<1> QED
  BY <1>1, <1>2, <1>3, <1>4, <1>5, <1>6, <1>7, <1>8, <1>9, <1>10, <1>12, <1>13,
     <1>14, <1>15 DEF Next, Step

\* The two outcomes of phase 2.
LEMMA RegisterIs ==
  ASSUME TypeOK, RequestInv, NEW r \in Requests, Register(r) \/ RecordDuplicate(r)
  PROVE  \E a \in Answer :
           /\ pc[r] = "register" /\ Committed(r, a)
           /\ \/ /\ duplicate[r] = None /\ Insertable(r)
                 /\ a = [outcome |-> "REGISTERED", document |-> r]
                 /\ documents' = documents \cup
                      {[id |-> r, intent |-> intentOf[r], content |-> digest[r]]}
              \/ /\ duplicate[r] # None
                 /\ a = [outcome |-> "DUPLICATE", document |-> duplicate[r]]
                 /\ documents' = documents
<1>1. CASE Register(r)
  <2> DEFINE a == [outcome |-> "REGISTERED", document |-> r]
  <2>1. a \in Answer /\ a = [outcome |-> "REGISTERED", document |-> r]
    BY DEF Answer
  <2>2. pc[r] = "register" /\ Commit(r, a)
    BY <1>1 DEF Register
  <2> HIDE DEF a
  <2>3. Committed(r, a)
    BY <2>2, CommitIs
  <2> QED
    BY <1>1, <2>1, <2>2, <2>3 DEF Register, NewDocument
<1>2. CASE RecordDuplicate(r)
  <2> DEFINE a == [outcome |-> "DUPLICATE", document |-> duplicate[r]]
  <2>1. a \in Answer /\ a = [outcome |-> "DUPLICATE", document |-> duplicate[r]]
    BY <1>2 DEF RecordDuplicate, Answer, TypeOK
  <2>2. pc[r] = "register" /\ Commit(r, a)
    BY <1>2 DEF RecordDuplicate
  <2> HIDE DEF a
  <2>3. Committed(r, a)
    BY <2>2, CommitIs
  <2> QED
    BY <1>2, <2>1, <2>2, <2>3 DEF RecordDuplicate
<1> QED
  BY <1>1, <1>2

\* A claim takes a key that has no response and that no open transaction holds.
Claimed(r) ==
  /\ intentOf[r] \in Intents /\ keyOf[r] \in Keys
  /\ records[keyOf[r]].response = None
  /\ records[keyOf[r]].owner # None => records[keyOf[r]].until <= now
  /\ records' = [records EXCEPT ![keyOf[r]] =
       [intent |-> intentOf[r], owner |-> r, until |-> start[r] + Lease,
        response |-> None]]
  /\ \A s \in Requests : pc[s] = "register" => keyOf[s] # keyOf[r]
  /\ UNCHANGED <<intents, documents, incoming, originals>>

LEMMA ReserveIs ==
  ASSUME RequestInv, LedgerInv, NEW r \in Requests, Reserve(r)
  PROVE  Claimed(r)
<1>1. intentOf[r] \in Intents /\ keyOf[r] \in Keys
  BY DEF Reserve, RequestInv
<1> QED
  BY <1>1 DEF Claimed, Reserve, Claimable, LedgerInv, RowsFree, KeyFree, storage

\* What a request knows stays true.
LEMMA RequestStep ==
  ASSUME TypeOK, RequestInv, [Next]_vars
  PROVE  RequestInv'
<1> USE Constants DEF TypeOK, RequestInv, storage, local, Goto
<1>1. CASE UNCHANGED vars
  BY <1>1 DEF vars
<1>2. CASE Tick
  BY <1>2 DEF Tick
<1>3. ASSUME NEW i \in Intents, CreateIntent(i) PROVE RequestInv'
  BY <1>3 DEF CreateIntent
<1>4. ASSUME NEW i \in Intents, NEW c \in Contents, PutObject(i, c) PROVE RequestInv'
  BY <1>4 DEF PutObject
<1>5. ASSUME NEW r \in Requests, NEW i \in Intents, NEW k \in Keys, Receive(r, i, k)
      PROVE  RequestInv'
  BY <1>5 DEF Receive
<1>6. ASSUME NEW r \in Requests, Replay(r) PROVE RequestInv'
  BY <1>6 DEF Replay, Reply
<1>7. ASSUME NEW r \in Requests, Reserve(r) PROVE RequestInv'
  BY <1>7 DEF Reserve
<1>8. ASSUME NEW r \in Requests, VerifyObject(r) PROVE RequestInv'
  BY <1>8 DEF VerifyObject, HeadMatches
<1>9. ASSUME NEW r \in Requests, CopyImmutable(r) PROVE RequestInv'
  BY <1>9 DEF CopyImmutable
<1>10. ASSUME NEW r \in Requests, BeginRegistration(r) PROVE RequestInv'
  BY <1>10 DEF BeginRegistration
<1>11. ASSUME NEW r \in Requests, Register(r) \/ RecordDuplicate(r) PROVE RequestInv'
  <2> HIDE DEF TypeOK, RequestInv
  <2>1. PICK a \in Answer : pc[r] = "register" /\ Committed(r, a)
    BY <1>11, RegisterIs
  <2> QED
    BY <2>1 DEF Committed, TypeOK, RequestInv
<1>12. ASSUME NEW r \in Requests, Publish(r) PROVE RequestInv'
  BY <1>12 DEF Publish
<1>13. ASSUME NEW r \in Requests, Fail(r) PROVE RequestInv'
  BY <1>13 DEF Fail
<1> HIDE DEF RequestInv, TypeOK
<1> QED
  BY <1>1, <1>2, <1>3, <1>4, <1>5, <1>6, <1>7, <1>8, <1>9, <1>10, <1>11, <1>12,
     <1>13 DEF Next, Step

\* The steps that touch a row of a table.
LEMMA TableSteps ==
  ASSUME [Next]_vars
  PROVE  \/ UNCHANGED <<intents, records, documents>>
         \/ \E i \in Intents : CreateIntent(i)
         \/ \E r \in Requests : Reserve(r) \/ Register(r) \/ RecordDuplicate(r)
  BY DEF Next, Step, vars, Tick, PutObject, Receive, Replay, VerifyObject,
         CopyImmutable, BeginRegistration, Publish, Fail

LEMMA LedgerStep ==
  ASSUME TypeOK, RequestInv, LedgerInv, HolderInv, [Next]_vars
  PROVE  LedgerInv'
<1> USE Constants DEF TypeOK, LedgerInv
<1>1. CASE UNCHANGED <<intents, records, documents>>
  BY <1>1
<1>2. ASSUME NEW i \in Intents, CreateIntent(i) PROVE LedgerInv'
  BY <1>2 DEF CreateIntent
<1>3. ASSUME NEW r \in Requests, Reserve(r) PROVE LedgerInv'
  <2> HIDE DEF TypeOK, LedgerInv
  <2>1. Claimed(r)
    BY <1>3, ReserveIs
  <2> QED
    BY <2>1 DEF Claimed, TypeOK, LedgerInv
<1>4. ASSUME NEW r \in Requests, Register(r) \/ RecordDuplicate(r) PROVE LedgerInv'
  <2> HIDE DEF TypeOK, LedgerInv
  <2>1. PICK a \in Answer : pc[r] = "register" /\ Committed(r, a)
    BY <1>4, RegisterIs
  <2>2. /\ intents[intentOf[r]].status = "OPEN"
        /\ records[keyOf[r]].intent = intentOf[r]
        /\ records[keyOf[r]].response = None
    BY <2>1 DEF HolderInv
  <2> QED
    BY <2>1, <2>2 DEF Committed, TypeOK, LedgerInv
<1> HIDE DEF LedgerInv, TypeOK
<1> QED
  BY <1>1, <1>2, <1>3, <1>4, TableSteps

\* Whoever has phase 2 open keeps its rows to itself.
LEMMA HolderStep ==
  ASSUME TypeOK, RequestInv, LedgerInv, HolderInv, [Next]_vars
  PROVE  HolderInv'
<1> USE Constants DEF TypeOK, HolderInv, storage, local, Goto
<1>1. CASE UNCHANGED vars
  BY <1>1 DEF vars
<1>2. CASE Tick
  BY <1>2 DEF Tick
<1>3. ASSUME NEW i \in Intents, CreateIntent(i) PROVE HolderInv'
  BY <1>3 DEF CreateIntent, RequestInv
<1>4. ASSUME NEW i \in Intents, NEW c \in Contents, PutObject(i, c) PROVE HolderInv'
  BY <1>4 DEF PutObject
<1>5. ASSUME NEW r \in Requests, NEW i \in Intents, NEW k \in Keys, Receive(r, i, k)
      PROVE  HolderInv'
  BY <1>5 DEF Receive
<1>6. ASSUME NEW r \in Requests, Replay(r) PROVE HolderInv'
  BY <1>6 DEF Replay, Reply
<1>7. ASSUME NEW r \in Requests, Reserve(r) PROVE HolderInv'
  <2> HIDE DEF TypeOK, HolderInv
  <2>1. Claimed(r)
    BY <1>7, ReserveIs
  <2>2. UNCHANGED <<intentOf, keyOf, digest, duplicate>> /\ pc' = [pc EXCEPT ![r] = "verify"]
    BY <1>7 DEF Reserve
  <2> QED
    BY <2>1, <2>2 DEF Claimed, TypeOK, HolderInv, RequestInv
<1>8. ASSUME NEW r \in Requests, VerifyObject(r) PROVE HolderInv'
  BY <1>8 DEF VerifyObject, HeadMatches
<1>9. ASSUME NEW r \in Requests, CopyImmutable(r) PROVE HolderInv'
  BY <1>9 DEF CopyImmutable
<1>10. ASSUME NEW r \in Requests, BeginRegistration(r) PROVE HolderInv'
  <2>1. intents[intentOf[r]].status = "OPEN"
    BY <1>10 DEF BeginRegistration, StillOpen, RequestInv
  <2>2. Found(r) # None =>
          \E d \in documents : d.id = Found(r) /\ d.content = digest[r]
    BY FoundIs
  <2> QED
    BY <1>10, <2>1, <2>2 DEF BeginRegistration, RowsFree, IntentFree
<1>11. ASSUME NEW r \in Requests, Register(r) \/ RecordDuplicate(r) PROVE HolderInv'
  <2> HIDE DEF TypeOK, HolderInv
  <2>1. PICK a \in Answer : /\ pc[r] = "register" /\ Committed(r, a)
                            /\ documents \subseteq documents'
    BY <1>11, RegisterIs
  <2>2. ASSUME NEW s \in Requests, pc'[s] = "register"
        PROVE  s # r /\ pc[s] = "register"
    BY <2>1, <2>2 DEF Committed, TypeOK
  <2>3. ASSUME NEW s \in Requests, pc'[s] = "register"
        PROVE  /\ intentOf[s] # intentOf[r] /\ keyOf[s] # keyOf[r]
               /\ intentOf[s] \in Intents /\ keyOf[s] \in Keys
    BY <2>1, <2>2, <2>3 DEF HolderInv, RequestInv
  <2> QED
    BY <2>1, <2>2, <2>3 DEF Committed, TypeOK, HolderInv
<1>12. ASSUME NEW r \in Requests, Publish(r) PROVE HolderInv'
  BY <1>12 DEF Publish
<1>13. ASSUME NEW r \in Requests, Fail(r) PROVE HolderInv'
  BY <1>13 DEF Fail
<1> HIDE DEF HolderInv, TypeOK
<1> QED
  BY <1>1, <1>2, <1>3, <1>4, <1>5, <1>6, <1>7, <1>8, <1>9, <1>10, <1>11, <1>12,
     <1>13 DEF Next, Step

\* An answer that was given stays the response of its intent.
LEMMA AnswerStep ==
  ASSUME TypeOK, RequestInv, LedgerInv, HolderInv, AnswerInv, [Next]_vars
  PROVE  AnswerInv'
<1> USE Constants DEF TypeOK, AnswerInv, storage, local, Goto
<1>1. CASE UNCHANGED vars
  BY <1>1 DEF vars
<1>2. CASE Tick
  BY <1>2 DEF Tick
<1>3. ASSUME NEW i \in Intents, CreateIntent(i) PROVE AnswerInv'
  BY <1>3 DEF CreateIntent, RequestInv
<1>4. ASSUME NEW i \in Intents, NEW c \in Contents, PutObject(i, c) PROVE AnswerInv'
  BY <1>4 DEF PutObject
<1>5. ASSUME NEW r \in Requests, NEW i \in Intents, NEW k \in Keys, Receive(r, i, k)
      PROVE  AnswerInv'
  BY <1>5 DEF Receive
<1>6. ASSUME NEW r \in Requests, Replay(r) PROVE AnswerInv'
  BY <1>6 DEF Replay, Reply, RequestInv, LedgerInv
<1>7. ASSUME NEW r \in Requests, Reserve(r) PROVE AnswerInv'
  <2> HIDE DEF TypeOK, AnswerInv
  <2>1. Claimed(r)
    BY <1>7, ReserveIs
  <2>2. UNCHANGED <<intentOf, answer>> /\ pc' = [pc EXCEPT ![r] = "verify"]
        /\ pc[r] = "reserve"
    BY <1>7 DEF Reserve, Goto
  <2> QED
    BY <2>1, <2>2 DEF Claimed, TypeOK, AnswerInv, RequestInv, LedgerInv
<1>8. ASSUME NEW r \in Requests, VerifyObject(r) PROVE AnswerInv'
  BY <1>8 DEF VerifyObject, HeadMatches
<1>9. ASSUME NEW r \in Requests, CopyImmutable(r) PROVE AnswerInv'
  BY <1>9 DEF CopyImmutable
<1>10. ASSUME NEW r \in Requests, BeginRegistration(r) PROVE AnswerInv'
  BY <1>10 DEF BeginRegistration
<1>11. ASSUME NEW r \in Requests, Register(r) \/ RecordDuplicate(r) PROVE AnswerInv'
  <2> HIDE DEF TypeOK, AnswerInv
  <2>1. PICK a \in Answer : pc[r] = "register" /\ Committed(r, a)
    BY <1>11, RegisterIs
  <2>2. /\ intents[intentOf[r]].status = "OPEN"
        /\ records[keyOf[r]].response = None
    BY <2>1 DEF HolderInv
  <2>3. ASSUME NEW s \in Requests, answer[s] # None, s # r
        PROVE  /\ intentOf[s] \in Intents /\ intentOf[s] # intentOf[r]
               /\ intents[intentOf[s]].record \in Keys
               /\ intents[intentOf[s]].record # keyOf[r]
    BY <2>2, <2>3 DEF AnswerInv, RequestInv, LedgerInv
  <2> QED
    BY <2>1, <2>2, <2>3 DEF Committed, TypeOK, AnswerInv
<1>12. ASSUME NEW r \in Requests, Publish(r) PROVE AnswerInv'
  BY <1>12 DEF Publish
<1>13. ASSUME NEW r \in Requests, Fail(r) PROVE AnswerInv'
  BY <1>13 DEF Fail
<1> HIDE DEF AnswerInv, TypeOK
<1> QED
  BY <1>1, <1>2, <1>3, <1>4, <1>5, <1>6, <1>7, <1>8, <1>9, <1>10, <1>11, <1>12,
     <1>13 DEF Next, Step

\* The request that inserted a document never inserts again.
LEMMA InsertedStep ==
  ASSUME TypeOK, RequestInv, InsertedInv, [Next]_vars
  PROVE  InsertedInv'
<1>1. ASSUME NEW r \in Requests, Register(r) \/ RecordDuplicate(r) PROVE InsertedInv'
  <2>1. PICK a \in Answer :
          /\ pc[r] = "register" /\ Committed(r, a)
          /\ documents' \subseteq documents \cup
               {[id |-> r, intent |-> intentOf[r], content |-> digest[r]]}
    BY <1>1, RegisterIs
  <2> QED
    BY <2>1 DEF Committed, TypeOK, InsertedInv
<1>2. ASSUME ~ \E r \in Requests : Register(r) \/ RecordDuplicate(r)
      PROVE  /\ documents' = documents
             /\ \A r \in Requests : pc[r] \in {"publish", "answered", "failed"}
                  => pc'[r] \in {"publish", "answered", "failed"}
  BY <1>2, ZenonT(60) DEF Next, Step, vars, local, TypeOK, Goto, Tick, CreateIntent, PutObject,
              Receive, Replay, Reply, Reserve, VerifyObject, CopyImmutable,
              BeginRegistration, Publish, Fail
<1> QED
  BY <1>1, <1>2 DEF InsertedInv, TypeOK

\* The unique indexes and the lock on the intent keep registrations apart.
LEMMA OneStep ==
  ASSUME TypeOK, RequestInv, InsertedInv, OneRegistration, [Next]_vars
  PROVE  OneRegistration'
<1>1. CASE documents' = documents
  BY <1>1 DEF OneRegistration
<1>2. ASSUME NEW r \in Requests, Register(r) \/ RecordDuplicate(r)
      PROVE  OneRegistration'
  <2>1. PICK a \in Answer :
          /\ pc[r] = "register"
          /\ \/ /\ Insertable(r)
                /\ documents' = documents \cup
                     {[id |-> r, intent |-> intentOf[r], content |-> digest[r]]}
             \/ documents' = documents
    BY <1>2, RegisterIs
  <2> QED
    BY <2>1 DEF OneRegistration, Insertable, InsertedInv
<1>3. CASE \E i \in Intents : CreateIntent(i)
  BY <1>1, <1>3 DEF CreateIntent
<1>4. CASE \E r \in Requests : Reserve(r)
  BY <1>1, <1>4 DEF Reserve
<1> QED
  BY <1>1, <1>2, <1>3, <1>4, TableSteps

\* Storage is written once per key.
LEMMA StorageStep ==
  ASSUME TypeOK, RequestInv, [Next]_vars
  PROVE  \A i \in Intents :
           /\ incoming[i] # None => incoming'[i] = incoming[i]
           /\ originals[i] # None => originals'[i] = originals[i]
<1>1. CASE UNCHANGED <<incoming, originals>>
  BY <1>1
<1>2. CASE \E i \in Intents, c \in Contents : PutObject(i, c)
  BY <1>2 DEF PutObject, TypeOK
<1>3. CASE \E r \in Requests : CopyImmutable(r)
  BY <1>3 DEF CopyImmutable, TypeOK
<1> QED
  BY <1>1, <1>2, <1>3 DEF Next, Step, vars, storage, Tick, CreateIntent, Receive,
     Replay, Reserve, VerifyObject, BeginRegistration, Register, RecordDuplicate,
     Commit, Publish, Fail

LEMMA OriginalsStep ==
  ASSUME TypeOK, RequestInv, OriginalsKept, [Next]_vars
  PROVE  OriginalsKept'
<1>1. \A d \in documents : originals'[d.intent] = d.content /\ d.content \in Verifiable
  BY StorageStep, Constants DEF OriginalsKept, TypeOK
<1>2. ASSUME NEW r \in Requests, Register(r) \/ RecordDuplicate(r)
      PROVE  OriginalsKept'
  <2>1. PICK a \in Answer :
          /\ pc[r] = "register" /\ Committed(r, a)
          /\ documents' \subseteq documents \cup
               {[id |-> r, intent |-> intentOf[r], content |-> digest[r]]}
    BY <1>2, RegisterIs
  <2>2. originals' = originals
    BY <2>1 DEF Committed
  <2>3. originals[intentOf[r]] = digest[r] /\ digest[r] \in Verifiable
    BY <2>1 DEF RequestInv
  <2> QED
    BY <1>1, <2>1, <2>2, <2>3 DEF OriginalsKept
<1>3. ASSUME documents' = documents PROVE OriginalsKept'
  BY <1>1, <1>3 DEF OriginalsKept
<1>4. CASE \E i \in Intents : CreateIntent(i)
  BY <1>3, <1>4 DEF CreateIntent
<1>5. CASE \E r \in Requests : Reserve(r)
  BY <1>3, <1>5 DEF Reserve
<1> QED
  BY <1>2, <1>3, <1>4, <1>5, TableSteps

\* What is settled in the tables stays as it is.
LEMMA SettledStep ==
  ASSUME TypeOK, RequestInv, LedgerInv, HolderInv, [Next]_vars
  PROVE  /\ \A k \in Keys : records[k].response # None => records'[k] = records[k]
         /\ \A i \in Intents : intents[i].status = "CONSUMED" => intents'[i] = intents[i]
         /\ documents \subseteq documents'
<1> DEFINE Goal ==
      /\ \A k \in Keys : records[k].response # None => records'[k] = records[k]
      /\ \A i \in Intents : intents[i].status = "CONSUMED" => intents'[i] = intents[i]
      /\ documents \subseteq documents'
<1>1. CASE UNCHANGED <<intents, records, documents>>
  BY <1>1
<1>2. ASSUME NEW i \in Intents, CreateIntent(i) PROVE Goal
  BY <1>2 DEF CreateIntent, TypeOK
<1>3. ASSUME NEW r \in Requests, Reserve(r) PROVE Goal
  <2>1. Claimed(r)
    BY <1>3, ReserveIs
  <2> QED
    BY <2>1 DEF Claimed, TypeOK
<1>4. ASSUME NEW r \in Requests, Register(r) \/ RecordDuplicate(r) PROVE Goal
  <2>1. PICK a \in Answer : /\ pc[r] = "register" /\ Committed(r, a)
                            /\ documents \subseteq documents'
    BY <1>4, RegisterIs
  <2>2. intents[intentOf[r]].status = "OPEN" /\ records[keyOf[r]].response = None
    BY <2>1 DEF HolderInv
  <2> QED
    BY <2>1, <2>2 DEF Committed, TypeOK
<1> QED
  BY <1>1, <1>2, <1>3, <1>4, TableSteps

\* The record of a registration is never lost.
LEMMA RepairableStep ==
  ASSUME TypeOK, RequestInv, LedgerInv, HolderInv, Repairable, [Next]_vars
  PROVE  Repairable'
<1> DEFINE Kept(d) ==
      \E k \in Keys :
        /\ intents'[d.intent].record = k
        /\ records'[k].intent = d.intent
        /\ records'[k].response = [outcome |-> "REGISTERED", document |-> d.id]
<1>1. ASSUME NEW d \in documents PROVE Kept(d)
  <2>1. d.intent \in Intents /\ d.id \in Requests
    BY DEF TypeOK
  <2>2. PICK k \in Keys :
          /\ intents[d.intent].record = k
          /\ records[k].intent = d.intent
          /\ records[k].response = [outcome |-> "REGISTERED", document |-> d.id]
    BY DEF Repairable
  <2>3. records[k].response # None
    BY <2>1, <2>2, Constants DEF Answer
  <2>4. intents[d.intent].status = "CONSUMED"
    BY <2>2, <2>3 DEF LedgerInv
  <2> QED
    BY <2>4, <2>1, <2>2, <2>3, SettledStep
<1>2. ASSUME NEW r \in Requests, Register(r) \/ RecordDuplicate(r) PROVE Repairable'
  <2>1. PICK a \in Answer :
          /\ pc[r] = "register" /\ Committed(r, a)
          /\ \/ /\ a = [outcome |-> "REGISTERED", document |-> r]
                /\ documents' = documents \cup
                     {[id |-> r, intent |-> intentOf[r], content |-> digest[r]]}
             \/ documents' = documents
    BY <1>2, RegisterIs
  <2>2. records[keyOf[r]].intent = intentOf[r]
    BY <2>1 DEF HolderInv
  <2>3. a = [outcome |-> "REGISTERED", document |-> r] =>
          Kept([id |-> r, intent |-> intentOf[r], content |-> digest[r]])
    BY <2>1, <2>2 DEF Committed, TypeOK
  <2>4. \A d \in documents' : Kept(d)
    BY <1>1, <2>1, <2>3
  <2> QED
    BY <2>4 DEF Repairable
<1>3. ASSUME documents' = documents PROVE Repairable'
  BY <1>1, <1>3 DEF Repairable
<1>4. CASE \E i \in Intents : CreateIntent(i)
  BY <1>3, <1>4 DEF CreateIntent
<1>5. CASE \E r \in Requests : Reserve(r)
  BY <1>3, <1>5 DEF Reserve
<1> QED
  BY <1>2, <1>3, <1>4, <1>5, TableSteps

\* What was called a duplicate stays one.
LEMMA DuplicatesStep ==
  ASSUME TypeOK, RequestInv, LedgerInv, HolderInv, Repairable, DuplicatesTrue, [Next]_vars
  PROVE  DuplicatesTrue'
<1> DEFINE True(k, d) ==
      /\ d.id = records'[k].response.document
      /\ d.content = incoming'[records'[k].intent]
      /\ d.intent # records'[k].intent
<1>1. ASSUME NEW k \in Keys, records'[k] = records[k], records[k].response # None,
             records[k].response.outcome = "DUPLICATE"
      PROVE  \E d \in documents' : True(k, d)
  <2>1. PICK d \in documents :
          /\ d.id = records[k].response.document
          /\ d.content = incoming[records[k].intent]
          /\ d.intent # records[k].intent
    BY <1>1 DEF DuplicatesTrue
  <2>2. records[k].intent \in Intents /\ d.content \in Contents
    BY <1>1 DEF LedgerInv, TypeOK
  <2>3. incoming'[records[k].intent] = incoming[records[k].intent]
    BY <2>1, <2>2, StorageStep, Constants
  <2> QED
    BY <1>1, <2>1, <2>3, SettledStep
<1>2. ASSUME UNCHANGED records PROVE DuplicatesTrue'
  BY <1>1, <1>2 DEF DuplicatesTrue
<1>3. ASSUME NEW r \in Requests, Reserve(r) PROVE DuplicatesTrue'
  <2>1. Claimed(r)
    BY <1>3, ReserveIs
  <2>2. \A k \in Keys : records'[k].response # None => records'[k] = records[k]
    BY <2>1 DEF Claimed, TypeOK
  <2> QED
    BY <1>1, <2>2 DEF DuplicatesTrue
<1>4. ASSUME NEW r \in Requests, Register(r) \/ RecordDuplicate(r)
      PROVE  DuplicatesTrue'
  <2>1. PICK a \in Answer :
          /\ pc[r] = "register" /\ Committed(r, a)
          /\ \/ a = [outcome |-> "REGISTERED", document |-> r]
             \/ /\ duplicate[r] # None
                /\ a = [outcome |-> "DUPLICATE", document |-> duplicate[r]]
                /\ documents' = documents
    BY <1>4, RegisterIs
  <2>2. \A k \in Keys \ {keyOf[r]} : records'[k] = records[k]
    BY <2>1 DEF Committed, TypeOK
  <2>3. records'[keyOf[r]].response = a /\ records'[keyOf[r]].intent = intentOf[r]
    BY <2>1 DEF Committed, TypeOK, HolderInv
  <2>4. ASSUME a.outcome = "DUPLICATE"
        PROVE  \E d \in documents' : True(keyOf[r], d)
    <3>1. /\ duplicate[r] # None /\ documents' = documents
          /\ a.document = duplicate[r]
      BY <2>1, <2>4
    <3>2. PICK d \in documents : d.id = duplicate[r] /\ d.content = digest[r]
      BY <2>1, <3>1 DEF HolderInv
    <3>3. incoming'[intentOf[r]] = digest[r]
      BY <2>1 DEF Committed, RequestInv
    <3>4. intents[intentOf[r]].status = "OPEN"
      BY <2>1 DEF HolderInv
    <3>5. intents[d.intent].status = "CONSUMED"
      <4>1. d.id \in Requests /\ d.intent \in Intents
        BY DEF TypeOK
      <4>2. PICK k \in Keys :
              /\ records[k].intent = d.intent
              /\ records[k].response = [outcome |-> "REGISTERED", document |-> d.id]
        BY DEF Repairable
      <4>3. records[k].response # None
        BY <4>1, <4>2, Constants DEF Answer
      <4> QED
        BY <4>2, <4>3 DEF LedgerInv
    <3> QED
      BY <2>3, <3>1, <3>2, <3>3, <3>4, <3>5
  <2> QED
    BY <1>1, <2>2, <2>3, <2>4 DEF DuplicatesTrue
<1>5. CASE \E i \in Intents : CreateIntent(i)
  BY <1>2, <1>5 DEF CreateIntent
<1> QED
  BY <1>2, <1>3, <1>4, <1>5, TableSteps

\* The inductive invariant: requests, leases, locks, records and documents agree
\* in every reachable state.
THEOREM UploadInductive == Spec => []UploadInv
<1>1. Init => UploadInv
  BY UploadInit
<1>2. UploadInv /\ [Next]_vars => UploadInv'
  <2> SUFFICES ASSUME UploadInv, [Next]_vars PROVE UploadInv'
    OBVIOUS
  <2> USE DEF UploadInv, DocumentInv
  <2>1. TypeOK' /\ RequestInv'
    BY TypeStep, RequestStep
  <2>2. LedgerInv' /\ HolderInv' /\ AnswerInv'
    BY LedgerStep, HolderStep, AnswerStep
  <2>3. InsertedInv' /\ OneRegistration' /\ OriginalsKept'
    BY InsertedStep, OneStep, OriginalsStep
  <2>4. Repairable' /\ DuplicatesTrue'
    BY RepairableStep, DuplicatesStep
  <2> QED
    BY <2>4, <2>1, <2>2, <2>3
<1> QED
  BY <1>1, <1>2, PTL DEF Spec

\* Requests, leases, idempotency records, intents and documents keep their types.
THEOREM TypeCorrect == Spec => []TypeOK
<1>1. UploadInv => TypeOK
  BY DEF UploadInv
<1> QED
  BY UploadInductive, <1>1, PTL

\* However requests, keys, expired leases and intents race, an intent registers
\* one document at most and the same bytes are registered once.
THEOREM RegisteredOnce == Spec => []OneRegistration
<1>1. UploadInv => OneRegistration
  BY DEF UploadInv, DocumentInv
<1> QED
  BY UploadInductive, <1>1, PTL

\* All successful answers about an intent are equal: completion is idempotent
\* across retries, across keys and across crashes.
THEOREM CompletionIdempotent == Spec => []AnswersAgree
<1>1. UploadInv => AnswersAgree
  BY DEF UploadInv, AnswerInv, AnswersAgree
<1> QED
  BY UploadInductive, <1>1, PTL

\* A registered document has its verified bytes in the immutable bucket, also when
\* copies and registrations fail half way and are retried.
THEOREM OriginalsSafe == Spec => []OriginalsKept
<1>1. UploadInv => OriginalsKept
  BY DEF UploadInv, DocumentInv
<1> QED
  BY UploadInductive, <1>1, PTL

\* A registration whose queue message was lost can be replayed with its key.
THEOREM RegistrationReplayable == Spec => []Repairable
<1>1. UploadInv => Repairable
  BY DEF UploadInv, DocumentInv
<1> QED
  BY UploadInductive, <1>1, PTL

\* What is answered as a duplicate has the bytes of a document registered from
\* another intent.
THEOREM DuplicatesSound == Spec => []DuplicatesTrue
<1>1. UploadInv => DuplicatesTrue
  BY DEF UploadInv, DocumentInv
<1> QED
  BY UploadInductive, <1>1, PTL

\* Completed records, consumed intents, originals and documents are final.
THEOREM SettledForever == Spec => Settled
<1>1. UploadInv /\ [Next]_vars =>
        [/\ \A k \in Keys : records[k].response # None => records'[k] = records[k]
         /\ \A i \in Intents : intents[i].status = "CONSUMED" => intents'[i] = intents[i]
         /\ \A i \in Intents : originals[i] # None => originals'[i] = originals[i]
         /\ documents \subseteq documents']_vars
  BY SettledStep, StorageStep DEF UploadInv
<1> QED
  BY UploadInductive, <1>1, PTL DEF Spec, Settled

\* Nobody takes a key whose lease is running.
THEOREM LeaseRespected == Spec => LeaseKept
<1>1. ASSUME UploadInv, [Next]_vars, NEW k \in Keys,
             records[k].owner # None, records[k].until > now
      PROVE  records'[k].owner \in {records[k].owner, None}
  <2> USE <1>1 DEF UploadInv
  <2>1. CASE UNCHANGED records
    BY <2>1
  <2>2. ASSUME NEW r \in Requests, Reserve(r)
        PROVE  records'[k].owner \in {records[k].owner, None}
    <3>1. Claimed(r)
      BY <2>2, ReserveIs
    <3>2. keyOf[r] # k
      BY <3>1 DEF Claimed, TypeOK
    <3> QED
      BY <3>1, <3>2 DEF Claimed, TypeOK
  <2>3. ASSUME NEW r \in Requests, Register(r) \/ RecordDuplicate(r)
        PROVE  records'[k].owner \in {records[k].owner, None}
    <3>1. PICK a \in Answer : Committed(r, a)
      BY <2>3, RegisterIs
    <3> QED
      BY <3>1 DEF Committed, TypeOK
  <2>4. CASE \E i \in Intents : CreateIntent(i)
    BY <2>1, <2>4 DEF CreateIntent
  <2> QED
    BY <2>4, <2>1, <2>2, <2>3, TableSteps
<1>2. UploadInv /\ [Next]_vars =>
        [\A k \in Keys : records[k].owner # None /\ records[k].until > now
           => records'[k].owner \in {records[k].owner, None}]_vars
  BY <1>1
<1> QED
  BY UploadInductive, <1>2, PTL DEF Spec, LeaseKept
================================================================================

-------------------------------- MODULE Uploads --------------------------------
(****************************************************************************)
(* The registration of uploaded documents in one credit case                *)
(* (application/use_cases/create_upload_intent.py,                          *)
(* complete_upload_intent.py and api/uploads.py). The officer opens an      *)
(* upload intent, the browser puts the bytes into Storage, and a completion *)
(* request verifies them, copies them to an immutable key and registers one *)
(* document and one ingestion task. A completion is two transactions with   *)
(* Storage calls between them and a queue send after them; an idempotency   *)
(* record with a lease holds them together.                                 *)
(*                                                                          *)
(* All requests come from the officer the case is assigned to: nobody else  *)
(* finds the intent. A document, its version and its task are one record    *)
(* here, identified by the request that inserts them.                       *)
(****************************************************************************)
EXTENDS Naturals

CONSTANTS
  Intents,    \* upload intents of the case
  Contents,   \* what the bytes of an object may be (their SHA-256)
  Verifiable, \* the contents with the declared size, type and checksum
  Keys,       \* values of the Idempotency-Key header
  Requests,   \* completion requests; each is also the lease_owner it draws
  None,       \* SQL null
  Lease,      \* _IDEMPOTENCY_LEASE
  TTL,        \* UPLOAD_INTENT_TTL
  MaxTime     \* bound on the clock

\* What a completion returns, and what its idempotency record keeps.
Answer == [outcome : {"REGISTERED", "DUPLICATE"}, document : Requests]

ASSUME NoneAssumption ==
  None \notin Intents \cup Contents \cup Keys \cup Requests \cup Answer
ASSUME ContentAssumption == Verifiable \subseteq Contents
ASSUME TimeAssumption == Lease \in Nat \ {0} /\ TTL \in Nat \ {0} /\ MaxTime \in Nat

VARIABLES
  now,       \* the clock of the API and of the database
  intents,   \* upload_intents: status, expires_at, completion record
  incoming,  \* creditops-incoming: the bytes at the key of an intent
  originals, \* creditops-originals: the bytes at the key of an intent
  records,   \* idempotency_records by key
  documents, \* document_versions with their processing_tasks
  messages,  \* tasks that have been sent to the queue
  pc,        \* where each request is
  intentOf,  \* the intent it completes
  keyOf,     \* its Idempotency-Key
  start,     \* the time it read first
  digest,    \* the SHA-256 it computed
  duplicate, \* the document with that SHA-256 it found
  answer     \* what it returns

storage == <<incoming, originals>>
local == <<pc, intentOf, keyOf, start, digest, duplicate, answer>>
vars == <<now, intents, storage, records, documents, messages, local>>

NoRecord == [intent |-> None, owner |-> None, until |-> 0, response |-> None]

TypeOK ==
  /\ now \in Nat
  /\ intents \in [Intents -> [status : {"NONE", "OPEN", "CONSUMED"},
                              expires : Nat, record : Keys \cup {None}]]
  /\ incoming \in [Intents -> Contents \cup {None}]
  /\ originals \in [Intents -> Contents \cup {None}]
  /\ records \in [Keys -> [intent : Intents \cup {None},
                           owner : Requests \cup {None}, until : Nat,
                           response : Answer \cup {None}]]
  /\ documents \subseteq [id : Requests, intent : Intents, content : Contents]
  /\ messages \subseteq Requests
  /\ pc \in [Requests -> {"idle", "reserve", "verify", "copy", "begin",
                          "register", "publish", "answered", "failed"}]
  /\ intentOf \in [Requests -> Intents \cup {None}]
  /\ keyOf \in [Requests -> Keys \cup {None}]
  /\ start \in [Requests -> Nat]
  /\ digest \in [Requests -> Contents \cup {None}]
  /\ duplicate \in [Requests -> Requests \cup {None}]
  /\ answer \in [Requests -> Answer \cup {None}]

Init ==
  /\ now = 0
  /\ intents = [i \in Intents |-> [status |-> "NONE", expires |-> 0, record |-> None]]
  /\ incoming = [i \in Intents |-> None]
  /\ originals = [i \in Intents |-> None]
  /\ records = [k \in Keys |-> NoRecord]
  /\ documents = {}
  /\ messages = {}
  /\ pc = [r \in Requests |-> "idle"]
  /\ intentOf = [r \in Requests |-> None]
  /\ keyOf = [r \in Requests |-> None]
  /\ start = [r \in Requests |-> 0]
  /\ digest = [r \in Requests |-> None]
  /\ duplicate = [r \in Requests |-> None]
  /\ answer = [r \in Requests |-> None]
--------------------------------------------------------------------------------
(* Environment: the clock, the officer's browser and Storage.               *)

Tick ==
  /\ now < MaxTime
  /\ now' = now + 1
  /\ UNCHANGED <<intents, storage, records, documents, messages, local>>

\* CreateUploadIntent.execute: the intent row, and a signed upload for its key.
CreateIntent(i) ==
  /\ intents[i].status = "NONE"
  /\ intents' = [intents EXCEPT ![i] =
       [status |-> "OPEN", expires |-> now + TTL, record |-> None]]
  /\ UNCHANGED <<now, storage, records, documents, messages, local>>

\* The signed upload is made without upsert: an object is written once.
PutObject(i, c) ==
  /\ intents[i].status # "NONE"
  /\ incoming[i] = None
  /\ incoming' = [incoming EXCEPT ![i] = c]
  /\ UNCHANGED <<now, intents, originals, records, documents, messages, local>>
--------------------------------------------------------------------------------
(* One completion request.  get_intent and find_idempotency lock their      *)
(* rows, so a transaction that is open ("register") holds both.             *)

IntentFree(i) == \A s \in Requests : pc[s] = "register" => intentOf[s] # i
KeyFree(k) == \A s \in Requests : pc[s] = "register" => keyOf[s] # k
RowsFree(r) == IntentFree(intentOf[r]) /\ KeyFree(keyOf[r])

Goto(r, l) == pc' = [pc EXCEPT ![r] = l]

\* A request arrives; it reads the clock before it waits for any row.
Receive(r, i, k) ==
  /\ pc[r] = "idle"
  /\ intents[i].status # "NONE"
  /\ Goto(r, "reserve")
  /\ intentOf' = [intentOf EXCEPT ![r] = i]
  /\ keyOf' = [keyOf EXCEPT ![r] = k]
  /\ start' = [start EXCEPT ![r] = now]
  /\ UNCHANGED <<now, intents, storage, records, documents, messages,
                 digest, duplicate, answer>>

\* The answer goes out; only a registration has a task to send to the queue.
Reply(r, a) ==
  /\ answer' = [answer EXCEPT ![r] = a]
  /\ Goto(r, IF a.outcome = "REGISTERED" THEN "publish" ELSE "answered")

\* Phase 1, when the key already has the answer for this intent.
Replay(r) ==
  /\ pc[r] = "reserve"
  /\ RowsFree(r)
  /\ records[keyOf[r]].intent = intentOf[r]
  /\ records[keyOf[r]].response # None
  /\ Reply(r, records[keyOf[r]].response)
  /\ UNCHANGED <<now, intents, storage, records, documents, messages,
                 intentOf, keyOf, start, digest, duplicate>>

\* A fresh key, or a key of this intent whose lease has run out by the time the
\* request read and by the database's.
Claimable(r, rec) ==
  \/ rec.intent = None
  \/ /\ rec.intent = intentOf[r]
     /\ rec.response = None
     /\ rec.until <= start[r]
     /\ rec.until <= now

\* Phase 1 otherwise: claim the lease of the key.  A consumed or expired intent
\* raises after the claim and rolls it back.
Reserve(r) ==
  /\ pc[r] = "reserve"
  /\ RowsFree(r)
  /\ Claimable(r, records[keyOf[r]])
  /\ intents[intentOf[r]].status = "OPEN"
  /\ intents[intentOf[r]].expires > start[r]
  /\ records' = [records EXCEPT ![keyOf[r]] =
       [intent |-> intentOf[r], owner |-> r, until |-> start[r] + Lease, response |-> None]]
  /\ Goto(r, "verify")
  /\ UNCHANGED <<now, intents, storage, documents, messages,
                 intentOf, keyOf, start, digest, duplicate, answer>>

\* head_object finds the object with the declared size, type and checksum.
HeadMatches(i) == incoming[i] \in Verifiable

\* head_object and the streamed SHA-256 of the incoming object.
VerifyObject(r) ==
  /\ pc[r] = "verify"
  /\ HeadMatches(intentOf[r])
  /\ digest' = [digest EXCEPT ![r] = incoming[intentOf[r]]]
  /\ Goto(r, "copy")
  /\ UNCHANGED <<now, intents, storage, records, documents, messages,
                 intentOf, keyOf, start, duplicate, answer>>

\* copy_immutable: accept an original that is there already, else copy; either
\* way the original must have the digest.
CopyImmutable(r) ==
  /\ pc[r] = "copy"
  /\ LET i == intentOf[r]
         original == IF originals[i] = None THEN incoming[i] ELSE originals[i]
     IN  /\ original = digest[r]
         /\ originals' = [originals EXCEPT ![i] = original]
  /\ Goto(r, "begin")
  /\ UNCHANGED <<now, intents, incoming, records, documents, messages,
                 intentOf, keyOf, start, digest, duplicate, answer>>

\* Mutant of StillOpen: phase 2 trusts the intent it read in phase 1.
StillOpenStale(r) == intents[intentOf[r]].expires > now

\* Phase 2 reads the intent again.
StillOpen(r) ==
  /\ intents[intentOf[r]].status # "CONSUMED"
  /\ intents[intentOf[r]].expires > now

\* Mutant of Duplicates: the search forgets the content.
DuplicatesAny(r) == documents

Duplicates(r) == {d \in documents : d.content = digest[r]}

\* Mutant of Found: the row is taken for the identifier in it.
FoundRow(r) ==
  IF Duplicates(r) = {} THEN None ELSE CHOOSE d \in Duplicates(r) : TRUE

\* find_duplicate_document.
Found(r) ==
  IF Duplicates(r) = {} THEN None ELSE (CHOOSE d \in Duplicates(r) : TRUE).id

\* Phase 2, up to the search for a duplicate: the transaction stays open.
BeginRegistration(r) ==
  LET rec == records[keyOf[r]] IN
  /\ pc[r] = "begin"
  /\ RowsFree(r)
  /\ StillOpen(r)
  /\ rec.intent = intentOf[r]
  /\ rec.response = None
  /\ rec.owner = r
  /\ rec.until > now
  /\ duplicate' = [duplicate EXCEPT ![r] = Found(r)]
  /\ Goto(r, "register")
  /\ UNCHANGED <<now, intents, storage, records, documents, messages,
                 intentOf, keyOf, start, digest, answer>>

\* Mutant of Insertable: no unique index on the content of a case.
InsertableTwice(r) == \A d \in documents : d.intent # intentOf[r]

\* The two unique indexes: one live version per content of the case, one task
\* UPLOAD:{intent} per intent.
Insertable(r) ==
  \A d \in documents : d.content # digest[r] /\ d.intent # intentOf[r]

\* Mutant of Completed: the record is left without its response.
CompletedBlank(r, a) ==
  [intent |-> records[keyOf[r]].intent, owner |-> None, until |-> 0, response |-> None]

\* complete_idempotency: the response replaces the lease.
Completed(r, a) ==
  [intent |-> records[keyOf[r]].intent, owner |-> None, until |-> 0, response |-> a]

\* consume_intent.
Consumed(r) ==
  [status |-> "CONSUMED", expires |-> intents[intentOf[r]].expires, record |-> keyOf[r]]

\* The end of phase 2 for either outcome.  complete_idempotency updates nothing
\* once the lease has run out, and the trigger on upload_intents then refuses
\* the consumption: the transaction commits only under a live lease.
Commit(r, a) ==
  /\ records[keyOf[r]].until > now
  /\ records' = [records EXCEPT ![keyOf[r]] = Completed(r, a)]
  /\ intents' = [intents EXCEPT ![intentOf[r]] = Consumed(r)]
  /\ Reply(r, a)
  /\ UNCHANGED <<now, storage, messages, intentOf, keyOf, start, digest, duplicate>>

\* register_verified_upload: the document, its first version and its task.
NewDocument(r) == [id |-> r, intent |-> intentOf[r], content |-> digest[r]]

Register(r) ==
  /\ pc[r] = "register"
  /\ duplicate[r] = None
  /\ Insertable(r)
  /\ documents' = documents \cup {NewDocument(r)}
  /\ Commit(r, [outcome |-> "REGISTERED", document |-> r])

RecordDuplicate(r) ==
  /\ pc[r] = "register"
  /\ duplicate[r] # None
  /\ Commit(r, [outcome |-> "DUPLICATE", document |-> duplicate[r]])
  /\ UNCHANGED documents

\* _enqueue_registered_task, after the commit.
Publish(r) ==
  /\ pc[r] = "publish"
  /\ messages' = messages \cup {answer[r].document}
  /\ Goto(r, "answered")
  /\ UNCHANGED <<now, intents, storage, records, documents,
                 intentOf, keyOf, start, digest, duplicate, answer>>

\* A refusal, a Storage, database or queue error, or the end of the process: the
\* open transaction is rolled back, what was committed or copied stays.  The
\* lease of the key, if there is one, runs on.
Fail(r) ==
  /\ pc[r] \notin {"idle", "answered", "failed"}
  /\ Goto(r, "failed")
  /\ UNCHANGED <<now, intents, storage, records, documents, messages,
                 intentOf, keyOf, start, digest, duplicate, answer>>

Step(r) ==
  \/ Replay(r) \/ Reserve(r) \/ VerifyObject(r) \/ CopyImmutable(r)
  \/ BeginRegistration(r) \/ Register(r) \/ RecordDuplicate(r) \/ Publish(r)
  \/ Fail(r)

Next ==
  \/ Tick
  \/ \E i \in Intents : CreateIntent(i)
  \/ \E i \in Intents, c \in Contents : PutObject(i, c)
  \/ \E r \in Requests, i \in Intents, k \in Keys : Receive(r, i, k)
  \/ \E r \in Requests : Step(r)

Spec == Init /\ [][Next]_vars
--------------------------------------------------------------------------------
\* An intent registers at most one document, and the same bytes are registered
\* at most once in the case, however many requests, keys, expired leases and
\* intents race for it.
OneRegistration ==
  \A d, e \in documents : d # e =>
    d.content # e.content /\ d.intent # e.intent /\ d.id # e.id

\* Every successful answer to a completion of an intent is the same answer:
\* retries, replays and requests under other keys never contradict each other.
AnswersAgree ==
  \A r, s \in Requests :
    answer[r] # None /\ answer[s] # None /\ intentOf[r] = intentOf[s] =>
      answer[r] = answer[s]

\* A registered document has its verified bytes under the immutable key of its
\* intent.
OriginalsKept ==
  \A d \in documents :
    originals[d.intent] = d.content /\ d.content \in Verifiable

\* A registered task whose message was never sent (the process ended after the
\* commit, or the queue refused) can still be sent: the completed record of its
\* intent replays the registration to a retry with the same key.
Repairable ==
  \A d \in documents : \E k \in Keys :
    /\ intents[d.intent].record = k
    /\ records[k].intent = d.intent
    /\ records[k].response = [outcome |-> "REGISTERED", document |-> d.id]

\* An upload is called a duplicate only of a registered document with the same
\* bytes, registered from another intent.
DuplicatesTrue ==
  \A k \in Keys : records[k].response # None /\ records[k].response.outcome = "DUPLICATE" =>
    \E d \in documents :
      /\ d.id = records[k].response.document
      /\ d.content = incoming[records[k].intent]
      /\ d.intent # records[k].intent

\* Nothing that was settled is ever taken back: completed records, consumed
\* intents and originals keep their values, documents stay.
Settled ==
  [][/\ \A k \in Keys : records[k].response # None => records'[k] = records[k]
     /\ \A i \in Intents : intents[i].status = "CONSUMED" => intents'[i] = intents[i]
     /\ \A i \in Intents : originals[i] # None => originals'[i] = originals[i]
     /\ documents \subseteq documents']_vars

\* While the lease of a key runs, no other request takes the key from the one
\* that verifies under it.
LeaseKept ==
  [][\A k \in Keys :
       records[k].owner # None /\ records[k].until > now
         => records'[k].owner \in {records[k].owner, None}]_vars
================================================================================

-------------------------- MODULE ContractPipeline --------------------------
(***************************************************************************)
(* Contracts: ContractService (Upload, DeleteContract, UpdateContract,     *)
(* GetFile) over the object store, the contracts and ingestion_jobs tables *)
(* and the queue ingestion.jobs.  Every call to a store is a step of its   *)
(* own.  Publish is taken as what QueueClient is shown to implement, an    *)
(* at-most-once queue; the ingestion worker, and the operator who sends    *)
(* failed jobs again, are the environment.                                 *)
(*                                                                         *)
(* A contract stands for the Upload that creates it: its id, and with it   *)
(* its file's path, is fresh.  The membership checks of the other requests  *)
(* refuse one before it changes anything and are left out; Upload has none.*)
(*                                                                         *)
(* An operator marked "Faulty" is a plausible bug in the one after it; it  *)
(* serves to test the properties, and no specification uses it.            *)
(***************************************************************************)
EXTENDS Naturals

CONSTANTS
    Contracts, Requests, NoContract,
    Faults          \* may store calls fail, clients leave and servers crash?

ASSUME NoContractAssumption == NoContract \notin Contracts
ASSUME FaultsAssumption == Faults \in BOOLEAN

VARIABLES
    upload,     \* where the Upload of each contract is
    file,       \* the contracts whose file is in the object store
    row,        \* contracts.status, or "none"
    job,        \* ingestion_jobs.status, or "none"
    message,    \* the IngestionMessage of each contract, as AtMostOnceQueue has it
    req,        \* the state of every other request
    \* History, read by the properties alone:
    broken,     \* the contracts that met a fault
    kept        \* the contracts whose file a DeleteContract could not remove

vars == <<upload, file, row, job, message, req, broken, kept>>

Broker == INSTANCE AtMostOnceQueue WITH Messages <- Contracts, status <- message

UploadPCs == {"new", "put", "insertRow", "insertJob", "publish", "created", "failed"}
RowStates == {"none", "uploaded", "processing", "ready", "failed"}
JobStates == {"none", "pending", "running", "completed", "failed"}
RequestPCs ==
    {"idle", "findAgain", "getObject", "updateRow", "badUpdate", "removeFile", "removeRow"}
Answers == {"none", "ok", "notFound", "serverError"}
RequestStates ==
    [pc : RequestPCs, contract : Contracts \union {NoContract}, answer : Answers]

TypeOK ==
    /\ upload \in [Contracts -> UploadPCs]
    /\ file \subseteq Contracts
    /\ row \in [Contracts -> RowStates]
    /\ job \in [Contracts -> JobStates]
    /\ message \in [Contracts -> Broker!Statuses]
    /\ req \in [Requests -> RequestStates]
    /\ broken \subseteq Contracts
    /\ kept \subseteq Contracts

Init ==
    /\ upload = [c \in Contracts |-> "new"]
    /\ file = {}
    /\ row = [c \in Contracts |-> "none"]
    /\ job = [c \in Contracts |-> "none"]
    /\ Broker!Init
    /\ req = [r \in Requests |-> [pc |-> "idle", contract |-> NoContract, answer |-> "none"]]
    /\ broken = {}
    /\ kept = {}

-----------------------------------------------------------------------------
UploadAt(c, pc) == upload[c] = pc
UploadTo(c, pc) == upload' = [upload EXCEPT ![c] = pc]
Exists(c) == row[c] # "none"

\* POST /contracts arrives with a PDF.
Arrive(c) ==
    /\ UploadAt(c, "new")
    /\ UploadTo(c, "put")
    /\ UNCHANGED <<file, row, job, message, req, broken, kept>>

\* 1. Store the file.
PutFile(c) ==
    /\ UploadAt(c, "put")
    /\ file' = file \union {c}
    /\ UploadTo(c, "insertRow")
    /\ UNCHANGED <<row, job, message, req, broken, kept>>

\* 2. Create the contract record.
CreateContract(c) ==
    /\ UploadAt(c, "insertRow")
    /\ row' = [row EXCEPT ![c] = "uploaded"]
    /\ UploadTo(c, "insertJob")
    /\ UNCHANGED <<file, job, message, req, broken, kept>>

\* Faulty: no foreign key.
CreateJobAnyway(c) ==
    /\ UploadAt(c, "insertJob")
    /\ job' = [job EXCEPT ![c] = "pending"]
    /\ UploadTo(c, "publish")
    /\ UNCHANGED <<file, row, message, req, broken, kept>>

\* 3. Create the ingestion job, which references the contract.
CreateIngestionJob(c) ==
    /\ UploadAt(c, "insertJob")
    /\ IF Exists(c)
       THEN job' = [job EXCEPT ![c] = "pending"] /\ UploadTo(c, "publish")
       ELSE UploadTo(c, "failed") /\ UNCHANGED job
    /\ UNCHANGED <<file, row, message, req, broken, kept>>

\* 4. Enqueue the ingestion message.
Publish(c) ==
    /\ UploadAt(c, "publish")
    /\ Broker!Send(c)
    /\ UploadTo(c, "created")
    /\ UNCHANGED <<file, row, job, req, broken, kept>>

\* Faulty: the error of Publish is ignored.
CreateAnyway(c) ==
    /\ Faults
    /\ UploadAt(c, "publish")
    /\ Broker!Refuse(c)
    /\ UploadTo(c, "created")
    /\ UNCHANGED <<file, row, job, req, broken, kept>>

\* Faulty: an error for a message that was written.
SendAndFail(c) ==
    /\ Faults
    /\ UploadAt(c, "publish")
    /\ Broker!Send(c)
    /\ UploadTo(c, "failed")
    /\ broken' = broken \union {c}
    /\ UNCHANGED <<file, row, job, req, kept>>

\* Publish returns an error; file, row and job stay as they are.
PublishFails(c) ==
    /\ Faults
    /\ UploadAt(c, "publish")
    /\ Broker!Refuse(c)
    /\ UploadTo(c, "failed")
    /\ broken' = broken \union {c}
    /\ UNCHANGED <<file, row, job, req, kept>>

\* Faulty: the error of Put is ignored.
CarryOn(c) ==
    /\ Faults
    /\ UploadAt(c, "put")
    /\ UploadTo(c, "insertRow")
    /\ UNCHANGED <<file, row, job, message, req, broken, kept>>

\* A step of Upload returns an error (the insert does so for an organization
\* that does not exist, too), or its server stops before it: nothing of what
\* it has done is undone.
UploadFails(c) ==
    /\ Faults
    /\ upload[c] \in {"put", "insertRow", "insertJob", "publish"}
    /\ UploadTo(c, "failed")
    /\ broken' = broken \union {c}
    /\ UNCHANGED <<file, row, job, message, req, kept>>

-----------------------------------------------------------------------------
At(r, pc) == req[r].pc = pc
Target(r) == req[r].contract
Goto(r, pc) == req' = [req EXCEPT ![r].pc = pc]
Answer(r, a) == req' = [req EXCEPT ![r].pc = "idle", ![r].answer = a]

\* DeleteContract, UpdateContract and GetFile begin with FindContractByID.
Find(r, c, next) ==
    /\ At(r, "idle")
    /\ req' = [req EXCEPT ![r] =
                IF Exists(c)
                THEN [pc |-> next, contract |-> c, answer |-> "none"]
                ELSE [pc |-> "idle", contract |-> c, answer |-> "notFound"]]
    /\ UNCHANGED <<upload, file, row, job, message, broken, kept>>

\* Faulty: the file is not removed.
DeleteRowOnly(r, c) == Find(r, c, "removeRow")

StartDelete(r, c) == Find(r, c, "removeFile")
\* badUpdate: it sets no field, or a date that does not parse.
StartUpdate(r, c) == Find(r, c, "updateRow") \/ Find(r, c, "badUpdate")
StartGetFile(r, c) == Find(r, c, "findAgain")

\* Faulty: the row stays.
RemoveFileOnly(r) ==
    /\ At(r, "removeFile")
    /\ file' = file \ {Target(r)}
    /\ Answer(r, "ok")
    /\ UNCHANGED <<upload, row, job, message, broken, kept>>

\* DeleteContract: the file first, whatever comes of it ("best-effort").
RemoveFile(r) ==
    /\ At(r, "removeFile")
    /\ \/ file' = file \ {Target(r)} /\ UNCHANGED <<broken, kept>>
       \/ /\ Faults
          /\ broken' = broken \union {Target(r)}
          /\ kept' = kept \union {Target(r)}
          /\ UNCHANGED file
    /\ Goto(r, "removeRow")
    /\ UNCHANGED <<upload, row, job, message>>

\* ... then the row, and with it the jobs; it is an error if there is none.
DropRow(c) ==
    /\ row' = [row EXCEPT ![c] = "none"]
    /\ job' = [job EXCEPT ![c] = "none"]
RemoveRow(r) ==
    /\ At(r, "removeRow")
    /\ IF Exists(Target(r))
       THEN DropRow(Target(r)) /\ Answer(r, "ok")
       ELSE Answer(r, "serverError") /\ UNCHANGED <<row, job>>
    /\ UNCHANGED <<upload, file, message, broken, kept>>

\* Faulty: what was read is written back whole, status included.
WriteBack(r) ==
    /\ At(r, "updateRow")
    /\ row' = [row EXCEPT ![Target(r)] = "uploaded"]
    /\ Answer(r, "ok")
    /\ UNCHANGED <<upload, file, job, message, broken, kept>>

\* UpdateContract: an UPDATE ... RETURNING that fails if the row is gone.
UpdateRow(r) ==
    /\ At(r, "updateRow")
    /\ Answer(r, IF Exists(Target(r)) THEN "ok" ELSE "serverError")
    /\ UNCHANGED <<upload, file, row, job, message, broken, kept>>

\* ... and before it is tried if the request is bad; the answer is the same.
RefuseUpdate(r) ==
    /\ At(r, "badUpdate")
    /\ Answer(r, "serverError")
    /\ UNCHANGED <<upload, file, row, job, message, broken, kept>>

\* GetFile: the service looks for the contract a second time; the handler
\* turns every error of the service into the same answer.
FindAgain(r) ==
    /\ At(r, "findAgain")
    /\ IF Exists(Target(r)) THEN Goto(r, "getObject") ELSE Answer(r, "serverError")
    /\ UNCHANGED <<upload, file, row, job, message, broken, kept>>

GetObject(r) ==
    /\ At(r, "getObject")
    /\ Answer(r, IF Target(r) \in file THEN "ok" ELSE "serverError")
    /\ UNCHANGED <<upload, file, row, job, message, broken, kept>>

\* A call of the request returns an error, with or without effect, or its
\* server stops before it.
RequestFails(r) ==
    /\ Faults
    /\ ~At(r, "idle")
    /\ \/ At(r, "removeRow") /\ DropRow(Target(r))
       \/ UNCHANGED <<row, job>>
    /\ Answer(r, "serverError")
    /\ broken' = broken \union {Target(r)}
    /\ UNCHANGED <<upload, file, message, kept>>

-----------------------------------------------------------------------------
\* RabbitMQ stores or loses what was published.
BrokerStep ==
    /\ \E c \in Contracts : Broker!Store({c}) \/ (Faults /\ Broker!Lose({c}))
    /\ UNCHANGED <<upload, file, row, job, req, broken, kept>>

SetStatus(c, ofJob, ofRow) ==
    /\ job' = [job EXCEPT ![c] = ofJob]
    /\ row' = [row EXCEPT ![c] = ofRow]

\* The ingestion worker takes a message and works on the job it names; without
\* the file it can only fail, and the message of a failed job is dead-lettered.
Work(c) ==
    /\ message[c] = "queued"
    /\ \/ job[c] \in {"pending", "failed"} /\ SetStatus(c, "running", "processing")
          /\ UNCHANGED message
       \/ job[c] = "running" /\ c \in file /\ SetStatus(c, "completed", "ready")
          /\ UNCHANGED message
       \/ job[c] = "running" /\ SetStatus(c, "failed", "failed") /\ Broker!DeadLetter(c)
    /\ UNCHANGED <<upload, file, req, broken, kept>>

\* A failed job is sent again.
Redrive(c) ==
    /\ Broker!Redrive(c)
    /\ UNCHANGED <<upload, file, row, job, req, broken, kept>>

UploadStep(c) ==
    \/ PutFile(c) \/ CreateContract(c) \/ CreateIngestionJob(c)
    \/ Publish(c) \/ PublishFails(c) \/ UploadFails(c)

RequestStep(r) ==
    \/ RemoveFile(r) \/ RemoveRow(r) \/ UpdateRow(r) \/ RefuseUpdate(r)
    \/ FindAgain(r) \/ GetObject(r) \/ RequestFails(r)

Next ==
    \/ \E c \in Contracts : Arrive(c) \/ UploadStep(c) \/ Work(c) \/ Redrive(c)
    \/ \E r \in Requests, c \in Contracts :
        StartDelete(r, c) \/ StartUpdate(r, c) \/ StartGetFile(r, c)
    \/ \E r \in Requests : RequestStep(r)
    \/ BrokerStep

Spec == Init /\ [][Next]_vars

\* Requests run until they return, the broker stores what it got and the
\* worker serves its queue; nobody has to send a failed job again.
FairSpec ==
    /\ Spec
    /\ \A c \in Contracts : WF_vars(UploadStep(c)) /\ WF_vars(Work(c))
    /\ \A r \in Requests : WF_vars(RequestStep(r))
    /\ WF_vars(BrokerStep)

-----------------------------------------------------------------------------
(* Properties *)

\* A contract that is listed has its file, unless a deletion is between its
\* two steps or was cut short there.
ListedHasFile ==
    \A c \in Contracts : Exists(c) /\ c \notin file =>
        \/ \E r \in Requests : At(r, "removeRow") /\ Target(r) = c
        \/ c \in broken

\* A file without a contract is the beginning or the remains of a failed
\* upload, or one that a deletion could not remove: no deletion, whatever it
\* races with, leaves a file behind that the object store agreed to delete.
FileHasContract ==
    \A c \in file : ~Exists(c) =>
        \/ UploadAt(c, "insertRow")
        \/ UploadAt(c, "failed") /\ c \in broken
        \/ c \in kept

\* Jobs belong to contracts, and a job that waits without a message to bring it
\* a worker is about to be enqueued, belongs to a failed upload, or its message
\* was lost; a failed one is in the queue's dead letters.
JobIsExplained ==
    \A c \in Contracts : job[c] # "none" =>
        /\ Exists(c)
        /\ job[c] = "pending" /\ message[c] \notin {"transit", "queued"} =>
            UploadAt(c, "publish") \/ UploadAt(c, "failed") \/ message[c] = "lost"
        /\ job[c] = "failed" => Broker!Stored(c)

\* The contract of an upload that was answered with an error is never
\* processed: uploading it again does not have the work done twice.
FailedIsNeverProcessed ==
    \A c \in Contracts : UploadAt(c, "failed") =>
        job[c] \in {"none", "pending"} /\ row[c] \in {"none", "uploaded"}

\* A request is answered with 500 only if something failed, a concurrent
\* deletion got ahead of it or it was a bad update: never a good request for a
\* contract that is there and stays.
ServerErrorIsExplained ==
    [][\A r \in Requests : req'[r].answer = "serverError" =>
        \/ req[r].answer = "serverError"
        \/ Target(r) \in broken' \/ At(r, "badUpdate")
        \/ ~Exists(Target(r))
        \/ \E s \in Requests \ {r} : At(s, "removeRow") /\ Target(s) = Target(r)]_vars

\* Whatever races or fails, a contract appears once, is processed again only if
\* it failed and somebody sent it again, and does not come back after its
\* deletion: neither an update nor the worker that meets a deletion, nor a retry
\* that comes late, sets its status back.
Stage(c) ==
    IF Exists(c) THEN row[c]
    ELSE IF upload[c] \in {"new", "put", "insertRow"} THEN "absent" ELSE "gone"
Lifecycle == INSTANCE ContractLifecycle WITH stage <- [c \in Contracts |-> Stage(c)]
ImplementsLifecycle == Lifecycle!Spec

\* A contract whose upload was accepted is processed, unless its message is
\* lost or it is deleted.
AcceptedIsProcessed ==
    \A c \in Contracts : UploadAt(c, "created") ~>
        job[c] \in {"completed", "failed"} \/ message[c] = "lost" \/ ~Exists(c)
=============================================================================

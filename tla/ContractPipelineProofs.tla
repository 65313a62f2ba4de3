----------------------- MODULE ContractPipelineProofs -----------------------
(***************************************************************************)
(* Proofs about ContractPipeline, for any number of contracts and of       *)
(* requests about them, and whatever fails.                                *)
(***************************************************************************)
EXTENDS ContractPipeline, TLAPS

USE NoContractAssumption, FaultsAssumption DEF Broker!Sent, Broker!Stored

Past == {"insertJob", "publish", "created", "failed"}

\* The row, the job and the message of an upload appear in this order, only an
\* upload that returned success has a message, and the row keeps step with the job.
UploadSound(c) ==
    /\ upload[c] \in {"new", "put"} => c \notin file
    /\ upload[c] = "insertRow" => c \in file
    /\ Exists(c) => upload[c] \in Past
    /\ job[c] # "none" => Exists(c) /\ upload[c] \in Past \ {"insertJob"}
    /\ upload[c] = "created" <=> Broker!Sent(c)
    /\ job[c] \notin {"none", "pending"} => Broker!Stored(c)
    /\ row[c] \notin {"none", "uploaded"} => Broker!Stored(c)
    /\ job[c] = "pending" => row[c] = "uploaded"
    /\ job[c] = "running" => row[c] = "processing"
    /\ job[c] = "failed" => row[c] = "failed"

\* The properties, of one contract each.
Listed(c) ==
    Exists(c) /\ c \notin file =>
        c \in broken \/ \E r \in Requests : At(r, "removeRow") /\ Target(r) = c
FileOwned(c) ==
    c \in file /\ ~Exists(c) =>
        UploadAt(c, "insertRow") \/ (UploadAt(c, "failed") /\ c \in broken) \/ c \in kept
JobWaits(c) ==
    job[c] = "pending" /\ message[c] \notin {"transit", "queued"} =>
        UploadAt(c, "publish") \/ UploadAt(c, "failed") \/ message[c] = "lost"

ContractSound(c) == UploadSound(c) /\ Listed(c) /\ FileOwned(c) /\ JobWaits(c)

\* A request works on a contract that was there, and a deletion comes to the row
\* when the file is gone, unless the object store kept it.
RequestSound(r) ==
    ~At(r, "idle") =>
        /\ Target(r) \in Contracts
        /\ upload[Target(r)] \in Past
        /\ At(r, "removeRow") => Target(r) \notin file \/ Target(r) \in kept

IInv ==
    /\ TypeOK
    /\ \A c \in Contracts : ContractSound(c)
    /\ \A r \in Requests : RequestSound(r)

LEMMA IInvInit == Init => IInv
<1> SUFFICES ASSUME Init PROVE IInv
  OBVIOUS
<1>1. TypeOK
  BY DEF Init, TypeOK, UploadPCs, RowStates, JobStates, RequestStates, RequestPCs, Answers,
      Broker!Statuses, Broker!Init
<1>2. \A c \in Contracts : ContractSound(c)
  BY DEF Init, Broker!Init, ContractSound, UploadSound, Listed, FileOwned, JobWaits, Exists
<1>3. \A r \in Requests : RequestSound(r)
  BY DEF Init, RequestSound, At
<1>4. QED BY <1>1, <1>2, <1>3 DEF IInv

-----------------------------------------------------------------------------
\* A step of one upload, its broker or its worker keeps the invariant if it
\* leaves the other contracts and the requests alone.
LEMMA OneContract ==
    ASSUME IInv, TypeOK', NEW c \in Contracts, ContractSound(c)',
           \A x \in Contracts \ {c} :
               /\ upload'[x] = upload[x] /\ row'[x] = row[x] /\ job'[x] = job[x]
               /\ message'[x] = message[x]
               /\ (x \in file <=> x \in file') /\ (x \in broken <=> x \in broken'),
           UNCHANGED <<req, kept>>,
           upload[c] \in Past => upload'[c] \in Past /\ (c \in file <=> c \in file')
    PROVE  IInv'
<1>1. ASSUME NEW x \in Contracts PROVE ContractSound(x)'
  <2>1. CASE x = c
    BY <2>1
  <2>2. CASE x # c
    BY <2>2 DEF IInv, ContractSound, UploadSound, Listed, FileOwned, JobWaits, Exists,
        UploadAt, At, Target
  <2>3. QED BY <2>1, <2>2
<1>2. ASSUME NEW r \in Requests PROVE RequestSound(r)'
  BY DEF IInv, RequestSound, At, Target
<1>3. QED BY <1>1, <1>2 DEF IInv

\* What the helpers do to the state of a request.
LEMMA AnswerEffect ==
    ASSUME TypeOK, NEW r \in Requests, NEW a \in Answers, Answer(r, a)
    PROVE  /\ req' \in [Requests -> RequestStates]
           /\ req'[r].pc = "idle" /\ req'[r].contract = Target(r) /\ req'[r].answer = a
           /\ \A s \in Requests \ {r} : req'[s] = req[s]
BY DEF TypeOK, Answer, Target, RequestStates, RequestPCs

LEMMA GotoEffect ==
    ASSUME TypeOK, NEW r \in Requests, NEW pc \in RequestPCs, Goto(r, pc)
    PROVE  /\ req' \in [Requests -> RequestStates]
           /\ req'[r].pc = pc /\ req'[r].contract = Target(r)
           /\ req'[r].answer = req[r].answer
           /\ \A s \in Requests \ {r} : req'[s] = req[s]
BY DEF TypeOK, Goto, Target, RequestStates

\* A step of a request that is not removing anything keeps the invariant.
LEMMA QuietRequest ==
    ASSUME IInv, NEW r \in Requests, req' \in [Requests -> RequestStates],
           \A s \in Requests \ {r} : req'[s] = req[s],
           ~At(r, "removeRow"), ~At(r, "removeRow")', RequestSound(r)',
           UNCHANGED <<upload, file, row, job, message, broken, kept>>
    PROVE  IInv'
<1>1. ASSUME NEW c \in Contracts PROVE ContractSound(c)'
  BY DEF IInv, ContractSound, UploadSound, Listed, FileOwned, JobWaits, Exists, UploadAt,
      At, Target
<1>2. ASSUME NEW s \in Requests PROVE RequestSound(s)'
  <2>1. CASE s = r
    BY <2>1
  <2>2. CASE s # r
    BY <2>2 DEF IInv, RequestSound, At, Target
  <2>3. QED BY <2>1, <2>2
<1>3. QED BY <1>1, <1>2 DEF IInv, TypeOK

\* Removing a row whose file is gone or kept.
LEMMA DropRowSound ==
    ASSUME IInv, NEW r \in Requests, At(r, "removeRow"), DropRow(Target(r)),
           NEW a \in Answers, Answer(r, a),
           broken' = broken \/ broken' = broken \union {Target(r)},
           UNCHANGED <<upload, file, message, kept>>
    PROVE  IInv'
<1>1. /\ Target(r) \in Contracts
      /\ Target(r) \notin file \/ Target(r) \in kept
  BY DEF IInv, RequestSound, At
<1>2. /\ req' \in [Requests -> RequestStates] /\ req'[r].pc = "idle"
      /\ \A s \in Requests \ {r} : req'[s] = req[s]
  BY AnswerEffect DEF IInv
<1>3. /\ row'[Target(r)] = "none" /\ job'[Target(r)] = "none"
      /\ \A x \in Contracts \ {Target(r)} : row'[x] = row[x] /\ job'[x] = job[x]
  BY <1>1 DEF IInv, TypeOK, DropRow
<1>4. TypeOK'
  BY <1>1, <1>2 DEF IInv, TypeOK, DropRow, RowStates, JobStates
<1>5. ASSUME NEW x \in Contracts PROVE ContractSound(x)'
  <2>1. CASE x = Target(r)
    BY <1>1, <1>3, <2>1 DEF IInv, ContractSound, UploadSound, Listed, FileOwned, JobWaits,
        Exists, UploadAt
  <2>2. CASE x # Target(r)
    BY <1>2, <1>3, <2>2 DEF IInv, ContractSound, UploadSound, Listed, FileOwned, JobWaits,
        Exists, UploadAt, At, Target
  <2>3. QED BY <2>1, <2>2
<1>6. ASSUME NEW s \in Requests PROVE RequestSound(s)'
  BY <1>2 DEF IInv, RequestSound, At, Target
<1>7. QED BY <1>4, <1>5, <1>6 DEF IInv

-----------------------------------------------------------------------------
LEMMA IInvStep == IInv /\ [Next]_vars => IInv'
<1> SUFFICES ASSUME IInv, [Next]_vars PROVE IInv'
  OBVIOUS
<1>0. TypeOK
  BY DEF IInv
<1>1. ASSUME NEW c \in Contracts, Arrive(c) PROVE IInv'
  <2>1. TypeOK'
    BY <1>0, <1>1 DEF Arrive, UploadTo, UploadAt, Exists, TypeOK, UploadPCs, RowStates,
        JobStates, Broker!Statuses
  <2>2. ContractSound(c) /\ upload[c] \in UploadPCs
    BY DEF IInv, TypeOK
  <2>3. ContractSound(c)'
    BY <1>0, <1>1, <2>2 DEF Arrive, UploadTo, UploadAt, Exists, TypeOK, UploadPCs,
        ContractSound, UploadSound, Listed, FileOwned, JobWaits, Past, At, Target
  <2>4. QED BY <1>0, <1>1, <2>1, <2>3, OneContract DEF Arrive, UploadTo, UploadAt, Exists,
      TypeOK, Past
<1>2. ASSUME NEW c \in Contracts, PutFile(c) PROVE IInv'
  <2>1. TypeOK'
    BY <1>0, <1>2 DEF PutFile, UploadTo, UploadAt, Exists, TypeOK, UploadPCs, RowStates,
        JobStates, Broker!Statuses
  <2>2. ContractSound(c) /\ upload[c] \in UploadPCs
    BY DEF IInv, TypeOK
  <2>3. ContractSound(c)'
    BY <1>0, <1>2, <2>2 DEF PutFile, UploadTo, UploadAt, Exists, TypeOK, UploadPCs,
        ContractSound, UploadSound, Listed, FileOwned, JobWaits, Past, At, Target
  <2>4. QED BY <1>0, <1>2, <2>1, <2>3, OneContract DEF PutFile, UploadTo, UploadAt, Exists,
      TypeOK, Past
<1>3. ASSUME NEW c \in Contracts, CreateContract(c) PROVE IInv'
  <2>1. TypeOK'
    BY <1>0, <1>3 DEF CreateContract, UploadTo, UploadAt, Exists, TypeOK, UploadPCs,
        RowStates, JobStates, Broker!Statuses
  <2>2. ContractSound(c) /\ upload[c] \in UploadPCs
    BY DEF IInv, TypeOK
  <2>3. ContractSound(c)'
    BY <1>0, <1>3, <2>2 DEF CreateContract, UploadTo, UploadAt, Exists, TypeOK, UploadPCs,
        ContractSound, UploadSound, Listed, FileOwned, JobWaits, Past, At, Target
  <2>4. QED BY <1>0, <1>3, <2>1, <2>3, OneContract DEF CreateContract, UploadTo, UploadAt,
      Exists, TypeOK, Past
<1>4. ASSUME NEW c \in Contracts, CreateIngestionJob(c) PROVE IInv'
  <2>1. TypeOK'
    BY <1>0, <1>4 DEF CreateIngestionJob, UploadTo, UploadAt, Exists, TypeOK, UploadPCs,
        RowStates, JobStates, Broker!Statuses
  <2>2. ContractSound(c) /\ upload[c] \in UploadPCs
    BY DEF IInv, TypeOK
  <2>3. ContractSound(c)'
    BY <1>0, <1>4, <2>2 DEF CreateIngestionJob, UploadTo, UploadAt, Exists, TypeOK,
        UploadPCs, ContractSound, UploadSound, Listed, FileOwned, JobWaits, Past, At, Target
  <2>4. QED BY <1>0, <1>4, <2>1, <2>3, OneContract DEF CreateIngestionJob, UploadTo,
      UploadAt, Exists, TypeOK, Past
<1>5. ASSUME NEW c \in Contracts, Publish(c) PROVE IInv'
  <2>1. TypeOK'
    BY <1>0, <1>5 DEF Publish, Broker!Send, UploadTo, UploadAt, Exists, TypeOK, UploadPCs,
        RowStates, JobStates, Broker!Statuses
  <2>2. ContractSound(c) /\ upload[c] \in UploadPCs
    BY DEF IInv, TypeOK
  <2>3. ContractSound(c)'
    BY <1>0, <1>5, <2>2 DEF Publish, Broker!Send, UploadTo, UploadAt, Exists, TypeOK,
        UploadPCs, ContractSound, UploadSound, Listed, FileOwned, JobWaits, Past, At, Target
  <2>4. QED BY <1>0, <1>5, <2>1, <2>3, OneContract DEF Publish, Broker!Send, UploadTo,
      UploadAt, Exists, TypeOK, Past
<1>6. ASSUME NEW c \in Contracts, PublishFails(c) PROVE IInv'
  <2>1. TypeOK'
    BY <1>0, <1>6 DEF PublishFails, Broker!Refuse, UploadTo, UploadAt, Exists, TypeOK,
        UploadPCs, RowStates, JobStates, Broker!Statuses
  <2>2. ContractSound(c) /\ upload[c] \in UploadPCs
    BY DEF IInv, TypeOK
  <2>3. ContractSound(c)'
    BY <1>0, <1>6, <2>2 DEF PublishFails, Broker!Refuse, UploadTo, UploadAt, Exists, TypeOK,
        UploadPCs, ContractSound, UploadSound, Listed, FileOwned, JobWaits, Past, At, Target
  <2>4. QED BY <1>0, <1>6, <2>1, <2>3, OneContract DEF PublishFails, Broker!Refuse,
      UploadTo, UploadAt, Exists, TypeOK, Past
<1>7. ASSUME NEW c \in Contracts, UploadFails(c) PROVE IInv'
  <2>1. TypeOK'
    BY <1>0, <1>7 DEF UploadFails, UploadTo, UploadAt, Exists, TypeOK, UploadPCs, RowStates,
        JobStates, Broker!Statuses
  <2>2. ContractSound(c) /\ upload[c] \in UploadPCs
    BY DEF IInv, TypeOK
  <2>3. ContractSound(c)'
    BY <1>0, <1>7, <2>2 DEF UploadFails, UploadTo, UploadAt, Exists, TypeOK, UploadPCs,
        ContractSound, UploadSound, Listed, FileOwned, JobWaits, Past, At, Target
  <2>4. QED BY <1>0, <1>7, <2>1, <2>3, OneContract DEF UploadFails, UploadTo, UploadAt,
      Exists, TypeOK, Past
<1>8. ASSUME NEW c \in Contracts, Work(c) PROVE IInv'
  <2>1. TypeOK'
    BY <1>0, <1>8 DEF Work, SetStatus, Broker!DeadLetter, TypeOK, RowStates, JobStates,
        Broker!Statuses
  <2>2. ContractSound(c) /\ upload[c] \in UploadPCs
    BY DEF IInv, TypeOK
  <2>3. ContractSound(c)'
    BY <1>0, <1>8, <2>2 DEF Work, SetStatus, Broker!DeadLetter, UploadAt, Exists, TypeOK,
        ContractSound, UploadSound, Listed, FileOwned, JobWaits, Past, At, Target
  <2>4. QED BY <1>0, <1>8, <2>1, <2>3, OneContract DEF Work, SetStatus, Broker!DeadLetter,
      TypeOK
<1>17. ASSUME NEW c \in Contracts, Redrive(c) PROVE IInv'
  <2>1. TypeOK'
    BY <1>0, <1>17 DEF Redrive, Broker!Redrive, TypeOK, Broker!Statuses
  <2>2. ContractSound(c)'
    BY <1>0, <1>17 DEF Redrive, Broker!Redrive, UploadAt, Exists, TypeOK, IInv,
        ContractSound, UploadSound, Listed, FileOwned, JobWaits, At, Target
  <2>3. QED BY <1>0, <1>17, <2>1, <2>2, OneContract DEF Redrive, Broker!Redrive, TypeOK
<1>9. CASE BrokerStep
  <2>1. PICK c \in Contracts : Broker!Store({c}) \/ Broker!Lose({c})
    BY <1>9 DEF BrokerStep
  <2>2. UNCHANGED <<upload, file, row, job, req, broken, kept>>
    BY <1>9 DEF BrokerStep
  <2>3. /\ message[c] = "transit" /\ message'[c] \in {"queued", "lost"}
        /\ \A x \in Contracts \ {c} : message'[x] = message[x]
        /\ message' \in [Contracts -> Broker!Statuses]
    BY <1>0, <2>1 DEF Broker!Store, Broker!Lose, Broker!Statuses, TypeOK
  <2>4. ContractSound(c)'
    BY <2>2, <2>3 DEF IInv, ContractSound, UploadSound, Listed, FileOwned, JobWaits, Exists,
        UploadAt, At, Target
  <2>5. QED BY <1>0, <2>2, <2>3, <2>4, OneContract DEF TypeOK
<1>10. ASSUME NEW r \in Requests, NEW c \in Contracts,
              NEW next \in RequestPCs \ {"removeRow"}, Find(r, c, next)
       PROVE  IInv'
  <2>1. /\ req' \in [Requests -> RequestStates]
        /\ \A s \in Requests \ {r} : req'[s] = req[s]
        /\ req'[r].contract = c
        /\ req'[r].pc # "idle" => Exists(c) /\ req'[r].pc = next
    BY <1>0, <1>10 DEF Find, TypeOK, RequestStates, RequestPCs, Answers
  <2>2. UNCHANGED <<upload, file, row, job, message, broken, kept>> /\ ~At(r, "removeRow")
    BY <1>10 DEF Find, At
  <2>3. RequestSound(r)' /\ ~At(r, "removeRow")'
    BY <2>1, <2>2 DEF IInv, ContractSound, UploadSound, RequestSound, At, Target
  <2>4. QED BY <2>1, <2>2, <2>3, QuietRequest
<1>11. ASSUME NEW r \in Requests, RemoveFile(r) PROVE IInv'
  <2>1. /\ req' \in [Requests -> RequestStates] /\ req'[r].pc = "removeRow"
        /\ req'[r].contract = Target(r)
        /\ \A s \in Requests \ {r} : req'[s] = req[s]
    BY <1>0, <1>11, GotoEffect DEF RemoveFile, RequestPCs
  <2>2. /\ Target(r) \in Contracts /\ upload[Target(r)] \in Past
        /\ At(r, "removeFile") /\ UNCHANGED <<upload, row, job, message>>
    BY <1>11 DEF RemoveFile, IInv, RequestSound, At
  <2>3. /\ \/ file' = file \ {Target(r)} /\ UNCHANGED <<broken, kept>>
           \/ /\ broken' = broken \union {Target(r)}
              /\ kept' = kept \union {Target(r)}
              /\ UNCHANGED file
    BY <1>11 DEF RemoveFile
  <2>4. TypeOK'
    BY <1>0, <2>1, <2>2, <2>3 DEF TypeOK
  <2>5. ASSUME NEW x \in Contracts PROVE ContractSound(x)'
    <3>1. ContractSound(x)
      BY DEF IInv
    <3>2. UploadSound(x)'
      BY <2>2, <2>3, <3>1 DEF ContractSound, UploadSound, Exists, Past
    <3>3. Listed(x)'
      <4>1. CASE x = Target(r)
        BY <2>1, <4>1 DEF Listed, At, Target
      <4>2. CASE x # Target(r)
        BY <2>1, <2>2, <2>3, <3>1, <4>2 DEF ContractSound, Listed, Exists, At, Target
      <4>3. QED BY <4>1, <4>2
    <3>4. FileOwned(x)' /\ JobWaits(x)'
      BY <2>2, <2>3, <3>1 DEF ContractSound, FileOwned, JobWaits, Exists, UploadAt
    <3>5. QED BY <3>2, <3>3, <3>4 DEF ContractSound
  <2>6. ASSUME NEW s \in Requests PROVE RequestSound(s)'
    BY <2>1, <2>2, <2>3 DEF IInv, RequestSound, At, Target
  <2>7. QED BY <2>4, <2>5, <2>6 DEF IInv
<1>12. ASSUME NEW r \in Requests, RemoveRow(r) PROVE IInv'
  <2>1. CASE Exists(Target(r))
    BY <1>12, <2>1, DropRowSound DEF RemoveRow, Answers
  <2>2. CASE ~Exists(Target(r))
    <3>1. /\ req' \in [Requests -> RequestStates] /\ req'[r].pc = "idle"
          /\ \A s \in Requests \ {r} : req'[s] = req[s]
      BY <1>0, <1>12, <2>2, AnswerEffect DEF RemoveRow, Answers
    <3>2. UNCHANGED <<upload, file, row, job, message, broken, kept>>
      BY <1>12, <2>2 DEF RemoveRow
    <3>3. ASSUME NEW x \in Contracts PROVE ContractSound(x)'
      BY <2>2, <3>1, <3>2 DEF IInv, ContractSound, UploadSound, Listed, FileOwned, JobWaits,
          Exists, UploadAt, At, Target
    <3>4. ASSUME NEW s \in Requests PROVE RequestSound(s)'
      BY <3>1, <3>2 DEF IInv, RequestSound, At, Target
    <3>5. QED BY <1>0, <3>1, <3>2, <3>3, <3>4 DEF IInv, TypeOK
  <2>3. QED BY <2>1, <2>2
<1>13. ASSUME NEW r \in Requests, UpdateRow(r) \/ RefuseUpdate(r) \/ FindAgain(r) \/ GetObject(r)
       PROVE  IInv'
  <2>1. /\ \/ \E a \in Answers : Answer(r, a)
           \/ Goto(r, "getObject") /\ At(r, "findAgain")
        /\ req[r].pc \in {"updateRow", "badUpdate", "findAgain", "getObject"}
        /\ UNCHANGED <<upload, file, row, job, message, broken, kept>>
    BY <1>13 DEF UpdateRow, RefuseUpdate, FindAgain, GetObject, Answers, At
  <2>2. /\ req' \in [Requests -> RequestStates]
        /\ req'[r].pc \in {"idle", "getObject"} /\ req'[r].contract = Target(r)
        /\ \A s \in Requests \ {r} : req'[s] = req[s]
    BY <1>0, <2>1, AnswerEffect, GotoEffect DEF RequestPCs
  <2>3. RequestSound(r)' /\ ~At(r, "removeRow") /\ ~At(r, "removeRow")'
    BY <2>1, <2>2 DEF IInv, RequestSound, At, Target
  <2>4. QED BY <2>1, <2>2, <2>3, QuietRequest
<1>14. ASSUME NEW r \in Requests, RequestFails(r) PROVE IInv'
  <2>1. /\ Answer(r, "serverError") /\ "serverError" \in Answers /\ ~At(r, "idle")
        /\ broken' = broken \union {Target(r)} /\ UNCHANGED <<upload, file, message, kept>>
    BY <1>14 DEF RequestFails, Answers
  <2>2. CASE At(r, "removeRow") /\ DropRow(Target(r))
    BY <2>1, <2>2, DropRowSound
  <2>3. CASE UNCHANGED <<row, job>>
    <3>1. /\ req' \in [Requests -> RequestStates] /\ req'[r].pc = "idle"
          /\ \A s \in Requests \ {r} : req'[s] = req[s]
          /\ Target(r) \in Contracts
      BY <1>0, <2>1, AnswerEffect DEF IInv, RequestSound
    <3>2. ASSUME NEW x \in Contracts PROVE ContractSound(x)'
      BY <2>1, <2>3, <3>1 DEF IInv, ContractSound, UploadSound, Listed, FileOwned, JobWaits,
          Exists, UploadAt, At, Target
    <3>3. ASSUME NEW s \in Requests PROVE RequestSound(s)'
      BY <2>1, <3>1 DEF IInv, RequestSound, At, Target
    <3>4. QED BY <1>0, <2>1, <2>3, <3>1, <3>2, <3>3 DEF IInv, TypeOK
  <2>4. QED BY <1>14, <2>2, <2>3 DEF RequestFails
<1>15. CASE UNCHANGED vars
  BY <1>15 DEF vars, IInv, TypeOK, ContractSound, UploadSound, Listed, FileOwned, JobWaits,
      Exists, UploadAt, RequestSound, At, Target
<1>16. QED
  BY <1>1, <1>2, <1>3, <1>4, <1>5, <1>6, <1>7, <1>8, <1>9, <1>10, <1>11, <1>12, <1>13, <1>14,
     <1>15, <1>17 DEF Next, UploadStep, RequestStep, StartDelete, StartUpdate, StartGetFile, RequestPCs

LEMMA Invariance == Spec => []IInv
BY IInvInit, IInvStep, PTL DEF Spec

-----------------------------------------------------------------------------
\* Every variable of the pipeline stays in its type.
THEOREM PipelineTypeCorrect == Spec => []TypeOK
BY Invariance, PTL DEF IInv

\* A listed contract has its file, whatever uploads and deletions do at once.
THEOREM ListedContractsHaveFiles == Spec => []ListedHasFile
<1>1. IInv => ListedHasFile
  BY DEF IInv, ContractSound, Listed, ListedHasFile
<1>2. QED BY <1>1, Invariance, PTL

\* A file outlives its contract only if something failed.
THEOREM FilesAreOwned == Spec => []FileHasContract
<1>1. IInv => FileHasContract
  BY DEF IInv, TypeOK, ContractSound, FileOwned, FileHasContract
<1>2. QED BY <1>1, Invariance, PTL

\* A job without a message to bring it a worker belongs to an upload that is
\* not over or has failed, or its message was lost.
THEOREM JobsAreExplained == Spec => []JobIsExplained
<1>1. IInv => JobIsExplained
  BY DEF IInv, ContractSound, UploadSound, JobWaits, JobIsExplained
<1>2. QED BY <1>1, Invariance, PTL

\* No worker sees the contract of an upload that was answered with an error.
THEOREM FailedUploadsAreIdle == Spec => []FailedIsNeverProcessed
<1>1. IInv => FailedIsNeverProcessed
  BY DEF IInv, ContractSound, UploadSound, UploadAt, FailedIsNeverProcessed
<1>2. QED BY <1>1, Invariance, PTL

\* A request is answered with 500 for a reason.
THEOREM ServerErrorsAreExplained == Spec => ServerErrorIsExplained
<1> DEFINE Explained(r) ==
        req'[r].answer = "serverError" =>
            \/ req[r].answer = "serverError"
            \/ Target(r) \in broken' \/ At(r, "badUpdate")
            \/ ~Exists(Target(r))
            \/ \E s \in Requests \ {r} : At(s, "removeRow") /\ Target(s) = Target(r)
<1>1. IInv /\ [Next]_vars => [\A r \in Requests : Explained(r)]_vars
  <2> SUFFICES ASSUME IInv, Next, NEW r \in Requests,
                      req'[r].answer = "serverError", req[r].answer # "serverError"
               PROVE  Explained(r)
    OBVIOUS
  <2>0. TypeOK
    BY DEF IInv
  <2>1. ASSUME NEW s \in Requests, NEW c \in Contracts, NEW next, Find(s, c, next)
        PROVE  FALSE
    BY <2>0, <2>1 DEF Find, TypeOK, RequestStates
  <2>2. ASSUME NEW s \in Requests, RequestStep(s), s # r PROVE FALSE
    BY <2>0, <2>2 DEF RequestStep, RemoveFile, RemoveRow, UpdateRow, RefuseUpdate,
        FindAgain, GetObject, RequestFails, Goto, Answer, TypeOK, RequestStates
  <2>3. CASE RequestStep(r)
    <3>1. CASE RemoveFile(r)
      BY <2>0, <3>1, GotoEffect DEF RemoveFile, RequestPCs
    <3>2. CASE RemoveRow(r) \/ UpdateRow(r) \/ FindAgain(r)
      <4>1. CASE Exists(Target(r))
        BY <2>0, <3>2, <4>1, AnswerEffect, GotoEffect
           DEF RemoveRow, UpdateRow, FindAgain, Answers, RequestPCs
      <4>2. QED BY <4>1
    <3>3. CASE RefuseUpdate(r)
      BY <3>3 DEF RefuseUpdate
    <3>4. CASE GetObject(r)
      <4>1. CASE Target(r) \in file
        BY <2>0, <3>4, <4>1, AnswerEffect DEF GetObject, Answers
      <4>2. CASE Target(r) \notin file
        <5>1. At(r, "getObject") /\ UNCHANGED broken
          BY <3>4 DEF GetObject
        <5>2. Listed(Target(r))
          BY <5>1 DEF IInv, RequestSound, ContractSound, At
        <5>3. QED BY <4>2, <5>1, <5>2 DEF Listed, At
      <4>3. QED BY <4>1, <4>2
    <3>5. CASE RequestFails(r)
      BY <3>5 DEF RequestFails
    <3>6. QED BY <2>3, <3>1, <3>2, <3>3, <3>4, <3>5 DEF RequestStep
  <2>4. CASE UNCHANGED req
    BY <2>4
  <2>5. QED
    BY <2>1, <2>2, <2>3, <2>4
       DEF Next, Arrive, UploadStep, PutFile, CreateContract, CreateIngestionJob, Publish,
           PublishFails, UploadFails, Work, Redrive, BrokerStep, StartDelete, StartUpdate, StartGetFile
<1>2. QED BY <1>1, Invariance, PTL DEF Spec, ServerErrorIsExplained

-----------------------------------------------------------------------------
\* The stage of one contract changes as the lifecycle allows, or not at all.
LEMMA OneAdvances ==
    ASSUME IInv, NEW c \in Contracts, NEW from, NEW to, Stage(c) \in from, Stage(c)' \in to,
           \A x \in Contracts \ {c} : Stage(x)' = Stage(x)
    PROVE  Lifecycle!Advance(c, from, to)
<1> DEFINE stage == [x \in Contracts |-> Stage(x)]
<1>1. stage[c] \in from
  OBVIOUS
<1>2. stage' = [x \in Contracts |-> Stage(x)']
  OBVIOUS
<1>3. stage' = [stage EXCEPT ![c] = Stage(c)']
  BY <1>2
<1>4. QED BY <1>1, <1>3 DEF Lifecycle!Advance

LEMMA StagesKept ==
    ASSUME \A x \in Contracts : Stage(x)' = Stage(x)
    PROVE  [x \in Contracts |-> Stage(x)]' = [x \in Contracts |-> Stage(x)]
OBVIOUS

\* Nothing but the steps of the lifecycle changes the status of a contract: it is
\* never uploaded twice, a ready one is never processed again, a failed one only
\* if it was sent again, and a deletion only finds contracts that were created.
THEOREM LifecycleRefinement == Spec => ImplementsLifecycle
<1> DEFINE stage == [c \in Contracts |-> Stage(c)]
<1>1. Init => Lifecycle!Init
  BY DEF Init, Lifecycle!Init, Stage, Exists
<1>2. IInv /\ [Next]_vars => [Lifecycle!Next]_stage
  <2> SUFFICES ASSUME IInv, [Next]_vars PROVE Lifecycle!Next \/ UNCHANGED stage
    BY DEF stage
  <2>0. TypeOK
    BY DEF IInv
  <2>1. ASSUME NEW c \in Contracts, CreateContract(c) PROVE Lifecycle!Create(c)
    <3>1. Stage(c) \in {"absent"} /\ Stage(c)' \in {"uploaded"}
      BY <2>0, <2>1 DEF CreateContract, UploadAt, UploadTo, Stage, Exists, TypeOK, IInv,
          ContractSound, UploadSound, Past
    <3>2. \A x \in Contracts \ {c} : Stage(x)' = Stage(x)
      BY <2>0, <2>1 DEF CreateContract, UploadTo, Stage, Exists, TypeOK
    <3>3. QED BY <3>1, <3>2, OneAdvances DEF Lifecycle!Create
  <2>2. ASSUME NEW c \in Contracts, UploadFails(c) PROVE Lifecycle!Abandon(c) \/ UNCHANGED stage
    <3>1. \A x \in Contracts \ {c} : Stage(x)' = Stage(x)
      BY <2>0, <2>2 DEF UploadFails, UploadTo, Stage, Exists, TypeOK
    <3>2. CASE upload[c] \in {"put", "insertRow"}
      <4>1. Stage(c) \in {"absent"} /\ Stage(c)' \in {"gone"}
        BY <2>0, <2>2, <3>2 DEF UploadFails, UploadTo, Stage, Exists, TypeOK, IInv,
            ContractSound, UploadSound, Past
      <4>2. QED BY <3>1, <4>1, OneAdvances DEF Lifecycle!Abandon
    <3>3. CASE upload[c] \notin {"put", "insertRow"}
      <4>1. Stage(c)' = Stage(c)
        BY <2>0, <2>2, <3>3 DEF UploadFails, UploadTo, Stage, Exists, TypeOK
      <4>2. QED BY <3>1, <4>1, StagesKept
    <3>4. QED BY <3>2, <3>3
  <2>3. ASSUME NEW c \in Contracts, Work(c) PROVE Lifecycle!Begin(c) \/ Lifecycle!Retry(c) \/ Lifecycle!End(c)
    <3>1. ContractSound(c)
      BY DEF IInv
    <3>2. \A x \in Contracts \ {c} : Stage(x)' = Stage(x)
      BY <2>0, <2>3 DEF Work, SetStatus, Stage, Exists, TypeOK
    <3>3. \/ Stage(c) \in {"uploaded"} /\ Stage(c)' \in {"processing"}
          \/ Stage(c) \in {"failed"} /\ Stage(c)' \in {"processing"}
          \/ Stage(c) \in {"processing"} /\ Stage(c)' \in {"ready", "failed"}
      BY <2>0, <2>3, <3>1 DEF Work, SetStatus, Stage, Exists, TypeOK, ContractSound, UploadSound
    <3>4. QED BY <3>2, <3>3, OneAdvances DEF Lifecycle!Begin, Lifecycle!Retry, Lifecycle!End
  <2>4. ASSUME NEW c \in Contracts, upload[c] \in Past, Exists(c), DropRow(c), UNCHANGED upload
        PROVE  Lifecycle!Delete(c)
    <3>1. \A x \in Contracts \ {c} : Stage(x)' = Stage(x)
      BY <2>0, <2>4 DEF DropRow, Stage, Exists, TypeOK
    <3>2. Stage(c) \in Lifecycle!Listed /\ Stage(c)' \in {"gone"}
      BY <2>0, <2>4 DEF DropRow, Stage, Exists, TypeOK, RowStates, Lifecycle!Listed, Past
    <3>3. QED BY <3>1, <3>2, OneAdvances DEF Lifecycle!Delete
  <2>5. ASSUME NEW r \in Requests, RemoveRow(r) \/ RequestFails(r)
        PROVE  (\E c \in Contracts : Lifecycle!Delete(c)) \/ UNCHANGED stage
    <3>1. ~At(r, "idle") /\ UNCHANGED upload /\ (DropRow(Target(r)) \/ UNCHANGED row)
      BY <2>5 DEF RemoveRow, RequestFails, At
    <3>2. Target(r) \in Contracts /\ upload[Target(r)] \in Past
      BY <3>1 DEF IInv, RequestSound
    <3>3. CASE DropRow(Target(r)) /\ Exists(Target(r))
      BY <2>4, <3>1, <3>2, <3>3
    <3>4. CASE UNCHANGED row \/ (DropRow(Target(r)) /\ ~Exists(Target(r)))
      <4>1. UNCHANGED row
        BY <2>0, <3>2, <3>4 DEF DropRow, Exists, TypeOK
      <4>2. QED BY <3>1, <4>1 DEF Stage, Exists
    <3>5. QED BY <3>1, <3>3, <3>4
  <2>6. ASSUME NEW c \in Contracts,
               \/ Arrive(c) \/ PutFile(c) \/ CreateIngestionJob(c) \/ Publish(c) \/ PublishFails(c)
        PROVE  UNCHANGED stage
    <3>1. UNCHANGED row
      BY <2>6 DEF Arrive, PutFile, CreateIngestionJob, Publish, PublishFails
    <3>2. \A x \in Contracts : \/ upload'[x] = upload[x]
                               \/ {upload[x], upload'[x]} \subseteq {"new", "put", "insertRow"}
                               \/ upload[x] \in Past /\ upload'[x] \in Past
      BY <2>0, <2>6 DEF Arrive, PutFile, CreateIngestionJob, Publish, PublishFails, UploadAt,
          UploadTo, TypeOK, Past
    <3>3. \A x \in Contracts : Stage(x)' = Stage(x)
      BY <3>1, <3>2 DEF Stage, Exists, Past
    <3>4. QED BY <3>3, StagesKept
  <2>7. ASSUME UNCHANGED <<upload, row>> PROVE UNCHANGED stage
    BY <2>7 DEF Stage, Exists
  <2>8. ASSUME NEW r \in Requests,
               \/ RemoveFile(r) \/ UpdateRow(r) \/ RefuseUpdate(r) \/ FindAgain(r) \/ GetObject(r)
        PROVE  UNCHANGED stage
    BY <2>7, <2>8 DEF RemoveFile, UpdateRow, RefuseUpdate, FindAgain, GetObject
  <2>9. ASSUME NEW r \in Requests, NEW c \in Contracts,
               StartDelete(r, c) \/ StartUpdate(r, c) \/ StartGetFile(r, c)
        PROVE  UNCHANGED stage
    BY <2>7, <2>9 DEF StartDelete, StartUpdate, StartGetFile, Find
  <2>10. ASSUME BrokerStep \/ \E c \in Contracts : Redrive(c) PROVE UNCHANGED stage
    BY <2>7, <2>10 DEF BrokerStep, Redrive
  <2>11. CASE UNCHANGED vars
    BY <2>7, <2>11 DEF vars
  <2> HIDE DEF stage
  <2>12. QED
    BY <2>1, <2>2, <2>3, <2>5, <2>6, <2>8, <2>9, <2>10, <2>11
       DEF Next, UploadStep, RequestStep, Lifecycle!Next
<1>3. QED BY <1>1, <1>2, Invariance, PTL DEF Spec, ImplementsLifecycle, Lifecycle!Spec

-----------------------------------------------------------------------------
\* An upload that got past its job has one until its contract is deleted.
JobStands(c) == upload[c] \in {"publish", "created"} => job[c] # "none" \/ ~Exists(c)

JobsStand == IInv /\ \A c \in Contracts : JobStands(c)

LEMMA JobsStandStep == JobsStand /\ [Next]_vars => JobsStand'
<1> SUFFICES ASSUME JobsStand, [Next]_vars, NEW x \in Contracts PROVE JobStands(x)'
  BY IInvStep DEF JobsStand
<1>1. TypeOK /\ UploadSound(x) /\ JobStands(x)
  BY DEF JobsStand, IInv, ContractSound
<1> USE DEF JobStands, Exists, UploadAt, UploadTo
<1>2. ASSUME NEW c \in Contracts, Arrive(c) \/ PutFile(c) \/ UploadFails(c) PROVE JobStands(x)'
  BY <1>1, <1>2 DEF Arrive, PutFile, UploadFails, TypeOK
<1>3. ASSUME NEW c \in Contracts, CreateContract(c) PROVE JobStands(x)'
  BY <1>1, <1>3 DEF CreateContract, TypeOK
<1>4. ASSUME NEW c \in Contracts, CreateIngestionJob(c) PROVE JobStands(x)'
  BY <1>1, <1>4 DEF CreateIngestionJob, TypeOK
<1>5. ASSUME NEW c \in Contracts, Publish(c) \/ PublishFails(c) PROVE JobStands(x)'
  BY <1>1, <1>5 DEF Publish, PublishFails, TypeOK
<1>6. ASSUME NEW c \in Contracts, Work(c) PROVE JobStands(x)'
  BY <1>1, <1>6 DEF Work, SetStatus, TypeOK
<1>7. ASSUME NEW r \in Requests, RemoveRow(r) \/ RequestFails(r) PROVE JobStands(x)'
  BY <1>1, <1>7 DEF RemoveRow, RequestFails, DropRow, TypeOK
<1>8. ASSUME UNCHANGED <<upload, row, job>> PROVE JobStands(x)'
  BY <1>1, <1>8
<1>9. ASSUME NEW r \in Requests,
             \/ RemoveFile(r) \/ UpdateRow(r) \/ RefuseUpdate(r) \/ FindAgain(r) \/ GetObject(r)
      PROVE  JobStands(x)'
  BY <1>8, <1>9 DEF RemoveFile, UpdateRow, RefuseUpdate, FindAgain, GetObject
<1>10. ASSUME NEW r \in Requests, NEW c \in Contracts,
              StartDelete(r, c) \/ StartUpdate(r, c) \/ StartGetFile(r, c)
       PROVE  JobStands(x)'
  BY <1>8, <1>10 DEF StartDelete, StartUpdate, StartGetFile, Find
<1>11. CASE BrokerStep \/ (\E c \in Contracts : Redrive(c)) \/ UNCHANGED vars
  BY <1>8, <1>11 DEF BrokerStep, Redrive, vars
<1>12. QED
  BY <1>2, <1>3, <1>4, <1>5, <1>6, <1>7, <1>9, <1>10, <1>11
     DEF Next, UploadStep, RequestStep

\* "Created" means what it says: the message was written to the broker, and the
\* ingestion job is there as long as the contract is.
CreatedIsStored ==
    \A c \in Contracts : UploadAt(c, "created") =>
        /\ Broker!Sent(c)
        /\ job[c] # "none" <=> Exists(c)

\* Whatever fails, and whichever deletions overtake the upload, it is not
\* answered with 201 when its contract lacks the job or the message.
THEOREM CreatedContractsAreStored == Spec => []CreatedIsStored
<1>1. Init => JobsStand
  BY IInvInit DEF Init, JobsStand, JobStands
<1>2. JobsStand => CreatedIsStored
  BY DEF JobsStand, IInv, ContractSound, UploadSound, JobStands, UploadAt, CreatedIsStored
<1>3. QED BY <1>1, <1>2, JobsStandStep, PTL DEF Spec

\* A contract that was deleted, or whose upload failed before it had a row, is
\* never listed again: no late step of the upload and no worker brings it back.
THEOREM GoneIsGone ==
    Spec => [][\A c \in Contracts : Stage(c) = "gone" => Stage(c)' = "gone"]_vars
<1> DEFINE stage == [c \in Contracts |-> Stage(c)]
           Final == \A c \in Contracts : Stage(c) = "gone" => Stage(c)' = "gone"
<1>1. [Lifecycle!Next]_stage => [Final]_vars
  <2> SUFFICES ASSUME [Lifecycle!Next]_stage, NEW x \in Contracts, Stage(x) = "gone"
               PROVE  Stage(x)' = "gone"
    OBVIOUS
  <2>1. stage[x] = "gone" /\ stage'[x] = Stage(x)'
    OBVIOUS
  <2>2. stage = [c \in Contracts |-> stage[c]]
    OBVIOUS
  <2>3. \A c \in Contracts : \A from, to :
            Lifecycle!Advance(c, from, to) /\ "gone" \notin from => stage'[x] = "gone"
    <3> HIDE DEF stage
    <3> QED BY <2>1, <2>2 DEF Lifecycle!Advance, stage
  <2>4. QED
    BY <2>1, <2>3 DEF Lifecycle!Next, Lifecycle!Create, Lifecycle!Abandon, Lifecycle!Begin,
        Lifecycle!Retry, Lifecycle!End, Lifecycle!Delete, Lifecycle!Listed
<1>2. QED BY <1>1, LifecycleRefinement, PTL DEF ImplementsLifecycle, Lifecycle!Spec
=============================================================================

------------------------------ MODULE Pipeline ------------------------------
(***************************************************************************)
(* The API process and the Celery pool on one database, broker and volume. *)
(* The two meet where no transaction covers both: a task is published      *)
(* before the row of its job is committed, so a worker may run it before   *)
(* the commit, after it, or although the commit never came.                *)
(***************************************************************************)
EXTENDS ConfirmationApi, CeleryWorker

pipelineVars == <<confirmations, jobs, files, queue, tasks, asks, req,
                  slot, candidates, repositories, crashes, missed>>

PipelineInit == ApiInit /\ WorkerOnlyInit

ApiStep    == ApiNext /\ UNCHANGED workerOnly
WorkerStep == WorkerNext /\ UNCHANGED <<asks, req>>

PipelineNext == ApiStep \/ WorkerStep

PipelineSpec == PipelineInit /\ [][PipelineNext]_pipelineVars

-----------------------------------------------------------------------------
(* Properties *)

\* The request of job r is one human's approval of this tool and payload.
ApprovedBy(r, t, tool, p) ==
  /\ req[r].approved /\ req[r].tenant = t
  /\ confirmations[req[r].conf] # None
  /\ confirmations[req[r].conf].hash = compute_payload_hash(t, tool, p)

\* Whatever a worker runs, inserts or is left with in a table goes back to a
\* human's approval in the same tenant, also when the commit of the approval
\* was lost, a message was redelivered or a retry ran much later.
EffectsWereApproved ==
  /\ \A w \in Worker : slot[w].pc # "idle" =>
       ApprovedBy(slot[w].job, TaskOf(w).tenant, TaskOf(w).tool,
                  TaskOf(w).payload)
  /\ \A r \in Request : candidates[r] > 0 =>
       ApprovedBy(r, tasks[r].tenant, "cv_save", tasks[r].payload)
  /\ \A t \in Tenant, u \in Url : repositories[t][u] > 0 =>
       \E r \in Request : ApprovedBy(r, t, "github_ingestion", u)

Names(call, file) == call # None /\ call.payload = file

\* A file that any confirmation names, an upload's or one a model wrote, is on
\* the volume until a human approves a parse of it.  Not always that of the
\* upload: the file of a denied upload goes when a request that names it, in
\* whatever tenant, is approved.
FilesGoByApproval ==
  \A c, f \in Confirmation : Names(confirmations[c], f) /\ f \notin files =>
    \E r \in Request : /\ tasks[r] # None
                        /\ ApprovedBy(r, tasks[r].tenant, "cv_parsing", f)

\* Whoever polls a job sees what JobView promises, whether its row appears
\* before or after a worker has run it, and however often it is run again.
View == INSTANCE JobView WITH Job <- Request, Row <- JobRow

ImplementsJobView == View!ViewSpec
-----------------------------------------------------------------------------
(* The inductive invariant behind the properties above *)

\* The row of a job is committed once, by the request that is answered 200.
JobsAreOfAnsweredRequests ==
  \A r \in Request : jobs[r] # None => req[r].pc = "ok"

Named(file) ==
  \E c \in Confirmation : Names(asks[c], file) \/ Names(confirmations[c], file)

\* What somebody asks for by its file is there, or has been parsed.
NamedFilesAreThere ==
  \A f \in Confirmation : Named(f) => f \in files \/ Parsed(f)

PipelineInv ==
  /\ ApiInv
  /\ WorkerInv
  /\ JobsAreOfAnsweredRequests
  /\ NamedFilesAreThere

-----------------------------------------------------------------------------
(* What the repository says and the code does not do *)

\* What test_jobs.py says of a job: "Job transitions through queued -> running
\* -> completed."  A job with no message left is at the end of one.
JobsReachAnEnd ==
  \A r \in Request :
    jobs[r] # None /\ tasks[r] # None /\ ~InFlight(r) =>
      jobs[r].status \in EndStatus
=============================================================================

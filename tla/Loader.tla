-------------------------------- MODULE Loader --------------------------------
(***************************************************************************)
(* The loader (cmd/load/main.go): a producer reads the rows of a file into *)
(* a bounded channel of jobs, workers collect them into batches and send   *)
(* each in one BatchCreateEvents request with a timeout, and main counts   *)
(* what became of them when all are done.  Nothing is retried.             *)
(*                                                                         *)
(* The server is external here: it takes a request at most once, creates   *)
(* its events or refuses them, and it may do so after the caller gave up.  *)
(***************************************************************************)
EXTENDS Integers, FiniteSetsExt, SequencesExt

CONSTANTS
  File,        \* the rows: records of id, service and mappable
  Nil,         \* no id, no service
  Worker,
  BatchSize,
  JobsFactor,  \* batches per worker that jobs has room for: 2 in the code
  ResultsCap   \* capacity of results: 2000000 in the code

\* A file is a sequence of rows.  Flags of at least one worker, their number
\* being an int, and one event a batch; results must have room for every
\* request, as nobody reads them before all workers are done.
ASSUME LoaderAssumption ==
  /\ Len(File) \in Nat /\ DOMAIN File = 1 .. Len(File)
  /\ Worker # {} /\ IsFiniteSet(Worker)
  /\ {BatchSize, JobsFactor} \subseteq Nat \ {0}
  /\ ResultsCap \in Nat /\ ResultsCap >= Len(File)

VARIABLES
  main,      \* where main is
  pos,       \* rows it has read
  saw,       \* ids it has seen
  rowCount,
  jobs,      \* the channel, of rows by their position
  closed,
  worker,    \* worker[w]: where w is
  batch,     \* batch[w]: its batch
  totalSent, totalErrors,
  results,   \* durations in the channel
  requests,  \* the requests on their way to the server
  replies,   \* its answers of success
  created    \* created[n]: events that it made from row n

mainVars == <<main, pos, saw, rowCount, closed>>
workerVars == <<worker, batch, totalSent, totalErrors, results>>
serverVars == <<requests, replies, created>>
vars == <<mainVars, jobs, workerVars, serverVars>>

Row == DOMAIN File
JobsCap == Cardinality(Worker) * BatchSize * JobsFactor

Init ==
  /\ main = "read" /\ pos = 0 /\ saw = {} /\ rowCount = 0
  /\ jobs = <<>> /\ closed = FALSE
  /\ worker = [w \in Worker |-> "receive"] /\ batch = [w \in Worker |-> <<>>]
  /\ totalSent = 0 /\ totalErrors = 0 /\ results = 0
  /\ requests = {} /\ replies = {} /\ created = [n \in Row |-> 0]
-----------------------------------------------------------------------------
(* main                                                                    *)

\* mapEventToProto needs a start time and a known type of resource.
Mappable(row) == row.mappable

\* Rows without a service and repeated ids are passed over; a row without an
\* id, or one that cannot be mapped, ends the process with a panic.
ReadRow ==
  /\ main = "read" /\ pos < Len(File)
  /\ pos' = pos + 1
  /\ LET row == File[pos + 1]
     IN \/ /\ row.service = Nil \/ row.id \in saw
           /\ UNCHANGED <<main, saw>>
        \/ /\ row.service # Nil /\ row.id \notin saw
           /\ main' = IF row.id # Nil /\ Mappable(row) THEN "put" ELSE "panicked"
           /\ saw' = saw \cup {row.id}
  /\ UNCHANGED <<rowCount, closed, jobs, workerVars, serverVars>>

\* jobs <- params, which blocks while the channel is full.
PutJob ==
  /\ main = "put" /\ Len(jobs) < JobsCap
  /\ jobs' = Append(jobs, pos)
  /\ rowCount' = rowCount + 1
  /\ main' = "read"
  /\ UNCHANGED <<pos, saw, closed, workerVars, serverVars>>

\* The end of the file, or an error of the reader anywhere in it.  Mutant:
\* the channel stays open.
ReadEndsOpen ==
  /\ main = "read"
  /\ main' = "wait"
  /\ UNCHANGED <<pos, saw, rowCount, closed, jobs, workerVars, serverVars>>
ReadEnds ==
  /\ main = "read"
  /\ closed' = TRUE
  /\ main' = "wait"
  /\ UNCHANGED <<pos, saw, rowCount, jobs, workerVars, serverVars>>

\* wg.Wait, and the report.
Report ==
  /\ main = "wait" /\ \A w \in Worker : worker[w] = "done"
  /\ main' = "done"
  /\ UNCHANGED <<pos, saw, rowCount, closed, jobs, workerVars, serverVars>>
-----------------------------------------------------------------------------
(* A worker                                                                *)

Goto(w, place) == worker' = [worker EXCEPT ![w] = place]
Running == main # "panicked"

Receive(w) ==
  /\ Running /\ worker[w] = "receive" /\ jobs # <<>>
  /\ jobs' = Tail(jobs)
  /\ batch' = [batch EXCEPT ![w] = Append(@, Head(jobs))]
  /\ Goto(w, IF Len(batch[w]) + 1 >= BatchSize THEN "send" ELSE "receive")
  /\ UNCHANGED <<mainVars, totalSent, totalErrors, results, serverVars>>

\* The channel is closed and empty: the rest is sent.  Mutant: it is not.
RangeEndsEarly(w) ==
  /\ Running /\ worker[w] = "receive" /\ jobs = <<>> /\ closed
  /\ Goto(w, "done")
  /\ UNCHANGED <<mainVars, jobs, batch, totalSent, totalErrors, results, serverVars>>
RangeEnds(w) ==
  /\ Running /\ worker[w] = "receive" /\ jobs = <<>> /\ closed
  /\ Goto(w, IF batch[w] = <<>> THEN "done" ELSE "send")
  /\ UNCHANGED <<mainVars, jobs, batch, totalSent, totalErrors, results, serverVars>>

Send(w) ==
  /\ Running /\ worker[w] = "send"
  /\ requests' = requests \cup {[by |-> w, events |-> batch[w]]}
  /\ Goto(w, "call")
  /\ UNCHANGED <<mainVars, jobs, batch, totalSent, totalErrors, results, replies, created>>

\* Mutant: the error of the call is not looked at.
SucceedUnchecked(w) ==
  /\ Running /\ worker[w] = "call"
  /\ totalSent' = totalSent + Len(batch[w])
  /\ Goto(w, "report")
  /\ UNCHANGED <<mainVars, jobs, batch, totalErrors, results, serverVars>>
Succeed(w) ==
  /\ Running /\ worker[w] = "call"
  /\ [by |-> w, events |-> batch[w]] \in replies
  /\ totalSent' = totalSent + Len(batch[w])
  /\ Goto(w, "report")
  /\ UNCHANGED <<mainVars, jobs, batch, totalErrors, results, serverVars>>

\* results <- duration, which blocks while the channel is full.
ReportDuration(w) ==
  /\ Running /\ worker[w] = "report" /\ results < ResultsCap
  /\ results' = results + 1
  /\ batch' = [batch EXCEPT ![w] = <<>>]
  /\ Goto(w, "receive")
  /\ UNCHANGED <<mainVars, jobs, totalSent, totalErrors, serverVars>>

\* Any error, the timeout too, whether or not the server has been at work.
\* Mutant: the batch is not reset.
FailKept(w) ==
  /\ Running /\ worker[w] = "call"
  /\ totalErrors' = totalErrors + Len(batch[w])
  /\ Goto(w, "send")
  /\ UNCHANGED <<mainVars, jobs, batch, totalSent, results, serverVars>>
Fail(w) ==
  /\ Running /\ worker[w] = "call"
  /\ totalErrors' = totalErrors + Len(batch[w])
  /\ batch' = [batch EXCEPT ![w] = <<>>]
  /\ Goto(w, "receive")
  /\ UNCHANGED <<mainVars, jobs, totalSent, results, serverVars>>
-----------------------------------------------------------------------------
(* The server                                                              *)

Create(r) ==
  /\ requests' = requests \ {r}
  /\ replies' = replies \cup {r}
  /\ created' = [n \in Row |-> created[n] + Cardinality({k \in DOMAIN r.events : r.events[k] = n})]
  /\ UNCHANGED <<mainVars, jobs, workerVars>>

Lose(r) ==
  /\ requests' = requests \ {r}
  /\ UNCHANGED <<replies, created, mainVars, jobs, workerVars>>

Serve == \E r \in requests : Create(r) \/ Lose(r)
-----------------------------------------------------------------------------
Produce == ReadRow \/ PutJob \/ ReadEnds \/ Report
Work(w) == \/ Receive(w) \/ RangeEnds(w) \/ Send(w) \/ Succeed(w)
           \/ ReportDuration(w) \/ Fail(w)

Next == Produce \/ Serve \/ \E w \in Worker : Work(w)

\* Goroutines are scheduled, and the timeout ends every call.  Nothing is
\* asked of the server.
Spec == Init /\ [][Next]_vars /\ WF_vars(Produce) /\ \A w \in Worker : WF_vars(Work(w))
-----------------------------------------------------------------------------
(* Properties.                                                             *)

\* What worker w holds and has not counted yet.
Uncounted(w) == IF worker[w] = "report" THEN 0 ELSE Len(batch[w])

\* What its request holds while the call goes on.
Calling(w) == IF worker[w] = "call" THEN Len(batch[w]) ELSE 0

\* A job is in the channel, in one worker's hands, or counted once, as sent or
\* as an error, whatever workers and timeouts race; and the report counts every
\* job, those of the last, shorter batches too.
JobsConserved ==
  /\ rowCount = Len(jobs) + totalSent + totalErrors + MapThenSumSet(Uncounted, Worker)
  /\ main = "done" => totalSent + totalErrors = rowCount

\* No row is made into two events, and no id; events counted as sent were
\* made, and those that were made without being counted so had a request that
\* failed or is still going on.
CreatedOnce ==
  LET made == {n \in Row : created[n] > 0}
  IN /\ \A n \in made : created[n] = 1
     /\ \A m, n \in made : File[m].id = File[n].id => m = n
     /\ totalSent <= Cardinality(made)
     /\ Cardinality(made) <= totalSent + totalErrors + MapThenSumSet(Calling, Worker)

\* The loader comes to its report, or panics on a row, though requests are
\* lost and the channels fill.
Terminates == <>(main \in {"done", "panicked"})
=============================================================================

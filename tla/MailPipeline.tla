---------------------------- MODULE MailPipeline ----------------------------
(***************************************************************************)
(* The DLL, the queue directory and the watcher together: Interceptor and  *)
(* EmailWatcher composed over QueueDir, with the environment of both: host *)
(* processes that die, an anti-virus scanner that opens a file without     *)
(* sharing, time that passes, and an application that stops and restarts.  *)
(***************************************************************************)
EXTENDS Interceptor, EmailWatcher

CONSTANTS
  SlowWrites,   (* a JSON write may outlast debounce and read retries      *)
  ScannerLocks, (* anti-virus may hold a complete JSON without sharing     *)
  MaxStops      (* bound: how often the application stops                  *)

ASSUME PipelineAssumption ==
  /\ UniqueStems \in BOOLEAN /\ SlowWrites \in BOOLEAN /\ ScannerLocks \in BOOLEAN
  /\ MaxStops \in Nat

VARIABLES
  consumed,  (* history: messages removed by MarkProcessed or Delete       *)
  stops      (* how often the application has stopped                      *)

vars == <<dirVars, writerVars, watcherVars, consumed, stops>>

TypeOK ==
  /\ DirTypeOK /\ WriterTypeOK /\ WatcherTypeOK
  /\ consumed \subseteq Msgs
  /\ stops \in 0..MaxStops

Init == DirInit /\ WriterInit /\ WatcherInit /\ consumed = {} /\ stops = 0

\* Holders other than the writer itself are scanners.
MayOutlast == SlowWrites \/ ScannerLocks
env == <<consumed, stops>>

Write(m) == WriterStep(m, Watching) /\ UNCHANGED <<watcherVars, env>>

Watch == WatcherThread(MayOutlast) /\ UNCHANGED <<writerVars, env>>

\* MarkProcessed(id) or Delete(id), by any goroutine that knows the id.
Consume(id) ==
  /\ RemoveEmail(id)
  /\ consumed' = consumed \cup {id[2]}
  /\ UNCHANGED <<writerVars, stops>>

EndConsume == FinishRemoval /\ UNCHANGED <<writerVars, env>>

Stop ==
  /\ stops < MaxStops
  /\ AppStops
  /\ stops' = stops + 1
  /\ UNCHANGED <<writerVars, consumed>>

BeingWritten(s) == \E m \in Msgs : stem[m] = s /\ wpc[m] = "write"

ScannerOpens(s) ==
  /\ ScannerLocks /\ Accessible(s)
  /\ held' = held \cup {s}
  /\ UNCHANGED <<json, dirs, old, att, events, writerVars, watcherVars, env>>

ScannerCloses(s) ==
  /\ s \in held /\ ~BeingWritten(s)
  /\ held' = held \ {s}
  /\ UNCHANGED <<json, dirs, old, att, events, writerVars, watcherVars, env>>

\* Fifteen minutes without a change to directory s.  A writer that is still
\* running changes its directory, or ends, sooner than that.
GrowOld(s) ==
  /\ s \in dirs \ old
  /\ \A m \in Msgs : stem[m] = s => wpc[m] \notin WriterInFlight
  /\ old' = old \cup {s}
  /\ UNCHANGED <<json, held, dirs, att, events, writerVars, watcherVars, env>>

Next ==
  \/ \E m \in Msgs : Write(m)
  \/ Watch
  \/ \E id \in EmailIds : Consume(id)
  \/ EndConsume
  \/ Stop
  \/ \E s \in Stems : ScannerOpens(s) \/ ScannerCloses(s) \/ GrowOld(s)

Spec == Init /\ [][Next]_vars

(***************************************************************************)
(* The watcher goroutine runs while the application does, and the user     *)
(* starts the application again (or the login autostart does).  A running  *)
(* removal ends; a scanner lets go of a file; a host process finishes its  *)
(* call unless it dies.  Nobody is obliged to consume a message.           *)
(***************************************************************************)
Fairness ==
  /\ WF_vars(Watch)
  /\ WF_vars(EndConsume)
  /\ \A s \in Stems : WF_vars(ScannerCloses(s))
  /\ \A m \in Msgs : WF_vars(WriterProgress(m, Watching)
                               /\ UNCHANGED <<watcherVars, env>>)

FairSpec == Spec /\ Fairness

-----------------------------------------------------------------------------
(* Safety                                                                  *)

\* The two maps of the watcher always describe the same ids: what Snapshot
\* lists can be removed by id, and nothing is listed twice (watcher.go,
\* emails and fileToID).
MapsAgree == emails = {fileToID[s] : s \in Stems} \ {NoId}

\* Whenever the JSON of a message is in the queue, complete and readable by
\* its attachments' paths, every attachment it names is there: the order
\* copy-then-write, every rollback and the orphan sweep respect it.
AttachmentsIntact ==
  \A s \in Stems : json[s] \in Msgs => Needs(json[s]) \subseteq att[s]

\* The sweep of orphaned directories never takes the copies of a message
\* whose JSON is still to be written.
InFlightSpared ==
  \A m \in Msgs : wpc[m] \in {"json", "write"} => Needs(m) \subseteq att[stem[m]]

\* A listed id without its file (a removal overtook the insertion) always
\* has the notification still queued that will unlist it, unless the removal
\* itself still holds the lock.
GhostsAnnounced ==
  \A s \in Stems :
    fileToID[s] # NoId /\ json[s] # fileToID[s][2]
      => \/ removing = fileToID[s]
         \/ \E i \in DOMAIN events : events[i] = <<"remove", s>>

\* A message in the errors directory or consumed leaves no attachments while
\* nothing failed: privacy-first cleanup of MarkProcessed and Delete.
NoCopiesAfterConsume ==
  \A m \in consumed :
    (removing = NoId /\ stops = 0) => \A s \in Stems : att[s] \cap Needs(m) = {}

-----------------------------------------------------------------------------
(* Refinement of Spool                                                     *)

MailOf(m) ==
  CASE m \in consumed -> "consumed"
    [] m \in rejected -> "rejected"
    [] m \notin consumed \cup rejected /\ wpc[m] = "ok" -> "queued"
    [] wpc[m] \in {"failed", "killed"} -> "refused"
    [] OTHER -> "new"

Promise == INSTANCE Spool WITH mail <- [m \in Msgs |-> MailOf(m)]

\* The pipeline implements Spool: a message is queued or refused once and
\* leaves the queue once, across crashes of either side.
SpoolPromise == Promise!SpoolSpec

\* "queued" of the mapping is real: the file is there.
QueuedIsOnDisk ==
  \A m \in Msgs : MailOf(m) = "queued" => json[stem[m]] = m

-----------------------------------------------------------------------------
(* Liveness                                                                *)

\* A valid message on disk is eventually listed or leaves the directory,
\* whether it arrived while the application ran, was down, or was starting.
GoodMailSurfaces ==
  \A s \in Stems, m \in Msgs \ Invalid :
    json[s] = m ~> (<<s, m>> \in emails \/ json[s] # m)

\* An id whose file is gone does not stay listed.
GhostsVanish ==
  \A s \in Stems, m \in Msgs :
    (<<s, m>> \in emails /\ json[s] # m) ~> <<s, m>> \notin emails

\* What does not validate does not stay in the queue directory.
BadMailLeaves ==
  \A s \in Stems :
    (json[s] # NoFile /\ ~Valid(json[s]))
      ~> (json[s] = NoFile \/ Valid(json[s]))

\* A directory that is an old orphan when the application starts is removed
\* by that start.
OrphansSwept ==
  \A s \in Stems :
    (phase = "added" /\ s \in old /\ json[s] = NoFile)
      ~> (s \notin dirs \/ phase = "down")
=============================================================================

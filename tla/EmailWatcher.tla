---------------------------- MODULE EmailWatcher ----------------------------
(***************************************************************************)
(* The consumer: EmailWatcher of src/internal/mapi/watcher.go.  One thread *)
(* (startup, later the watchLoop goroutine) registers the directory watch, *)
(* processes the files already present, sweeps orphaned directories, then  *)
(* serves notifications and its debounce ticker.  Other goroutines remove  *)
(* messages through MarkProcessed and Delete under the mutex.              *)
(*                                                                         *)
(* An email id is the hash of file name and content: <<stem, message>>.    *)
(***************************************************************************)
EXTENDS QueueDir

CONSTANT NoId

ASSUME NoIdAssumption == NoId \notin Stems \X Msgs

VARIABLES
  phase,     (* "down", "added", "scan", "sweep", "loop"                   *)
  todo,      (* stems the current loop still has to visit                  *)
  cur,       (* the stem being processed, and the step of processFile      *)
  step,
  data,      (* what processFile read                                      *)
  pending,   (* watchLoop's debounce map                                   *)
  emails,    (* ids listed to the user interface and to automode           *)
  fileToID,  (* fileToID[s]: the id filed under "<s>.json"                 *)
  removing,  (* the id whose removal holds the mutex, or NoId              *)
  rejected   (* contents moved to the errors directory                     *)

watcherVars == <<phase, todo, cur, step, data, pending, emails, fileToID,
                 removing, rejected>>

EmailIds == Stems \X Msgs

WatcherTypeOK ==
  /\ phase \in {"down", "added", "scan", "sweep", "loop"}
  /\ todo \subseteq Stems
  /\ cur \in Stems \cup {NoStem}
  /\ step \in {"idle", "read", "insert", "reject", "sweep"}
  /\ data \in Contents \cup {NoFile}
  /\ pending \subseteq Stems
  /\ emails \subseteq EmailIds
  /\ fileToID \in [Stems -> EmailIds \cup {NoId}]
  /\ removing \in EmailIds \cup {NoId}
  /\ rejected \subseteq Contents

WatcherMemoryInit ==
  /\ todo = {}
  /\ cur = NoStem
  /\ step = "idle"
  /\ data = NoFile
  /\ pending = {}
  /\ emails = {}
  /\ fileToID = [s \in Stems |-> NoId]
  /\ removing = NoId

WatcherInit == phase = "down" /\ rejected = {} /\ WatcherMemoryInit

Watching == phase # "down"
Free     == step = "idle"          (* the watcher thread is between files  *)
Unlocked == removing = NoId        (* ew.mu can be taken                   *)
scratch  == <<cur, step, data>>
lists    == <<emails, fileToID, removing>>

-----------------------------------------------------------------------------
(* Start                                                                   *)

\* watcher.Add: from here on the directory's changes are queued.
AddWatch ==
  /\ phase = "down"
  /\ phase' = "added"
  /\ events' = <<>>
  /\ UNCHANGED <<json, held, dirs, old, att, todo, scratch, pending, lists, rejected>>

\* The files processExistingFiles finds.  Mutant: none, only later arrivals count.
NoFiles == {}
ExistingFiles == {s \in Stems : json[s] # NoFile}

\* processExistingFiles lists the directory.
ListExisting ==
  /\ phase = "added"
  /\ phase' = "scan"
  /\ todo' = ExistingFiles
  /\ UNCHANGED <<dirVars, scratch, pending, lists, rejected>>

\* The directories the sweep looks at.  Mutants: no age floor; test inverted.
DirsOfAnyAge == dirs
YoungDirs    == dirs \ old
SweepTargets == dirs \cap old

\* sweepOrphanedStemDirs lists the directory, with the modification times.
ListDirs ==
  /\ phase = "scan" /\ todo = {} /\ Free
  /\ phase' = "sweep"
  /\ todo' = SweepTargets
  /\ UNCHANGED <<dirVars, scratch, pending, lists, rejected>>

\* A JSON beside the directory makes it live.  Mutant: it is not looked for.
AnyDir(s)   == TRUE
IsOrphan(s) == json[s] = NoFile

\* One directory of the sweep.
SweepCheck(s) ==
  /\ phase = "sweep" /\ Free /\ s \in todo
  /\ todo' = todo \ {s}
  /\ IF IsOrphan(s)
     THEN cur' = s /\ step' = "sweep"
     ELSE UNCHANGED <<cur, step>>
  /\ UNCHANGED <<dirVars, phase, data, pending, lists, rejected>>

SweepRemove ==
  /\ step = "sweep"
  /\ RemoveDir(cur)
  /\ cur' = NoStem /\ step' = "idle"
  /\ UNCHANGED <<json, held, events, phase, todo, data, pending, lists, rejected>>

\* The sweep ends; go ew.watchLoop().
EnterLoop ==
  /\ phase = "sweep" /\ todo = {} /\ Free
  /\ phase' = "loop"
  /\ UNCHANGED <<dirVars, todo, scratch, pending, lists, rejected>>

-----------------------------------------------------------------------------
(* processFile                                                             *)

BeginFile(s) ==
  /\ phase \in {"scan", "loop"} /\ Free /\ s \in todo
  /\ todo' = todo \ {s}
  /\ cur' = s /\ step' = "read"
  /\ UNCHANGED <<dirVars, phase, data, pending, lists, rejected>>

\* Mutant of ReadFile: what does not validate is passed over.
ReadFileIgnoresInvalid ==
  /\ step = "read" /\ Accessible(cur)
  /\ IF Valid(json[cur])
     THEN data' = json[cur] /\ step' = "insert" /\ UNCHANGED cur
     ELSE data' = NoFile /\ step' = "idle" /\ cur' = NoStem
  /\ UNCHANGED <<dirVars, phase, todo, pending, lists, rejected>>

\* One of the three attempts reads the file; parse and validation decide.
ReadFile ==
  /\ step = "read" /\ Accessible(cur)
  /\ data' = json[cur]
  /\ step' = IF Valid(json[cur]) THEN "insert" ELSE "reject"
  /\ UNCHANGED <<dirVars, phase, todo, cur, pending, lists, rejected>>

\* What outlasts the three attempts: an absent file, or a lock held by a
\* process that takes its time.  Mutant: one attempt, without retries.
UnreadableAtOnce(mayOutlast) == ~Accessible(cur)
Unreadable(mayOutlast) == json[cur] = NoFile \/ (cur \in held /\ mayOutlast)

\* All three attempts fail.
GiveUpReading(mayOutlast) ==
  /\ step = "read" /\ Unreadable(mayOutlast)
  /\ step' = "reject"
  /\ UNCHANGED <<dirVars, phase, todo, cur, data, pending, lists, rejected>>

\* moveToErrors: the rename is best effort and does not look at the content.
MoveToErrors ==
  /\ step = "reject"
  /\ IF Accessible(cur)
     THEN /\ rejected' = rejected \cup {json[cur]}
          /\ json' = [json EXCEPT ![cur] = NoFile]
          /\ events' = Append(events, <<"remove", cur>>)
     ELSE UNCHANGED <<rejected, json, events>>
  /\ cur' = NoStem /\ step' = "idle" /\ data' = NoFile
  /\ UNCHANGED <<held, dirs, old, att, phase, todo, pending, lists>>

\* The locked end of processFile.
InsertEmail ==
  /\ step = "insert" /\ Unlocked
  /\ emails' = emails \cup {<<cur, data>>}
  /\ fileToID' = [fileToID EXCEPT ![cur] = <<cur, data>>]
  /\ cur' = NoStem /\ step' = "idle" /\ data' = NoFile
  /\ UNCHANGED <<dirVars, phase, todo, pending, removing, rejected>>

-----------------------------------------------------------------------------
(* watchLoop                                                               *)

InSelect == phase = "loop" /\ Free /\ todo = {}

\* Mutants of HandleRemove: one map only, and neither.
HandleRemoveForgetsEmail(s) ==
  /\ fileToID' = [fileToID EXCEPT ![s] = NoId]
  /\ UNCHANGED emails

HandleRemoveIgnored(s) == UNCHANGED <<emails, fileToID>>

\* handleRemove: the lock is taken while the notification is served.
HandleRemove(s) ==
  IF fileToID[s] # NoId
  THEN /\ emails' = emails \ {fileToID[s]}
       /\ fileToID' = [fileToID EXCEPT ![s] = NoId]
  ELSE UNCHANGED <<emails, fileToID>>

HandleEvent ==
  /\ InSelect /\ events # <<>>
  /\ LET op == Head(events)[1]
         s  == Head(events)[2]
     IN  IF op = "remove"
         THEN /\ Unlocked
              /\ pending' = pending \ {s}
              /\ HandleRemove(s)
         ELSE /\ pending' = pending \cup {s}
              /\ UNCHANGED <<emails, fileToID>>
  /\ events' = Tail(events)
  /\ UNCHANGED <<json, held, dirs, old, att, phase, todo, scratch, removing, rejected>>

\* The ticker finds files that were quiet for the debounce interval and
\* processes them one after the other before the next select.
Tick(mayOutlast) ==
  /\ InSelect
  /\ \E due \in (SUBSET pending) \ {{}} :
       /\ mayOutlast \/ due \cap held = {}
       /\ todo' = due
       /\ pending' = pending \ due
  /\ UNCHANGED <<dirVars, phase, scratch, lists, rejected>>

-----------------------------------------------------------------------------
(* MarkProcessed and Delete: the same locked body.                         *)

\* os.Remove of the JSON succeeds; an unknown id or a failing os.Remove
\* changes nothing.
RemoveEmail(id) ==
  /\ phase = "loop" /\ Unlocked
  /\ \E s \in Stems :
       /\ fileToID[s] = id
       /\ Accessible(s)
       /\ json' = [json EXCEPT ![s] = NoFile]
       /\ events' = Append(events, <<"remove", s>>)
  /\ removing' = id
  /\ UNCHANGED <<held, dirs, old, att, phase, todo, scratch, pending, emails,
                 fileToID, rejected>>

\* The removal's own deletions.  Mutants: the copies stay; the name stays filed.
NoCleanup(s) == UNCHANGED <<att, dirs, old>>
Cleanup(s)   == RemoveDir(s)

StillFiled(s) == fileToID
Unfiled(s)    == [fileToID EXCEPT ![s] = NoId]

\* removeAttachmentsDir, then both map entries, then unlock.
FinishRemoval ==
  /\ removing # NoId
  /\ Cleanup(removing[1])
  /\ fileToID' = Unfiled(removing[1])
  /\ emails' = emails \ {removing}
  /\ removing' = NoId
  /\ UNCHANGED <<json, held, events, phase, todo, scratch, pending, rejected>>

\* Quit, session end or crash: memory and the watch are lost, files stay.
AppStops ==
  /\ Watching
  /\ phase' = "down"
  /\ events' = <<>>
  /\ todo' = {} /\ cur' = NoStem /\ step' = "idle" /\ data' = NoFile
  /\ pending' = {} /\ emails' = {} /\ removing' = NoId
  /\ fileToID' = [s \in Stems |-> NoId]
  /\ UNCHANGED <<json, held, dirs, old, att, rejected>>

WatcherThread(mayOutlast) ==
  \/ AddWatch \/ ListExisting \/ ListDirs \/ SweepRemove \/ EnterLoop
  \/ \E s \in Stems : SweepCheck(s) \/ BeginFile(s)
  \/ ReadFile \/ GiveUpReading(mayOutlast) \/ MoveToErrors \/ InsertEmail
  \/ HandleEvent \/ Tick(mayOutlast)
=============================================================================

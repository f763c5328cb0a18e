-------------------------- MODULE MailPipeline_proofs --------------------------
(***************************************************************************)
(* Theorems about MailPipeline, for every set of messages, stems and       *)
(* attachment names and any number of restarts, when no two messages get   *)
(* the same stem (UniqueStems).                                            *)
(***************************************************************************)
EXTENDS MailPipeline, TLAPS

\* The message that picked stem s has ended its call.
Settled(s) == \E m \in Msgs : stem[m] = s /\ wpc[m] \in WriterDone

\* The notification that the JSON of s is gone is queued.
Announced(s) == \E i \in DOMAIN events : events[i] = <<"remove", s>>

\* The writers: one stem each, and what they copied is there.
WriterInv ==
  /\ \A m \in Msgs : wpc[m] = "start" <=> stem[m] = NoStem
  /\ \A m, n \in Msgs : stem[m] = stem[n] /\ stem[m] # NoStem => m = n
  /\ \A m \in Msgs : wpc[m] = "start" => copied[m] = 0
  /\ \A m \in Msgs : wpc[m] = "copy" =>
       /\ copied[m] < Len(Copies[m])
       /\ \A i \in 1..copied[m] : <<Copies[m][i], m>> \in att[stem[m]]
  /\ InFlightSpared

\* The directory: each file belongs to the message that picked its stem.
FileInv ==
  /\ \A s \in Stems : json[s] \in Msgs => stem[json[s]] = s /\ wpc[json[s]] = "ok"
  /\ \A s \in Stems : json[s] = Broken =>
       \E m \in Msgs : stem[m] = s /\ wpc[m] \in {"write", "failed", "killed"}
  /\ \A m \in Msgs : wpc[m] = "write" => json[stem[m]] = Broken /\ stem[m] \in held
  /\ \A s \in Stems : \A f \in att[s] : stem[f[2]] = s
  /\ \A s \in dirs : \E m \in Msgs : stem[m] = s
  /\ \A s \in old : Settled(s)

\* An id of stem s names a valid message that was queued under it.
IdOf(s, id) ==
  id[1] = s /\ Valid(id[2]) /\ stem[id[2]] = s /\ wpc[id[2]] = "ok"

\* The watcher works on a stem, lists queued messages; its sweep and the removal that holds the lock
\* leave the writers in flight alone.
StepInv ==
  /\ step # "idle" => cur \in Stems
  /\ step = "insert" => IdOf(cur, <<cur, data>>)
  /\ \A s \in Stems : fileToID[s] # NoId => IdOf(s, fileToID[s])
  /\ phase = "sweep" => \A s \in todo : Settled(s)
  /\ step = "sweep" => Settled(cur) /\ json[cur] = NoFile
  /\ removing # NoId => Settled(removing[1]) /\ json[removing[1]] = NoFile

DirInv == TypeOK /\ WriterInv /\ FileInv /\ StepInv /\ AttachmentsIntact

-----------------------------------------------------------------------------
(* Types.                                                                  *)

\* A message still to be written has no JSON.
LEMMA NoJsonYet ==
  ASSUME TypeOK, WriterInv, FileInv, NEW m \in Msgs, wpc[m] \in {"copy", "json"}
  PROVE  stem[m] \in Stems /\ json[stem[m]] = NoFile /\ ~Settled(stem[m]) /\ stem[m] \notin old
  <1>1. stem[m] \in Stems
    BY DEF TypeOK, WriterTypeOK, WriterInv
  <1>2. json[stem[m]] \in Msgs \cup {Broken, NoFile}
    BY <1>1 DEF TypeOK, DirTypeOK, Contents
  <1>3. \A n \in Msgs : stem[n] = stem[m] => n = m
    BY <1>1, QueueDirAssumption DEF WriterInv, QueueDirAssumption
  <1>4. json[stem[m]] = NoFile
    BY <1>1, <1>2, <1>3 DEF FileInv
  <1>5. ~Settled(stem[m])
    BY <1>3 DEF Settled, WriterDone
  <1> QED BY <1>1, <1>4, <1>5 DEF FileInv

\* The steps of a writer keep the types.
LEMMA WriterTypes ==
  ASSUME TypeOK, WriterInv, NEW m \in Msgs, Write(m)
  PROVE  TypeOK'
  <1>0. /\ UNCHANGED <<watcherVars, env>> /\ WatcherTypeOK' /\ (consumed \subseteq Msgs)'
        /\ (stops \in 0..MaxStops)'
    BY DEF Write, TypeOK, WatcherTypeOK, watcherVars, env, EmailIds
  <1>1. DirTypeOK /\ WriterTypeOK
    BY DEF TypeOK
  <1>2. WriterStep(m, Watching)
    BY DEF Write
  <1>3. wpc[m] # "start" => stem[m] \in Stems
    BY <1>1 DEF WriterTypeOK, WriterInv
  <1>4. SUFFICES DirTypeOK' /\ WriterTypeOK'
    BY <1>0 DEF TypeOK
  <1>5. ASSUME NEW op \in {"create", "write"}, NEW s \in Stems, Notify(Watching, op, s)
        PROVE  events' \in Seq(Event)
    BY <1>1, <1>5 DEF Notify, DirTypeOK, Event
  <1>6. CASE BeginMessage(m)
    <2>1. PICK s \in Stems : stem' = [stem EXCEPT ![m] = s] /\ dirs' \in {dirs, dirs \cup {s}}
          /\ wpc' \in {[wpc EXCEPT ![m] = pc] : pc \in {"json", "copy", "failed"}}
      BY <1>6 DEF BeginMessage, CandidateStems, WriterGoto
    <2> QED BY <1>1, <1>6, <2>1
         DEF BeginMessage, DirTypeOK, WriterTypeOK, WriterInFlight, WriterDone
  <1>7. CASE CopyAttachment(m)
    <2>1. copied[m] \in Nat /\ copied[m] < Len(Copies[m]) /\ Copies[m] \in Seq(Names)
      BY <1>1, <1>7, QueueDirAssumption
      DEF CopyAttachment, WriterAt, WriterInv, WriterTypeOK, QueueDirAssumption
    <2>2. Copies[m][copied[m] + 1] \in Names
      BY <2>1
    <2>3. wpc' \in {[wpc EXCEPT ![m] = pc] : pc \in {"json", "copy"}}
      BY <1>7 DEF CopyAttachment, WriterGoto
    <2>4. copied' = [copied EXCEPT ![m] = @ + 1] /\ copied' \in [Msgs -> Nat]
      BY <1>1, <1>7 DEF CopyAttachment, WriterTypeOK
    <2>5. att' = [att EXCEPT ![stem[m]] = @ \cup {<<Copies[m][copied[m] + 1], m>>}]
      BY <1>7 DEF CopyAttachment
    <2>6. stem[m] \in Stems
      BY <1>3, <1>7 DEF CopyAttachment, WriterAt
    <2>7. att' \in [Stems -> SUBSET (Names \X Msgs)]
      BY <1>1, <2>2, <2>5, <2>6 DEF DirTypeOK
    <2>8. UNCHANGED <<json, held, dirs, events, stem>> /\ old' = old \ {stem[m]}
      BY <1>7 DEF CopyAttachment
    <2> QED BY <1>1, <2>3, <2>4, <2>7, <2>8
         DEF DirTypeOK, WriterTypeOK, WriterInFlight, WriterDone
  <1>8. CASE CopyFails(m)
    <2>1. stem[m] \in Stems
      BY <1>3, <1>8 DEF CopyFails, WriterAt
    <2>2. PICK left \in SUBSET att[stem[m]] :
             /\ att' = [att EXCEPT ![stem[m]] = left]
             /\ dirs' = IF left = {} THEN dirs \ {stem[m]} ELSE dirs
             /\ old' = IF left # {} /\ left = att[stem[m]] THEN old ELSE old \ {stem[m]}
      BY <1>8 DEF CopyFails
    <2>3. att' \in [Stems -> SUBSET (Names \X Msgs)] /\ dirs' \subseteq Stems /\ old' \subseteq dirs'
      BY <1>1, <2>1, <2>2 DEF DirTypeOK
    <2> QED BY <1>1, <1>8, <2>3
         DEF CopyFails, WriterGoto, DirTypeOK, WriterTypeOK, WriterInFlight, WriterDone
  <1>9. CASE CreateJson(m, Watching) \/ WriteJson(m, Watching)
    <2>1. stem[m] \in Stems
      BY <1>3, <1>9 DEF CreateJson, WriteJson, WriterAt
    <2>2. events' \in Seq(Event)
      BY <1>5, <1>9, <2>1 DEF CreateJson, WriteJson
    <2>3. json' \in [Stems -> Contents \cup {NoFile}]
      BY <1>1, <1>9 DEF CreateJson, WriteJson, DirTypeOK, Contents
    <2>4. held' \subseteq Stems
      BY <1>1, <1>9, <2>1 DEF CreateJson, WriteJson, DirTypeOK
    <2>5. wpc' \in {[wpc EXCEPT ![m] = pc] : pc \in {"write", "ok"}}
      BY <1>9 DEF CreateJson, WriteJson, WriterGoto
    <2>6. UNCHANGED <<dirs, old, att, stem, copied>>
      BY <1>9 DEF CreateJson, WriteJson
    <2> QED BY <1>1, <2>2, <2>3, <2>4, <2>5, <2>6
         DEF DirTypeOK, WriterTypeOK, WriterInFlight, WriterDone
  <1>10. CASE CreateJsonFails(m) \/ HostDies(m)
    BY <1>1, <1>10 DEF CreateJsonFails, HostDies, WriterGoto, DirTypeOK, WriterTypeOK,
                       WriterInFlight, WriterDone, RemoveDir
  <1>11. CASE WriteJsonFails(m, Watching)
    <2>1. stem[m] \in Stems
      BY <1>3, <1>11 DEF WriteJsonFails, WriterAt
    <2>2. events' \in Seq(Event)
      BY <1>5, <1>11, <2>1 DEF WriteJsonFails
    <2> QED BY <1>1, <1>11, <2>2
         DEF WriteJsonFails, WriterGoto, DirTypeOK, WriterTypeOK, WriterInFlight, WriterDone,
             RemoveDir
  <1> QED BY <1>2, <1>6, <1>7, <1>8, <1>9, <1>10, <1>11 DEF WriterStep, WriterProgress

\* The steps of the watcher and of the removals keep the types.
LEMMA WatchTypes ==
  ASSUME TypeOK, StepInv, Watch \/ EndConsume \/ Stop \/ \E id \in EmailIds : Consume(id)
  PROVE  TypeOK'
  <1>1. DirTypeOK /\ WatcherTypeOK /\ WriterTypeOK
    BY DEF TypeOK
  <1>2. UNCHANGED writerVars /\ (consumed \subseteq Msgs)' /\ (stops \in 0..MaxStops)'
    BY PipelineAssumption
    DEF TypeOK, Watch, EndConsume, Stop, Consume, env, EmailIds, PipelineAssumption
  <1>3. WriterTypeOK'
    BY <1>1, <1>2 DEF WriterTypeOK, writerVars
  <1>4. SUFFICES DirTypeOK' /\ WatcherTypeOK'
    BY <1>2, <1>3 DEF TypeOK
  <1> USE DEF dirVars, scratch, lists
  <1>5. ASSUME UNCHANGED dirVars, WatcherTypeOK' PROVE DirTypeOK' /\ WatcherTypeOK'
    BY <1>1, <1>5 DEF DirTypeOK
  <1>6. ASSUME NEW s \in Stems, events' = Append(events, <<"remove", s>>)
        PROVE  events' \in Seq(Event)
    BY <1>1, <1>6 DEF DirTypeOK, Event
  <1>7. CASE AddWatch
    BY <1>1, <1>7 DEF AddWatch, DirTypeOK, WatcherTypeOK
  <1>8. CASE ListExisting \/ ListDirs \/ EnterLoop
    BY <1>1, <1>5, <1>8
    DEF ListExisting, ExistingFiles, ListDirs, SweepTargets, EnterLoop, DirTypeOK, WatcherTypeOK
  <1>9. ASSUME NEW s \in Stems, SweepCheck(s) \/ BeginFile(s) PROVE DirTypeOK' /\ WatcherTypeOK'
    BY <1>1, <1>5, <1>9 DEF SweepCheck, BeginFile, WatcherTypeOK
  <1>10. CASE SweepRemove
    BY <1>1, <1>10 DEF SweepRemove, RemoveDir, DirTypeOK, WatcherTypeOK
  <1>11. CASE ReadFile
    BY <1>1, <1>5, <1>11 DEF ReadFile, StepInv, DirTypeOK, WatcherTypeOK
  <1>12. CASE GiveUpReading(MayOutlast)
    BY <1>1, <1>5, <1>12 DEF GiveUpReading, WatcherTypeOK
  <1>13. CASE MoveToErrors
    <2>1. cur \in Stems
      BY <1>13 DEF MoveToErrors, StepInv
    <2>2. events' \in Seq(Event)
      BY <1>1, <1>6, <1>13, <2>1 DEF MoveToErrors, DirTypeOK
    <2>3. json' \in [Stems -> Contents \cup {NoFile}]
      BY <1>1, <1>13 DEF MoveToErrors, DirTypeOK
    <2>4. rejected' \subseteq Contents
      BY <1>1, <1>13, <2>1 DEF MoveToErrors, DirTypeOK, WatcherTypeOK, Accessible
    <2> QED BY <1>1, <1>13, <2>2, <2>3, <2>4 DEF MoveToErrors, DirTypeOK, WatcherTypeOK
  <1>14. CASE InsertEmail
    <2>1. cur \in Stems /\ data \in Msgs
      BY <1>14 DEF InsertEmail, StepInv, IdOf, Valid
    <2>2. <<cur, data>> \in EmailIds
      BY <2>1 DEF EmailIds
    <2> QED BY <1>1, <1>5, <1>14, <2>2 DEF InsertEmail, WatcherTypeOK
  <1>15. CASE HandleEvent
    <2>1. Head(events) \in Event /\ events' \in Seq(Event)
      BY <1>1, <1>15 DEF HandleEvent, DirTypeOK
    <2>2. Head(events)[2] \in Stems
      BY <2>1 DEF Event
    <2>3. pending' \subseteq Stems /\ emails' \subseteq EmailIds
          /\ fileToID' \in [Stems -> EmailIds \cup {NoId}]
      BY <1>1, <1>15, <2>2 DEF HandleEvent, HandleRemove, WatcherTypeOK
    <2> QED BY <1>1, <1>15, <2>1, <2>3 DEF HandleEvent, DirTypeOK, WatcherTypeOK
  <1>16. CASE Tick(MayOutlast)
    BY <1>1, <1>5, <1>16 DEF Tick, WatcherTypeOK
  <1>17. ASSUME NEW id \in EmailIds, RemoveEmail(id) PROVE DirTypeOK' /\ WatcherTypeOK'
    <2>1. PICK s \in Stems : /\ json' = [json EXCEPT ![s] = NoFile]
                             /\ events' = Append(events, <<"remove", s>>)
      BY <1>17 DEF RemoveEmail
    <2> QED BY <1>1, <1>6, <1>17, <2>1 DEF RemoveEmail, DirTypeOK, WatcherTypeOK
  <1>18. CASE FinishRemoval
    BY <1>1, <1>18
    DEF FinishRemoval, Cleanup, RemoveDir, Unfiled, DirTypeOK, WatcherTypeOK
  <1>19. CASE AppStops
    BY <1>1, <1>19 DEF AppStops, DirTypeOK, WatcherTypeOK
  <1> QED BY <1>7, <1>8, <1>9, <1>10, <1>11, <1>12, <1>13, <1>14, <1>15, <1>16, <1>17, <1>18, <1>19
       DEF Watch, WatcherThread, EndConsume, Stop, Consume

\* The steps of scanners and of time keep the types.
LEMMA OutsideTypes ==
  ASSUME TypeOK, NEW s \in Stems, ScannerOpens(s) \/ ScannerCloses(s) \/ GrowOld(s)
  PROVE  TypeOK'
  BY DEF TypeOK, DirTypeOK, WriterTypeOK, WatcherTypeOK, ScannerOpens, ScannerCloses, GrowOld,
         writerVars, watcherVars, env, EmailIds
-----------------------------------------------------------------------------
(* The steps of the writers.                                               *)

\* What a step of the writer of m leaves alone.
Elsewhere(m) ==
  /\ UNCHANGED <<watcherVars, env>>
  /\ \A n \in Msgs \ {m} : wpc'[n] = wpc[n] /\ stem'[n] = stem[n] /\ copied'[n] = copied[n]
  /\ wpc[m] \notin WriterDone /\ wpc'[m] # "start" /\ stem'[m] \in Stems
  /\ \A n \in Msgs \ {m} : stem'[m] # stem[n]
  /\ wpc[m] # "start" => stem'[m] = stem[m]
  /\ \A s \in Stems \ {stem'[m]} : json'[s] = json[s] /\ att'[s] = att[s]
  /\ dirs' \subseteq dirs \cup {stem'[m]}
  /\ old' \subseteq old /\ stem'[m] \notin old
  /\ held \subseteq held' \cup {stem'[m]}
  /\ events' = events \/ \E op \in {"create", "write"} : events' = Append(events, <<op, stem'[m]>>)
  /\ events' # events \/ wpc[m] = "write" => wpc'[m] \in {"write"} \cup WriterDone

\* What it makes of its own files.
Own(m) ==
  /\ wpc'[m] = "copy" => /\ copied'[m] < Len(Copies[m])
                         /\ \A i \in 1..copied'[m] : <<Copies[m][i], m>> \in att'[stem'[m]]
  /\ wpc'[m] \in {"json", "write"} => Needs(m) \subseteq att'[stem'[m]]
  /\ wpc'[m] = "write" => json'[stem'[m]] = Broken /\ stem'[m] \in held'
  /\ json'[stem'[m]] \in {NoFile, Broken, m}
  /\ json'[stem'[m]] = m <=> wpc'[m] = "ok"
  /\ json'[stem'[m]] = m => Needs(m) \subseteq att'[stem'[m]]
  /\ json'[stem'[m]] = Broken => wpc'[m] \in {"write", "failed", "killed"}
  /\ \A f \in att'[stem'[m]] : f[2] = m

\* A step of a writer touches only its own files.
LEMMA WriterElsewhere ==
  ASSUME UniqueStems, DirInv, NEW m \in Msgs, Write(m)
  PROVE  Elsewhere(m)
  <1>1. DirTypeOK /\ WriterTypeOK /\ WriterInv /\ FileInv
    BY DEF DirInv, TypeOK
  <1>2. UNCHANGED <<watcherVars, env>> /\ WriterStep(m, Watching)
    BY DEF Write
  <1>3. wpc[m] # "start" => stem[m] \in Stems /\ \A n \in Msgs \ {m} : stem[m] # stem[n]
    BY <1>1, QueueDirAssumption DEF WriterTypeOK, WriterInv, QueueDirAssumption
  <1>4. wpc[m] \in {"copy", "json"} => stem[m] \notin old
    BY NoJsonYet DEF DirInv
  <1>5. wpc[m] = "write" => stem[m] \notin old
    BY <1>1, <1>3 DEF FileInv, Settled, WriterDone
  <1>6. CASE BeginMessage(m)
    <2>1. PICK s \in Stems : s \notin {stem[n] : n \in Msgs} /\ stem' = [stem EXCEPT ![m] = s]
          /\ dirs' \subseteq dirs \cup {s}
          /\ wpc' \in {[wpc EXCEPT ![m] = pc] : pc \in {"json", "copy", "failed"}}
      BY <1>6 DEF BeginMessage, CandidateStems, WriterGoto
    <2>2. s \notin old
      BY <1>1, <2>1 DEF FileInv, Settled
    <2>3. wpc[m] = "start" /\ UNCHANGED <<json, held, old, att, events, copied>>
      BY <1>6 DEF BeginMessage, WriterAt
    <2>4. stem'[m] = s /\ \A n \in Msgs \ {m} : stem'[n] = stem[n] /\ wpc'[n] = wpc[n]
      BY <1>1, <2>1 DEF WriterTypeOK
    <2>5. wpc'[m] # "start"
      BY <1>1, <2>1 DEF WriterTypeOK
    <2> QED BY <1>2, <2>1, <2>2, <2>3, <2>4, <2>5 DEF Elsewhere, WriterDone
  <1>7. CASE CopyAttachment(m)
    BY <1>1, <1>2, <1>3, <1>4, <1>7
    DEF CopyAttachment, WriterAt, WriterGoto, Elsewhere, DirTypeOK, WriterTypeOK, WriterDone
  <1>8. CASE CopyFails(m)
    BY <1>1, <1>2, <1>3, <1>4, <1>8
    DEF CopyFails, WriterAt, WriterGoto, Elsewhere, DirTypeOK, WriterTypeOK, WriterDone
  <1>9. CASE CreateJson(m, Watching)
    BY <1>1, <1>2, <1>3, <1>4, <1>9
    DEF CreateJson, WriterAt, WriterGoto, Notify, Elsewhere, DirTypeOK, WriterTypeOK, WriterDone
  <1>10. CASE CreateJsonFails(m)
    BY <1>1, <1>2, <1>3, <1>4, <1>10
    DEF CreateJsonFails, WriterAt, WriterGoto, RemoveDir, Elsewhere, DirTypeOK, WriterTypeOK,
        WriterDone
  <1>11. CASE WriteJson(m, Watching)
    BY <1>1, <1>2, <1>3, <1>5, <1>11
    DEF WriteJson, WriterAt, WriterGoto, Notify, Elsewhere, DirTypeOK, WriterTypeOK, WriterDone
  <1>12. CASE WriteJsonFails(m, Watching)
    BY <1>1, <1>2, <1>3, <1>5, <1>12
    DEF WriteJsonFails, WriterAt, WriterGoto, Notify, RemoveDir, Elsewhere, DirTypeOK,
        WriterTypeOK, WriterDone
  <1>13. CASE HostDies(m)
    BY <1>1, <1>2, <1>3, <1>4, <1>5, <1>13
    DEF HostDies, WriterAt, WriterGoto, Elsewhere, DirTypeOK, WriterTypeOK, WriterDone,
        WriterInFlight
  <1> QED BY <1>2, <1>6, <1>7, <1>8, <1>9, <1>10, <1>11, <1>12, <1>13 DEF WriterStep, WriterProgress

\* A step of a writer keeps its own files in order.
LEMMA WriterOwn ==
  ASSUME UniqueStems, DirInv, NEW m \in Msgs, Write(m)
  PROVE  Own(m)
  <1>1. DirTypeOK /\ WriterTypeOK /\ WriterInv /\ FileInv /\ TypeOK
    BY DEF DirInv, TypeOK
  <1>2. WriterStep(m, Watching) /\ NoFile \notin Msgs /\ Broken \notin Msgs /\ NoFile # Broken
    BY QueueDirAssumption DEF Write, QueueDirAssumption
  <1>3. wpc[m] # "start" => stem[m] \in Stems /\ \A f \in att[stem[m]] : f[2] = m
    BY <1>1, QueueDirAssumption DEF DirTypeOK, WriterTypeOK, WriterInv, FileInv, QueueDirAssumption
  <1>4. wpc[m] \in {"copy", "json"} => json[stem[m]] = NoFile
    BY <1>1, NoJsonYet
  <1>5. wpc[m] = "write" => json[stem[m]] = Broken /\ Needs(m) \subseteq att[stem[m]]
    BY <1>1 DEF FileInv, WriterInv, InFlightSpared
  <1>6. wpc[m] = "json" => Needs(m) \subseteq att[stem[m]]
    BY <1>1 DEF WriterInv, InFlightSpared
  <1>7. CASE BeginMessage(m)
    <2>1. PICK s \in Stems : s \notin {stem[n] : n \in Msgs} /\ stem' = [stem EXCEPT ![m] = s]
          /\ \/ Copies[m] = <<>> /\ wpc' = [wpc EXCEPT ![m] = "json"]
             \/ Copies[m] # <<>> /\ wpc' = [wpc EXCEPT ![m] = "copy"]
             \/ wpc' = [wpc EXCEPT ![m] = "failed"]
      BY <1>7 DEF BeginMessage, CandidateStems, WriterGoto
    <2>2. json[s] = NoFile /\ att[s] = {}
      BY <1>1, <2>1 DEF FileInv, DirTypeOK, Contents
    <2>3. stem'[m] = s /\ wpc'[m] \in {"json", "copy", "failed"} /\ UNCHANGED <<json, att, copied>>
          /\ copied[m] = 0
      BY <1>1, <1>7, <2>1 DEF BeginMessage, WriterAt, WriterTypeOK, WriterInv
    <2>4. wpc'[m] = "json" => Needs(m) = {}
      BY <1>1, <2>1 DEF WriterTypeOK, Needs, NamesOf
    <2>5. wpc'[m] = "copy" => 0 < Len(Copies[m])
      BY <1>1, <2>1, QueueDirAssumption DEF WriterTypeOK, QueueDirAssumption
    <2> QED BY <1>2, <2>2, <2>3, <2>4, <2>5 DEF Own
  <1>8. CASE CopyAttachment(m)
    <2> DEFINE k == copied[m] + 1
    <2>1. wpc[m] = "copy" /\ copied[m] \in Nat /\ copied[m] < Len(Copies[m])
          /\ Copies[m] \in Seq(Names)
      BY <1>1, <1>8, QueueDirAssumption
      DEF CopyAttachment, WriterAt, WriterInv, WriterTypeOK, QueueDirAssumption
    <2>2. /\ att'[stem[m]] = att[stem[m]] \cup {<<Copies[m][k], m>>}
          /\ copied'[m] = k /\ UNCHANGED <<json, stem>>
          /\ wpc'[m] = IF k = Len(Copies[m]) THEN "json" ELSE "copy"
      BY <1>1, <1>3, <1>8, <2>1 DEF CopyAttachment, WriterGoto, DirTypeOK, WriterTypeOK
    <2>3. \A i \in 1..k : <<Copies[m][i], m>> \in att'[stem[m]]
      <3>1. \A i \in 1..copied[m] : <<Copies[m][i], m>> \in att[stem[m]]
        BY <1>1, <2>1 DEF WriterInv
      <3>2. \A i \in 1..k : i \in 1..copied[m] \/ i = k
        BY <2>1
      <3> QED BY <2>2, <3>1, <3>2
    <2>4. k = Len(Copies[m]) => Needs(m) \subseteq att'[stem[m]]
      BY <2>3 DEF Needs, NamesOf
    <2>5. k # Len(Copies[m]) => k < Len(Copies[m])
      BY <2>1
    <2>6. \A f \in att'[stem[m]] : f[2] = m
      BY <1>3, <2>1, <2>2
    <2> HIDE DEF k
    <2> QED BY <1>2, <1>4, <2>1, <2>2, <2>3, <2>4, <2>5, <2>6 DEF Own
  <1>9. CASE CopyFails(m)
    BY <1>1, <1>2, <1>3, <1>4, <1>9
    DEF CopyFails, WriterAt, WriterGoto, Own, DirTypeOK, WriterTypeOK
  <1>10. CASE CreateJson(m, Watching)
    BY <1>1, <1>2, <1>3, <1>6, <1>10
    DEF CreateJson, WriterAt, WriterGoto, Own, DirTypeOK, WriterTypeOK
  <1>11. CASE CreateJsonFails(m)
    BY <1>1, <1>2, <1>3, <1>4, <1>11
    DEF CreateJsonFails, WriterAt, WriterGoto, RemoveDir, Own, DirTypeOK, WriterTypeOK
  <1>12. CASE WriteJson(m, Watching)
    BY <1>1, <1>2, <1>3, <1>5, <1>12
    DEF WriteJson, WriterAt, WriterGoto, Own, DirTypeOK, WriterTypeOK
  <1>13. CASE WriteJsonFails(m, Watching)
    BY <1>1, <1>2, <1>3, <1>5, <1>13
    DEF WriteJsonFails, WriterAt, WriterGoto, RemoveDir, Own, DirTypeOK, WriterTypeOK
  <1>14. CASE HostDies(m)
    BY <1>1, <1>2, <1>3, <1>4, <1>5, <1>14
    DEF HostDies, WriterGoto, WriterInFlight, Own, DirTypeOK, WriterTypeOK
  <1> QED BY <1>2, <1>7, <1>8, <1>9, <1>10, <1>11, <1>12, <1>13, <1>14 DEF WriterStep, WriterProgress
\* A message whose call has ended keeps its stem; a writer leaves its files be.
LEMMA SettledStays ==
  ASSUME DirInv, NEW m \in Msgs, Elsewhere(m), NEW s \in Stems, Settled(s)
  PROVE  Settled(s)' /\ json'[s] = json[s] /\ att'[s] = att[s]
  <1>1. PICK n \in Msgs : stem[n] = s /\ wpc[n] \in WriterDone
    BY DEF Settled
  <1>2. n # m
    BY <1>1 DEF Elsewhere
  <1>3. stem'[n] = s /\ wpc'[n] \in WriterDone /\ s # stem'[m]
    BY <1>1, <1>2 DEF Elsewhere
  <1> QED BY <1>3 DEF Elsewhere, Settled, WriterDone

\* A step of a writer keeps the directory in order.
LEMMA WriterKeepsDir ==
  ASSUME UniqueStems, DirInv, NEW m \in Msgs, Write(m)
  PROVE  DirInv'
  <1>1. Elsewhere(m) /\ Own(m)
    BY WriterElsewhere, WriterOwn
  <1>2. TypeOK'
    BY WriterTypes DEF DirInv
  <1>3. TypeOK /\ WriterInv /\ FileInv /\ StepInv /\ AttachmentsIntact
    BY DEF DirInv
  <1>4. \A n \in Msgs : wpc[n] # "start" => stem[n] \in Stems
    BY <1>3 DEF TypeOK, WriterTypeOK, WriterInv
  <1>5. \A n \in Msgs \ {m} : wpc[n] # "start" => stem[n] \in Stems \ {stem'[m]}
    BY <1>1, <1>4 DEF Elsewhere
  <1>6. \A n \in Msgs : stem'[n] # NoStem => \A k \in Msgs : stem'[k] = stem'[n] => n = k
    BY <1>1, <1>3 DEF Elsewhere, WriterInv
  <1>7. NoStem \notin Stems /\ NoFile \notin Msgs /\ Broken \notin Msgs /\ NoFile # Broken
    BY QueueDirAssumption DEF QueueDirAssumption
  <1>8. WriterInv'
    <2>1. \A n \in Msgs : wpc'[n] = "start" <=> stem'[n] = NoStem
      BY <1>1, <1>3, <1>7 DEF Elsewhere, WriterInv
    <2>2. \A n \in Msgs : wpc'[n] = "start" => copied'[n] = 0
      BY <1>1, <1>3 DEF Elsewhere, WriterInv
    <2>3. \A n \in Msgs : wpc'[n] = "copy" =>
            /\ copied'[n] < Len(Copies[n])
            /\ \A i \in 1..copied'[n] : <<Copies[n][i], n>> \in att'[stem'[n]]
      <3>1. CASE wpc'[m] = "copy"
        BY <1>1, <1>3, <1>5 DEF Elsewhere, Own, WriterInv
      <3>2. CASE wpc'[m] # "copy"
        BY <1>1, <1>3, <1>5, <3>2 DEF Elsewhere, WriterInv
      <3> QED BY <3>1, <3>2
    <2>4. \A n \in Msgs : wpc'[n] \in {"json", "write"} => Needs(n) \subseteq att'[stem'[n]]
      BY <1>1, <1>3, <1>5 DEF Elsewhere, Own, WriterInv, InFlightSpared
    <2> QED BY <1>6, <2>1, <2>2, <2>3, <2>4 DEF WriterInv, InFlightSpared, Needs, NamesOf
  <1>9. FileInv'
    <2>1. ASSUME NEW s \in Stems, json'[s] \in Msgs
          PROVE  stem'[json'[s]] = s /\ wpc'[json'[s]] = "ok"
      <3>1. CASE s = stem'[m]
        BY <1>1, <1>7, <2>1, <3>1 DEF Own
      <3>2. CASE s # stem'[m]
        <4>1. json'[s] = json[s] /\ json[s] # m
          BY <1>1, <1>3, <2>1, <3>2 DEF Elsewhere, FileInv, WriterDone
        <4> QED BY <1>1, <1>3, <2>1, <4>1 DEF Elsewhere, FileInv
      <3> QED BY <3>1, <3>2
    <2>2. ASSUME NEW s \in Stems, json'[s] = Broken
          PROVE  \E n \in Msgs : stem'[n] = s /\ wpc'[n] \in {"write", "failed", "killed"}
      <3>1. CASE s = stem'[m]
        BY <1>1, <2>2, <3>1 DEF Own
      <3>2. CASE s # stem'[m]
        <4>1. PICK n \in Msgs : stem[n] = s /\ wpc[n] \in {"write", "failed", "killed"}
          BY <1>1, <1>3, <2>2, <3>2 DEF Elsewhere, FileInv
        <4>2. n # m
          BY <1>1, <3>2, <4>1 DEF Elsewhere
        <4> QED BY <1>1, <4>1, <4>2 DEF Elsewhere
      <3> QED BY <3>1, <3>2
    <2>3. \A n \in Msgs : wpc'[n] = "write" => json'[stem'[n]] = Broken /\ stem'[n] \in held'
      BY <1>1, <1>3, <1>5 DEF Elsewhere, Own, FileInv
    <2>4. ASSUME NEW s \in Stems, NEW f \in att'[s] PROVE stem'[f[2]] = s
      <3>1. CASE s = stem'[m]
        BY <1>1, <2>4, <3>1 DEF Own
      <3>2. CASE s # stem'[m]
        <4>1. f \in att[s] /\ f[2] \in Msgs /\ stem[f[2]] = s
          BY <1>1, <1>3, <2>4, <3>2 DEF Elsewhere, FileInv, TypeOK, DirTypeOK
        <4>2. f[2] # m
          <5>1. wpc[m] # "start" => stem[m] # s
            BY <1>1, <3>2 DEF Elsewhere
          <5>2. wpc[m] = "start" => stem[m] = NoStem
            BY <1>3 DEF WriterInv
          <5> QED BY <1>7, <4>1, <5>1, <5>2
        <4> QED BY <1>1, <4>1, <4>2 DEF Elsewhere
      <3> QED BY <3>1, <3>2
    <2>5. \A s \in dirs' : \E n \in Msgs : stem'[n] = s
      <3>1. \A n \in Msgs : stem[n] # NoStem => stem'[n] = stem[n]
        BY <1>1, <1>3 DEF Elsewhere, WriterInv
      <3>2. \A s \in dirs : s # NoStem
        BY <1>3, <1>7 DEF TypeOK, DirTypeOK
      <3> QED BY <1>1, <1>3, <3>1, <3>2 DEF Elsewhere, FileInv
    <2>6. \A s \in old' : Settled(s)'
      <3>1. \A s \in old' : s \in Stems /\ Settled(s)
        BY <1>1, <1>3 DEF Elsewhere, FileInv, TypeOK, DirTypeOK
      <3> QED BY <1>1, <3>1, SettledStays
    <2> QED BY <2>1, <2>2, <2>3, <2>4, <2>5, <2>6 DEF FileInv
  <1>10. StepInv'
    <2>1. UNCHANGED <<phase, todo, cur, step, data, removing, fileToID>>
      BY <1>1 DEF Elsewhere, watcherVars
    <2>4. \A t, id : IdOf(t, id) => IdOf(t, id)'
      BY <1>1 DEF Elsewhere, WriterDone, IdOf, Valid
    <2>2. \A s \in Stems : Settled(s) => Settled(s)' /\ json'[s] = json[s]
      BY <1>1, SettledStays
    <2>3. todo \subseteq Stems /\ (removing # NoId => removing[1] \in Stems)
      BY <1>3 DEF TypeOK, WatcherTypeOK, EmailIds
    <2> HIDE DEF Settled
    <2> QED BY <1>3, <2>1, <2>2, <2>3, <2>4 DEF StepInv
  <1>11. AttachmentsIntact'
    <2>1. ASSUME NEW s \in Stems, json'[s] \in Msgs PROVE Needs(json'[s]) \subseteq att'[s]
      <3>1. CASE s = stem'[m]
        BY <1>1, <1>7, <2>1, <3>1 DEF Own
      <3>2. CASE s # stem'[m]
        BY <1>1, <1>3, <2>1, <3>2 DEF Elsewhere, AttachmentsIntact
      <3> QED BY <3>1, <3>2
    <2> QED BY <2>1 DEF AttachmentsIntact, Needs, NamesOf
  <1> QED BY <1>2, <1>8, <1>9, <1>10, <1>11 DEF DirInv
-----------------------------------------------------------------------------
(* The other steps.                                                        *)

\* What the application and the environment may do to the directory: a file that
\* nobody holds goes, and the copies of a message that has ended without JSON.
LEMMA FilesGo ==
  ASSUME DirInv, UNCHANGED writerVars,
         \A s \in Stems : json'[s] = json[s] \/ (json'[s] = NoFile /\ s \notin held),
         \A s \in Stems : \/ att'[s] = att[s]
                          \/ att'[s] = {} /\ Settled(s) /\ json[s] = NoFile,
         dirs' \subseteq dirs,
         \A s \in old' : s \in old \/ Settled(s),
         \A s \in held : s \in held' \/ ~BeingWritten(s)
  PROVE  WriterInv' /\ FileInv' /\ AttachmentsIntact'
  <1>1. TypeOK /\ WriterInv /\ FileInv /\ AttachmentsIntact /\ UNCHANGED <<wpc, stem, copied>>
    BY DEF DirInv, writerVars
  <1>2. NoFile \notin Msgs /\ Broken \notin Msgs /\ NoFile # Broken /\ NoStem \notin Stems
    BY QueueDirAssumption DEF QueueDirAssumption
  <1>3. \A m \in Msgs : wpc[m] \in WriterInFlight =>
          stem[m] \in Stems /\ att'[stem[m]] = att[stem[m]]
    <2>1. \A m \in Msgs : wpc[m] \in WriterInFlight => stem[m] \in Stems
      BY <1>1 DEF TypeOK, WriterTypeOK, WriterInv, WriterInFlight
    <2>2. \A m \in Msgs : wpc[m] \in WriterInFlight => ~Settled(stem[m])
      BY <1>1, <1>2, <2>1 DEF WriterInv, Settled, WriterInFlight, WriterDone
    <2> QED BY <2>1, <2>2
  <1>4. WriterInv'
    BY <1>1, <1>3 DEF WriterInv, InFlightSpared, WriterInFlight, Needs, NamesOf
  <1>5. FileInv'
    <2>1. \A s \in Stems : json'[s] \in Msgs \cup {Broken} => json'[s] = json[s]
      BY <1>2
    <2>2. \A m \in Msgs : wpc[m] = "write" => stem[m] \in held' /\ json'[stem[m]] = json[stem[m]]
      BY <1>1, <1>3 DEF FileInv, BeingWritten, WriterInFlight
    <2>3. \A s \in Stems : att'[s] \subseteq att[s]
      OBVIOUS
    <2>4. \A s \in old' : Settled(s)'
      BY <1>1 DEF FileInv, Settled
    <2> QED BY <1>1, <2>1, <2>2, <2>3, <2>4 DEF FileInv
  <1>6. AttachmentsIntact'
    <2>1. ASSUME NEW s \in Stems, json'[s] \in Msgs PROVE json'[s] = json[s] /\ att'[s] = att[s]
      BY <1>2, <2>1
    <2> QED BY <1>1, <2>1 DEF AttachmentsIntact, Needs, NamesOf
  <1> QED BY <1>4, <1>5, <1>6

\* Removing a directory of a message that has ended without JSON.
LEMMA DirGoes ==
  ASSUME DirInv, UNCHANGED <<writerVars, json, held>>, NEW s \in Stems, Settled(s),
         json[s] = NoFile, RemoveDir(s)
  PROVE  WriterInv' /\ FileInv' /\ AttachmentsIntact'
  <1>1. \A t \in Stems : att'[t] = IF t = s THEN {} ELSE att[t]
    BY DEF RemoveDir, DirInv, TypeOK, DirTypeOK
  <1>2. dirs' \subseteq dirs /\ old' \subseteq old
    BY DEF RemoveDir
  <1> QED BY <1>1, <1>2, FilesGo

\* Whose call has ended stays so while no writer moves.
LEMMA SettledRests ==
  ASSUME UNCHANGED writerVars, NEW s, Settled(s)
  PROVE  Settled(s)'
  BY DEF Settled, writerVars

\* The application and the environment keep the directory in order.
LEMMA OthersKeepDir ==
  ASSUME DirInv, \/ Watch \/ EndConsume \/ Stop
                 \/ \E id \in EmailIds : Consume(id)
                 \/ \E s \in Stems : ScannerOpens(s) \/ ScannerCloses(s) \/ GrowOld(s)
  PROVE  DirInv'
  <1>1. TypeOK /\ WriterInv /\ FileInv /\ StepInv /\ AttachmentsIntact
    BY DEF DirInv
  <1>2. TypeOK'
    BY <1>1, WatchTypes, OutsideTypes
  <1>3. UNCHANGED writerVars
    BY DEF Watch, EndConsume, Stop, Consume, ScannerOpens, ScannerCloses, GrowOld
  <1>4. /\ json \in [Stems -> Contents \cup {NoFile}] /\ todo \subseteq Stems
        /\ fileToID \in [Stems -> EmailIds \cup {NoId}] /\ old \subseteq Stems
        /\ removing \in EmailIds \cup {NoId} /\ NoFile \notin Contents
    BY <1>1, QueueDirAssumption
    DEF TypeOK, DirTypeOK, WatcherTypeOK, QueueDirAssumption, Contents
  <1>5. \A s : Settled(s) => Settled(s)'
    BY <1>3, SettledRests
  <1>ids. \A s, id : IdOf(s, id) => IdOf(s, id)'
    BY <1>3 DEF IdOf, writerVars
  <1>6. ASSUME UNCHANGED dirVars PROVE WriterInv' /\ FileInv' /\ AttachmentsIntact'
    BY <1>3, <1>6, FilesGo DEF DirInv, dirVars
  <1>7. SUFFICES WriterInv' /\ FileInv' /\ StepInv' /\ AttachmentsIntact'
    BY <1>2 DEF DirInv
  <1> HIDE DEF Settled, IdOf
  <1> USE DEF scratch, lists
  <1>8. CASE AddWatch
    <2>1. UNCHANGED <<json, held, dirs, old, att>> /\ phase' = "added"
          /\ UNCHANGED <<cur, step, data, removing, fileToID>>
      BY <1>8 DEF AddWatch
    <2>2. WriterInv' /\ FileInv' /\ AttachmentsIntact'
      BY <1>3, <2>1, FilesGo
    <2> QED BY <1>1, <1>5, <1>ids, <2>1, <2>2 DEF StepInv
  <1>9. CASE ListExisting \/ EnterLoop
    BY <1>1, <1>5, <1>ids, <1>6, <1>9 DEF ListExisting, EnterLoop, StepInv, dirVars
  <1>10. CASE ListDirs
    BY <1>1, <1>5, <1>ids, <1>6, <1>10 DEF ListDirs, SweepTargets, FileInv, StepInv, dirVars
  <1>11. ASSUME NEW s \in Stems, SweepCheck(s)
         PROVE  WriterInv' /\ FileInv' /\ StepInv' /\ AttachmentsIntact'
    BY <1>1, <1>5, <1>ids, <1>6, <1>11 DEF SweepCheck, IsOrphan, Free, StepInv, dirVars
  <1>12. ASSUME NEW s \in Stems, BeginFile(s)
         PROVE  WriterInv' /\ FileInv' /\ StepInv' /\ AttachmentsIntact'
    BY <1>1, <1>5, <1>ids, <1>6, <1>12 DEF BeginFile, Free, StepInv, dirVars
  <1>13. CASE SweepRemove
    <2>1. WriterInv' /\ FileInv' /\ AttachmentsIntact'
      BY <1>1, <1>3, <1>13, DirGoes DEF SweepRemove, StepInv
    <2> QED BY <1>1, <1>5, <1>ids, <1>13, <2>1 DEF SweepRemove, StepInv
  <1>14. CASE ReadFile
    <2>1. Valid(json[cur]) => IdOf(cur, <<cur, json[cur]>>)
      BY <1>1, <1>14 DEF ReadFile, FileInv, StepInv, IdOf, Valid
    <2> QED BY <1>1, <1>5, <1>ids, <1>6, <1>14, <2>1 DEF ReadFile, StepInv, dirVars
  <1>15. CASE GiveUpReading(MayOutlast)
    BY <1>1, <1>5, <1>ids, <1>6, <1>15 DEF GiveUpReading, StepInv, dirVars
  <1>16. CASE MoveToErrors
    <2>1. \A s \in Stems : json'[s] = json[s] \/ (json'[s] = NoFile /\ s \notin held)
      BY <1>4, <1>16 DEF MoveToErrors, Accessible
    <2>2. UNCHANGED <<held, dirs, old, att, phase, todo, removing, fileToID>> /\ step' = "idle"
      BY <1>16 DEF MoveToErrors
    <2>3. WriterInv' /\ FileInv' /\ AttachmentsIntact'
      BY <1>3, <2>1, <2>2, FilesGo
    <2>4. removing # NoId => removing[1] \in Stems
      BY <1>4 DEF EmailIds
    <2> QED BY <1>1, <1>5, <1>ids, <2>1, <2>2, <2>3, <2>4 DEF StepInv
  <1>17. CASE InsertEmail
    BY <1>1, <1>4, <1>5, <1>ids, <1>6, <1>17 DEF InsertEmail, StepInv, dirVars
  <1>18. CASE HandleEvent
    <2>1. UNCHANGED <<json, held, dirs, old, att, phase, todo, cur, step, data, removing>>
      BY <1>18 DEF HandleEvent
    <2>2. WriterInv' /\ FileInv' /\ AttachmentsIntact'
      BY <1>3, <2>1, FilesGo
    <2>3. \A s \in Stems : fileToID'[s] \in {fileToID[s], NoId}
      BY <1>4, <1>18 DEF HandleEvent, HandleRemove
    <2> QED BY <1>1, <1>5, <1>ids, <2>1, <2>2, <2>3 DEF StepInv
  <1>19. CASE Tick(MayOutlast)
    BY <1>1, <1>5, <1>ids, <1>6, <1>19 DEF Tick, InSelect, StepInv, dirVars
  <1>20. ASSUME NEW id \in EmailIds, RemoveEmail(id)
         PROVE  WriterInv' /\ FileInv' /\ StepInv' /\ AttachmentsIntact'
    <2>1. PICK s \in Stems : fileToID[s] = id /\ Accessible(s) /\ json' = [json EXCEPT ![s] = NoFile]
      BY <1>20 DEF RemoveEmail
    <2>2. UNCHANGED <<held, dirs, old, att, phase, todo, cur, step, data, fileToID>> /\ removing' = id
      BY <1>20 DEF RemoveEmail
    <2>3. \A t \in Stems : json'[t] = json[t] \/ (json'[t] = NoFile /\ t \notin held)
      BY <1>4, <2>1 DEF Accessible
    <2>4. WriterInv' /\ FileInv' /\ AttachmentsIntact'
      BY <1>3, <2>2, <2>3, FilesGo
    <2>5. id[1] = s /\ Settled(s) /\ json'[s] = NoFile
      <3>1. IdOf(s, id)
        BY <1>1, <2>1, NoIdAssumption DEF StepInv, EmailIds, NoIdAssumption
      <3> QED BY <1>4, <2>1, <3>1 DEF IdOf, Settled, WriterDone, Valid
    <2>6. \A t \in Stems : json[t] = NoFile => json'[t] = NoFile
      BY <2>3
    <2> QED BY <1>1, <1>4, <1>5, <1>ids, <2>2, <2>4, <2>5, <2>6 DEF StepInv
  <1>22. CASE FinishRemoval
    <2>1. removing # NoId /\ removing[1] \in Stems /\ RemoveDir(removing[1]) /\ removing' = NoId
          /\ UNCHANGED <<json, held, phase, todo, cur, step, data>>
      BY <1>4, <1>22 DEF FinishRemoval, Cleanup, EmailIds
    <2>2. WriterInv' /\ FileInv' /\ AttachmentsIntact'
      BY <1>1, <1>3, <2>1, DirGoes DEF StepInv
    <2>3. \A s \in Stems : fileToID'[s] \in {fileToID[s], NoId}
      BY <1>4, <1>22 DEF FinishRemoval, Unfiled
    <2> QED BY <1>1, <1>5, <1>ids, <2>1, <2>2, <2>3 DEF StepInv
  <1>23. CASE AppStops
    <2>1. WriterInv' /\ FileInv' /\ AttachmentsIntact'
      BY <1>3, <1>23, FilesGo DEF AppStops
    <2> QED BY <1>23, <2>1 DEF AppStops, StepInv
  <1>24. ASSUME NEW s \in Stems, ScannerOpens(s) \/ ScannerCloses(s) \/ GrowOld(s)
         PROVE  WriterInv' /\ FileInv' /\ StepInv' /\ AttachmentsIntact'
    <2>1. UNCHANGED <<json, dirs, att, watcherVars>>
      BY <1>24 DEF ScannerOpens, ScannerCloses, GrowOld
    <2>2. GrowOld(s) => Settled(s)
      <3>1. GrowOld(s) => \E m \in Msgs : stem[m] = s /\ wpc[m] \notin WriterInFlight
        BY <1>1 DEF GrowOld, FileInv
      <3>2. \A m \in Msgs : stem[m] = s => wpc[m] \in WriterInFlight \cup WriterDone
        BY <1>1, QueueDirAssumption DEF TypeOK, WriterTypeOK, WriterInv, QueueDirAssumption
      <3> QED BY <3>1, <3>2 DEF Settled
    <2>3. \A t \in old' : t \in old \/ Settled(t)
      BY <1>24, <2>2 DEF ScannerOpens, ScannerCloses, GrowOld
    <2>4. \A t \in held : t \in held' \/ ~BeingWritten(t)
      BY <1>24 DEF ScannerOpens, ScannerCloses, GrowOld
    <2>5. WriterInv' /\ FileInv' /\ AttachmentsIntact'
      BY <1>3, <2>1, <2>3, <2>4, FilesGo
    <2> QED BY <1>1, <1>5, <1>ids, <2>1, <2>5 DEF StepInv, watcherVars
  <1> QED BY <1>8, <1>9, <1>10, <1>11, <1>12, <1>13, <1>14, <1>15, <1>16, <1>17, <1>18, <1>19, <1>20,
             <1>22, <1>23, <1>24 DEF Watch, WatcherThread, EndConsume, Stop, Consume

\* The directory is in order at the start and after every step.
LEMMA DirCorrect == ASSUME UniqueStems PROVE Spec => []DirInv
  <1>1. Init => DirInv
    <2> SUFFICES ASSUME Init PROVE DirInv
      OBVIOUS
    <2> USE DEF Init, DirInit, WriterInit, WatcherInit, WatcherMemoryInit
    <2>1. TypeOK
      BY PipelineAssumption
      DEF TypeOK, DirTypeOK, WriterTypeOK, WatcherTypeOK, PipelineAssumption
    <2>2. WriterInv
      BY DEF WriterInv, InFlightSpared
    <2>3. FileInv /\ AttachmentsIntact
      BY QueueDirAssumption DEF FileInv, AttachmentsIntact, QueueDirAssumption
    <2>4. StepInv
      BY DEF StepInv
    <2> QED BY <2>1, <2>2, <2>3, <2>4 DEF DirInv
  <1>2. DirInv /\ [Next]_vars => DirInv'
    <2> SUFFICES ASSUME DirInv, [Next]_vars PROVE DirInv'
      OBVIOUS
    <2>1. CASE \E m \in Msgs : Write(m)
      BY <2>1, WriterKeepsDir
    <2>2. CASE UNCHANGED vars
      BY <2>2
      DEF vars, dirVars, writerVars, watcherVars, DirInv, TypeOK, DirTypeOK, WriterTypeOK,
          WatcherTypeOK, EmailIds, WriterInv, InFlightSpared, FileInv, AttachmentsIntact, StepInv,
          IdOf, Settled, Needs, NamesOf
    <2> QED BY <2>1, <2>2, OthersKeepDir DEF Next
  <1> QED BY <1>1, <1>2, PTL DEF Spec

\* Every variable of the pipeline keeps its type.
THEOREM TypeCorrect == ASSUME UniqueStems PROVE Spec => []TypeOK
  BY DirCorrect, PTL DEF DirInv

\* A JSON in the queue has all the attachments it names, whatever crashes, for any
\* number of messages.
THEOREM QueuedMailIsWhole == ASSUME UniqueStems PROVE Spec => []AttachmentsIntact
  BY DirCorrect, PTL DEF DirInv

\* Neither the sweep nor a rollback of another call takes the copies of a message
\* that is still to be queued.
THEOREM SweepSparesWriters == ASSUME UniqueStems PROVE Spec => []InFlightSpared
  BY DirCorrect, PTL DEF DirInv, WriterInv

-----------------------------------------------------------------------------
(* The lists of the watcher and what becomes of a queued message.          *)

\* The two maps agree and a listed id without its file is announced; so is one
\* that is about to be listed.
ListInv ==
  /\ phase = "down" => step = "idle" /\ removing = NoId /\ \A s \in Stems : fileToID[s] = NoId
  /\ step = "insert" => json[cur] = data \/ Announced(cur)
  /\ removing # NoId => fileToID[removing[1]] = removing /\ removing[2] \in consumed
  /\ MapsAgree
  /\ GhostsAnnounced

\* A queued message is on disk until it is consumed or rejected, and leaves no
\* copies when it is consumed.
EndInv ==
  /\ consumed \cap rejected = {}
  /\ \A m \in consumed \cup (rejected \cap Msgs) : wpc[m] = "ok" /\ json[stem[m]] = NoFile
  /\ \A m \in Msgs : wpc[m] = "ok" => json[stem[m]] = m \/ m \in consumed \cup rejected
  /\ stops = 0 =>
       \A m \in consumed : att[stem[m]] = {} \/ (removing # NoId /\ removing[2] = m)

\* The equation of the two maps, element by element.
Listed == \A id : id \in emails <=> id # NoId /\ \E s \in Stems : fileToID[s] = id

\* The two say the same.
LEMMA ListedMeansAgree == Listed <=> MapsAgree
  BY DEF Listed, MapsAgree

\* A notification stays queued when another one arrives.
LEMMA AnnouncedStays ==
  ASSUME TypeOK, NEW s, Announced(s), NEW e \in Event, events' = Append(events, e)
  PROVE  Announced(s)'
  <1>1. events \in Seq(Event)
    BY DEF TypeOK, DirTypeOK
  <1>2. PICK i \in DOMAIN events : events[i] = <<"remove", s>>
    BY DEF Announced
  <1>3. i \in 1..Len(events') /\ events'[i] = events[i] /\ DOMAIN events' = 1..Len(events')
    BY <1>1
  <1> QED BY <1>2, <1>3 DEF Announced

\* The stems of listed ids are settled, and an id is the only one of its stem.
LEMMA OneIdPerStem ==
  ASSUME DirInv, NEW s \in Stems, NEW id \in EmailIds, IdOf(s, id)
  PROVE  /\ Settled(s)
         /\ id = <<s, id[2]>>
         /\ \A jd \in EmailIds : IdOf(s, jd) => jd = id
         /\ \A m \in Msgs : stem[m] = s => m = id[2]
  <1>1. WriterInv /\ id[2] \in Msgs /\ id[1] = s /\ stem[id[2]] = s /\ wpc[id[2]] = "ok"
    BY DEF DirInv, IdOf, EmailIds
  <1>2. \A m \in Msgs : stem[m] = s => m = id[2]
    BY <1>1, QueueDirAssumption DEF WriterInv, QueueDirAssumption
  <1> QED BY <1>1, <1>2 DEF Settled, WriterDone, IdOf, EmailIds

\* The steps of the writers.
LEMMA WriterKeepsLists ==
  ASSUME UniqueStems, DirInv, ListInv, EndInv, NEW m \in Msgs, Write(m)
  PROVE  ListInv' /\ EndInv'
  <1>1. Elsewhere(m) /\ Own(m)
    BY WriterElsewhere, WriterOwn
  <1>2. TypeOK /\ StepInv
    BY DEF DirInv
  <1>3. UNCHANGED <<watcherVars, env>>
    BY <1>1 DEF Elsewhere
  <1>4. \A s \in Stems : Settled(s) => json'[s] = json[s] /\ att'[s] = att[s]
    BY <1>1, SettledStays
  <1>5. \A n \in Msgs : wpc[n] = "ok" =>
          /\ wpc'[n] = "ok" /\ stem'[n] = stem[n] /\ stem[n] \in Stems
          /\ json'[stem[n]] = json[stem[n]] /\ att'[stem[n]] = att[stem[n]]
    <2>1. ASSUME NEW n \in Msgs, wpc[n] = "ok"
          PROVE  wpc'[n] = "ok" /\ stem'[n] = stem[n] /\ stem[n] \in Stems /\ Settled(stem[n])
      <3>1. stem[n] \in Stems /\ Settled(stem[n])
        BY <2>1 DEF DirInv, TypeOK, WriterTypeOK, WriterInv, Settled, WriterDone
      <3> QED BY <1>1, <2>1, <3>1 DEF Elsewhere, WriterDone
    <2> QED BY <1>4, <2>1
  <1>6. \A s : Announced(s) => Announced(s)'
    <2>1. ASSUME NEW s, Announced(s), events' = events PROVE Announced(s)'
      BY <2>1 DEF Announced
    <2>2. stem'[m] \in Stems
      BY <1>1 DEF Elsewhere
    <2> QED BY <1>1, <1>2, <2>1, <2>2, AnnouncedStays DEF Elsewhere, Event
  <1>7. \A s \in Stems : fileToID[s] # NoId => json'[s] = json[s]
    BY <1>2, <1>4, OneIdPerStem DEF StepInv, TypeOK, WatcherTypeOK
  <1>8. step = "insert" => json'[cur] = json[cur]
    BY <1>2, <1>5 DEF StepInv, IdOf, Valid
  <1>9. ListInv'
    <2>1. MapsAgree' /\ UNCHANGED <<fileToID, removing, phase, step, cur, data, consumed>>
      BY <1>3 DEF watcherVars, env, ListInv, MapsAgree
    <2>2. GhostsAnnounced'
      <3> SUFFICES ASSUME NEW s \in Stems, fileToID[s] # NoId, json'[s] # fileToID[s][2]
                   PROVE  removing = fileToID[s] \/ Announced(s)'
        BY <2>1 DEF GhostsAnnounced, Announced
      <3> QED BY <1>6, <1>7 DEF ListInv, GhostsAnnounced, Announced
    <2> HIDE DEF Announced
    <2> QED BY <1>6, <1>8, <2>1, <2>2 DEF ListInv
  <1>10. EndInv'
    <2>1. UNCHANGED <<consumed, rejected, removing, stops>> /\ consumed \subseteq Msgs
      BY <1>2, <1>3 DEF watcherVars, env, TypeOK
    <2>2. \A n \in Msgs : wpc'[n] = "ok" => wpc[n] = "ok" \/ n = m
      BY <1>1 DEF Elsewhere
    <2> QED BY <1>1, <1>5, <2>1, <2>2 DEF EndInv, Own
  <1> QED BY <1>9, <1>10

\* An id leaves both lists.
LEMMA IdLeaves ==
  ASSUME DirInv, MapsAgree, NEW s \in Stems, fileToID[s] # NoId,
         emails' = emails \ {fileToID[s]}, fileToID' = [fileToID EXCEPT ![s] = NoId]
  PROVE  MapsAgree'
  <1>1. Listed /\ fileToID \in [Stems -> EmailIds \cup {NoId}]
    BY ListedMeansAgree DEF DirInv, TypeOK, WatcherTypeOK
  <1>2. \A t \in Stems \ {s} : fileToID[t] = fileToID[s] => FALSE
    BY <1>1 DEF DirInv, StepInv, IdOf
  <1>3. \A t \in Stems : fileToID'[t] = IF t = s THEN NoId ELSE fileToID[t]
    BY <1>1
  <1>4. Listed'
    BY <1>1, <1>2, <1>3 DEF Listed
  <1>5. emails' = {fileToID'[t] : t \in Stems} \ {NoId}
    BY <1>4 DEF Listed
  <1> QED BY <1>5 DEF MapsAgree

\* The steps of the watcher between files: neither files nor lists change.
LEMMA QuietStep ==
  ASSUME ListInv, EndInv, UNCHANGED <<writerVars, json, events, lists, consumed, rejected, stops>>,
         UNCHANGED <<phase, step, cur, data>> \/ phase' # "down", step' # "insert",
         \A m \in consumed : att'[stem[m]] \in {att[stem[m]], {}}
  PROVE  ListInv' /\ EndInv'
  <1>1. UNCHANGED <<wpc, stem, emails, fileToID, removing>>
    BY DEF writerVars, lists
  <1>2. ListInv'
    BY <1>1 DEF ListInv, MapsAgree, GhostsAnnounced
  <1>3. ASSUME stops = 0, NEW m \in consumed
        PROVE  att'[stem[m]] = {} \/ (removing # NoId /\ removing[2] = m)
    <2>1. att[stem[m]] = {} \/ (removing # NoId /\ removing[2] = m)
      BY <1>3 DEF EndInv
    <2>2. att'[stem[m]] \in {att[stem[m]], {}}
      BY <1>3
    <2> QED BY <2>1, <2>2
  <1>4. EndInv'
    BY <1>1, <1>3 DEF EndInv
  <1> QED BY <1>2, <1>4

\* The steps of everybody else.
LEMMA OthersKeepLists ==
  ASSUME DirInv, ListInv, EndInv,
         \/ Watch \/ EndConsume \/ Stop
         \/ \E id \in EmailIds : Consume(id)
         \/ \E s \in Stems : ScannerOpens(s) \/ ScannerCloses(s) \/ GrowOld(s)
  PROVE  ListInv' /\ EndInv'
  <1>1. TypeOK /\ WriterInv /\ FileInv /\ StepInv
    BY DEF DirInv
  <1>2. UNCHANGED writerVars /\ UNCHANGED <<wpc, stem>>
    BY DEF Watch, EndConsume, Stop, Consume, ScannerOpens, ScannerCloses, GrowOld, writerVars
  <1>3. /\ json \in [Stems -> Contents \cup {NoFile}] /\ att \in [Stems -> SUBSET (Names \X Msgs)]
        /\ fileToID \in [Stems -> EmailIds \cup {NoId}] /\ events \in Seq(Event)
        /\ removing \in EmailIds \cup {NoId} /\ NoId \notin EmailIds /\ NoFile \notin Contents
        /\ consumed \subseteq Msgs
    BY <1>1, QueueDirAssumption, NoIdAssumption
    DEF TypeOK, DirTypeOK, WatcherTypeOK, QueueDirAssumption, NoIdAssumption, Contents, EmailIds
  <1>4. \A m \in Msgs : wpc[m] = "ok" => stem[m] \in Stems
    BY <1>1 DEF TypeOK, WriterTypeOK, WriterInv
  <1>5. \A m \in consumed : m \in Msgs /\ wpc[m] = "ok" /\ stem[m] \in Stems
    BY <1>3, <1>4 DEF EndInv
  <1>6. \A m, n \in Msgs : wpc[m] = "ok" /\ stem[n] = stem[m] => m = n
    BY <1>1, <1>4, QueueDirAssumption DEF WriterInv, QueueDirAssumption
  <1>7. ASSUME NEW s \in Stems, events' = Append(events, <<"remove", s>>)
        PROVE  Announced(s)' /\ \A t : Announced(t) => Announced(t)'
    <2>1. <<"remove", s>> \in Event
      BY DEF Event
    <2>2. Len(events') \in DOMAIN events' /\ events'[Len(events')] = <<"remove", s>>
      BY <1>3, <1>7
    <2>3. Announced(s)'
      BY <2>2 DEF Announced
    <2> QED BY <1>1, <1>7, <2>1, <2>3, AnnouncedStays
  <1> USE DEF scratch, lists, dirVars, env
  <1> HIDE DEF Announced, Settled, IdOf
  <1>8. CASE Watch
    <2>1. UNCHANGED <<consumed, stops>>
      BY <1>8 DEF Watch
    <2>2. CASE AddWatch
      <3>1. /\ phase = "down" /\ phase' = "added"
            /\ UNCHANGED <<json, att, step, cur, data, emails, fileToID, removing, rejected>>
        BY <2>2 DEF AddWatch
      <3> QED BY <1>2, <2>1, <3>1 DEF ListInv, EndInv, MapsAgree, GhostsAnnounced
    <2>3. CASE ListExisting \/ ListDirs \/ EnterLoop
      <3>1. /\ phase' # "down" /\ phase # "down"
            /\ UNCHANGED <<json, att, events, step, cur, data, emails, fileToID, removing, rejected>>
        BY <2>3 DEF ListExisting, ListDirs, EnterLoop
      <3> QED BY <1>2, <2>1, <3>1 DEF ListInv, EndInv, MapsAgree, GhostsAnnounced, Announced
    <2>4. ASSUME NEW s \in Stems, SweepCheck(s) \/ BeginFile(s) PROVE ListInv' /\ EndInv'
      BY <1>2, <2>1, <2>4, QuietStep DEF SweepCheck, BeginFile, Free
    <2>5. CASE SweepRemove
      <3>1. \A m \in consumed : att'[stem[m]] \in {att[stem[m]], {}}
        BY <1>3, <1>5, <2>5 DEF SweepRemove, RemoveDir
      <3> QED BY <1>2, <2>1, <2>5, <3>1, QuietStep DEF SweepRemove, ListInv
    <2>6. CASE ReadFile
      <3>1. /\ UNCHANGED <<json, att, events, emails, fileToID, removing, rejected, phase, cur>>
            /\ data' = json[cur] /\ phase # "down"
        BY <2>6 DEF ReadFile, ListInv
      <3> QED BY <1>2, <2>1, <3>1 DEF ListInv, EndInv, MapsAgree, GhostsAnnounced
    <2>7. CASE GiveUpReading(MayOutlast)
      BY <1>2, <2>1, <2>7, QuietStep DEF GiveUpReading, ListInv
    <2>8. CASE MoveToErrors
      <3>1. /\ cur \in Stems /\ step' = "idle" /\ step # "idle" /\ phase # "down"
            /\ UNCHANGED <<att, phase, emails, fileToID, removing>>
        BY <2>8 DEF MoveToErrors, StepInv, DirInv, ListInv
      <3>2. CASE UNCHANGED <<json, events, rejected>>
        BY <1>2, <2>1, <3>1, <3>2, QuietStep
      <3> PICK c \in Stems : c = cur
        BY <3>1
      <3>3. CASE /\ rejected' = rejected \cup {json[c]} /\ json[c] \in Contents
                 /\ json' = [json EXCEPT ![c] = NoFile]
                 /\ events' = Append(events, <<"remove", c>>)
        <4>1. Announced(c)' /\ \A t : Announced(t) => Announced(t)'
          BY <1>7, <3>1, <3>3
        <4>2. \A t \in Stems : json'[t] = IF t = c THEN NoFile ELSE json[t]
          BY <1>3, <3>3
        <4>3. GhostsAnnounced'
          <5> SUFFICES ASSUME NEW t \in Stems, fileToID[t] # NoId, json'[t] # fileToID[t][2]
                       PROVE  removing = fileToID[t] \/ Announced(t)'
            BY <3>1 DEF GhostsAnnounced, Announced
          <5> QED BY <4>1, <4>2 DEF ListInv, GhostsAnnounced, Announced
        <4>4. ListInv'
          BY <2>1, <3>1, <4>3 DEF ListInv, MapsAgree
        <4>5. \A m \in Msgs : m = json[c] => wpc[m] = "ok" /\ stem[m] = c
          BY <1>1, <3>1 DEF FileInv
        <4>6. \A m \in Msgs : wpc[m] = "ok" => json'[stem[m]] = m \/ m \in consumed \cup rejected'
          BY <1>4, <3>3, <4>2 DEF EndInv
        <4>7. \A m \in consumed \cup (rejected' \cap Msgs) : wpc[m] = "ok" /\ json'[stem[m]] = NoFile
          BY <1>4, <1>5, <3>1, <3>3, <4>2, <4>5 DEF EndInv
        <4>8. consumed \cap rejected' = {}
          BY <1>3, <1>5, <3>1, <3>3, <4>5 DEF EndInv, Contents
        <4>9. EndInv'
          BY <1>2, <2>1, <3>1, <4>6, <4>7, <4>8 DEF EndInv
        <4> QED BY <4>4, <4>9
      <3> QED BY <1>3, <2>8, <3>1, <3>2, <3>3 DEF MoveToErrors, Accessible
    <2>9. CASE InsertEmail
      <3> DEFINE new == <<cur, data>>
      <3>1. /\ cur \in Stems /\ new \in EmailIds /\ IdOf(cur, new) /\ data = new[2]
            /\ removing = NoId /\ step' = "idle" /\ step = "insert"
            /\ emails' = emails \cup {new} /\ fileToID' = [fileToID EXCEPT ![cur] = new]
            /\ UNCHANGED <<json, att, events, phase, removing, rejected>>
        BY <2>9 DEF InsertEmail, Unlocked, StepInv, DirInv, IdOf, Valid, EmailIds
      <3> HIDE DEF new
      <3>2. \A t \in Stems : fileToID'[t] = IF t = cur THEN new ELSE fileToID[t]
        BY <1>3, <3>1
      <3>3. fileToID[cur] \in {NoId, new}
        BY <1>1, <1>3, <3>1, OneIdPerStem DEF StepInv
      <3>4. MapsAgree'
        <4>1. Listed'
          BY <1>3, <3>1, <3>2, <3>3, ListedMeansAgree DEF ListInv, Listed
        <4>2. emails' = {fileToID'[t] : t \in Stems} \ {NoId}
          BY <4>1 DEF Listed
        <4> QED BY <4>2 DEF MapsAgree
      <3>5. GhostsAnnounced'
        <4> SUFFICES ASSUME NEW t \in Stems, fileToID'[t] # NoId, json[t] # fileToID'[t][2]
                     PROVE  Announced(t)
          BY <3>1 DEF GhostsAnnounced, Announced
        <4>1. CASE t = cur
          BY <3>1, <3>2, <4>1 DEF ListInv
        <4>2. CASE t # cur
          BY <1>3, <3>1, <3>2, <4>2 DEF ListInv, GhostsAnnounced, Announced
        <4> QED BY <4>1, <4>2
      <3>6. ListInv'
        BY <2>1, <3>1, <3>4, <3>5 DEF ListInv
      <3>7. EndInv'
        BY <1>2, <2>1, <3>1 DEF EndInv
      <3> QED BY <3>6, <3>7
    <2>10. CASE HandleEvent
      <3> DEFINE op == Head(events)[1]
                 s  == Head(events)[2]
      <3>1. /\ phase = "loop" /\ step = "idle" /\ events # <<>> /\ events' = Tail(events)
            /\ UNCHANGED <<json, att, phase, step, removing, rejected>>
        BY <2>10 DEF HandleEvent, InSelect, Free
      <3>2. Head(events) \in Event /\ s \in Stems
        <4>1. Head(events) \in Event
          BY <1>3, <3>1
        <4> QED BY <4>1 DEF Event
      <3>3. \A t : Announced(t) => Announced(t)' \/ (op = "remove" /\ t = s)
        <4> SUFFICES ASSUME NEW t, NEW i \in DOMAIN events, events[i] = <<"remove", t>>
                     PROVE  Announced(t)' \/ (op = "remove" /\ t = s)
          BY DEF Announced
        <4>1. CASE i = 1
          BY <1>3, <3>1, <4>1
        <4>2. CASE i # 1
          <5>1. i - 1 \in DOMAIN events' /\ events'[i - 1] = events[i]
            BY <1>3, <3>1, <4>2
          <5> QED BY <5>1 DEF Announced
        <4> QED BY <4>1, <4>2
      <3>4. EndInv'
        BY <1>2, <2>1, <3>1 DEF EndInv
      <3>5. CASE UNCHANGED <<emails, fileToID>> /\ (op # "remove" \/ fileToID[s] = NoId)
        <4>1. GhostsAnnounced'
          <5> SUFFICES ASSUME NEW t \in Stems, fileToID[t] # NoId, json[t] # fileToID[t][2]
                       PROVE  removing = fileToID[t] \/ Announced(t)'
            BY <3>1, <3>5 DEF GhostsAnnounced, Announced
          <5> QED BY <3>3, <3>5 DEF ListInv, GhostsAnnounced, Announced
        <4>2. MapsAgree'
          BY <3>5 DEF ListInv, MapsAgree
        <4> QED BY <2>1, <3>1, <3>4, <3>5, <4>1, <4>2 DEF ListInv
      <3>6. CASE /\ op = "remove" /\ fileToID[s] # NoId /\ removing = NoId
                 /\ emails' = emails \ {fileToID[s]} /\ fileToID' = [fileToID EXCEPT ![s] = NoId]
        <4>1. MapsAgree'
          BY <3>2, <3>6, IdLeaves DEF ListInv
        <4>2. \A t \in Stems : fileToID'[t] = IF t = s THEN NoId ELSE fileToID[t]
          BY <1>3, <3>2, <3>6
        <4>3. GhostsAnnounced'
          <5> SUFFICES ASSUME NEW t \in Stems, t # s, fileToID[t] # NoId, json[t] # fileToID[t][2]
                       PROVE  removing = fileToID[t] \/ Announced(t)'
            BY <3>1, <4>2 DEF GhostsAnnounced, Announced
          <5> QED BY <3>3 DEF ListInv, GhostsAnnounced, Announced
        <4> QED BY <3>1, <3>4, <3>6, <4>1, <4>3 DEF ListInv
      <3>7. \/ UNCHANGED <<emails, fileToID>> /\ (op # "remove" \/ fileToID[s] = NoId)
            \/ /\ op = "remove" /\ fileToID[s] # NoId /\ removing = NoId
               /\ emails' = emails \ {fileToID[s]} /\ fileToID' = [fileToID EXCEPT ![s] = NoId]
        BY <2>10 DEF HandleEvent, HandleRemove, Unlocked
      <3> QED BY <3>5, <3>6, <3>7
    <2>11. CASE Tick(MayOutlast)
      BY <1>2, <2>1, <2>11, QuietStep DEF Tick, InSelect, Free
    <2> QED BY <1>8, <2>2, <2>3, <2>4, <2>5, <2>6, <2>7, <2>8, <2>9, <2>10, <2>11
         DEF Watch, WatcherThread
  <1>9. ASSUME NEW id \in EmailIds, Consume(id) PROVE ListInv' /\ EndInv'
    <2>1. PICK s \in Stems : /\ fileToID[s] = id /\ json[s] # NoFile
                             /\ json' = [json EXCEPT ![s] = NoFile]
                             /\ events' = Append(events, <<"remove", s>>)
      BY <1>9 DEF Consume, RemoveEmail, Accessible
    <2>2. /\ phase = "loop" /\ removing = NoId /\ removing' = id /\ consumed' = consumed \cup {id[2]}
          /\ UNCHANGED <<att, phase, step, cur, data, emails, fileToID, rejected, stops>>
      BY <1>9 DEF Consume, RemoveEmail, Unlocked
    <2>3. IdOf(s, id) /\ id[2] \in Msgs
      BY <1>1, <1>3, <2>1 DEF StepInv, EmailIds
    <2>4. id = <<s, id[2]>> /\ wpc[id[2]] = "ok" /\ stem[id[2]] = s
      BY <2>3, OneIdPerStem DEF IdOf
    <2>5. Announced(s)' /\ \A t : Announced(t) => Announced(t)'
      BY <1>7, <2>1
    <2>6. \A t \in Stems : json'[t] = IF t = s THEN NoFile ELSE json[t]
      BY <1>3, <2>1
    <2>7. json[s] = id[2]
      BY <2>1, <2>3, <2>4 DEF EndInv
    <2>8. GhostsAnnounced'
      <3> SUFFICES ASSUME NEW t \in Stems, fileToID[t] # NoId, json'[t] # fileToID[t][2]
                   PROVE  Announced(t)'
        BY <2>2 DEF GhostsAnnounced, Announced
      <3> QED BY <2>2, <2>5, <2>6 DEF ListInv, GhostsAnnounced, Announced
    <2>9. step = "insert" => json'[cur] = data \/ Announced(cur)'
      <3>1. ASSUME step = "insert", NEW c \in Stems, c = cur PROVE json'[c] = data \/ Announced(c)'
        BY <2>5, <2>6, <3>1 DEF ListInv
      <3>2. UNCHANGED cur /\ (step = "insert" => cur \in Stems)
        BY <1>1, <2>2 DEF StepInv
      <3> QED BY <3>1, <3>2 DEF Announced
    <2>10. ListInv'
      <3>1. fileToID[id[1]] = id
        BY <2>1, <2>4
      <3>2. MapsAgree'
        BY <2>2 DEF ListInv, MapsAgree
      <3> QED BY <2>2, <2>8, <2>9, <3>1, <3>2 DEF ListInv
    <2>11. EndInv'
      <3>1. \A m \in consumed' \cup (rejected' \cap Msgs) : wpc[m] = "ok" /\ json'[stem[m]] = NoFile
        BY <1>4, <1>5, <2>2, <2>4, <2>6 DEF EndInv
      <3>2. \A m \in Msgs : wpc[m] = "ok" => json'[stem[m]] = m \/ m \in consumed' \cup rejected'
        BY <1>4, <1>6, <2>2, <2>3, <2>4, <2>6 DEF EndInv
      <3>3. stops = 0 => \A m \in consumed' : att[stem[m]] = {} \/ id[2] = m
        BY <2>2 DEF EndInv
      <3>4. id # NoId
        BY <1>3
      <3>5. consumed' \cap rejected' = {}
        BY <1>3, <2>1, <2>2, <2>3, <2>4, <2>7 DEF EndInv
      <3> QED BY <1>2, <2>2, <3>1, <3>2, <3>3, <3>4, <3>5 DEF EndInv
    <2> QED BY <2>10, <2>11
  <1>10. CASE EndConsume
    <2> DEFINE s == removing[1]
    <2>1. /\ removing # NoId /\ removing \in EmailIds /\ s \in Stems /\ RemoveDir(s)
          /\ fileToID' = [fileToID EXCEPT ![s] = NoId] /\ emails' = emails \ {removing}
          /\ removing' = NoId
          /\ UNCHANGED <<json, events, phase, step, cur, data, rejected, consumed, stops>>
      BY <1>3, <1>10 DEF EndConsume, FinishRemoval, Cleanup, Unfiled, EmailIds
    <2>2. fileToID[s] = removing /\ removing[2] \in consumed
      BY <2>1 DEF ListInv
    <2>3. IdOf(s, removing)
      BY <1>1, <2>1, <2>2 DEF StepInv
    <2>4. MapsAgree'
      BY <2>1, <2>2, IdLeaves DEF ListInv
    <2>5. \A t \in Stems : fileToID'[t] = IF t = s THEN NoId ELSE fileToID[t]
      BY <1>3, <2>1
    <2>6. \A t \in Stems : att'[t] = IF t = s THEN {} ELSE att[t]
      BY <1>3, <2>1 DEF RemoveDir
    <2>7. GhostsAnnounced'
      <3> SUFFICES ASSUME NEW t \in Stems, t # s, fileToID[t] # NoId, json[t] # fileToID[t][2]
                   PROVE  Announced(t)
        BY <2>1, <2>5 DEF GhostsAnnounced, Announced
      <3>1. fileToID[t] # removing
        BY <1>1, <2>2 DEF StepInv, IdOf
      <3> QED BY <3>1 DEF ListInv, GhostsAnnounced, Announced
    <2>8. ListInv'
      <3>1. phase # "down"
        BY <2>1 DEF ListInv
      <3>2. step = "insert" => json[cur] = data \/ Announced(cur)
        BY DEF ListInv
      <3>3. Announced(cur) => Announced(cur)'
        BY <2>1 DEF Announced
      <3> QED BY <2>1, <2>4, <2>7, <3>1, <3>2, <3>3 DEF ListInv
    <2>9. EndInv'
      <3>1. stem[removing[2]] = s
        BY <2>3 DEF IdOf
      <3>2. \A m \in consumed : stops = 0 => att'[stem[m]] = {}
        BY <1>5, <2>6, <3>1 DEF EndInv
      <3> QED BY <1>2, <2>1, <3>2 DEF EndInv
    <2> QED BY <2>8, <2>9
  <1>11. CASE Stop
    <2>1. /\ fileToID' = [t \in Stems |-> NoId] /\ emails' = {} /\ removing' = NoId
          /\ step' = "idle" /\ stops' = stops + 1 /\ UNCHANGED <<json, att, rejected, consumed>>
      BY <1>11 DEF Stop, AppStops
    <2>2. stops' # 0
      BY <1>1, <2>1, PipelineAssumption DEF TypeOK, PipelineAssumption
    <2>3. MapsAgree' /\ GhostsAnnounced'
      BY <2>1 DEF MapsAgree, GhostsAnnounced
    <2> QED BY <1>2, <2>1, <2>2, <2>3 DEF ListInv, EndInv
  <1>12. ASSUME NEW s \in Stems, ScannerOpens(s) \/ ScannerCloses(s) \/ GrowOld(s)
         PROVE  ListInv' /\ EndInv'
    <2>1. UNCHANGED <<json, att, events, watcherVars, consumed, stops>>
      BY <1>12 DEF ScannerOpens, ScannerCloses, GrowOld
    <2>2. /\ UNCHANGED <<json, att, events, consumed, stops>>
          /\ UNCHANGED <<phase, step, cur, data, emails, fileToID, removing, rejected>>
      BY <2>1 DEF watcherVars
    <2> QED BY <1>2, <2>2 DEF ListInv, EndInv, MapsAgree, GhostsAnnounced, Announced
  <1> QED BY <1>8, <1>9, <1>10, <1>11, <1>12

\* The lists agree with each other and with the files, always.
LEMMA ListsCorrect == ASSUME UniqueStems PROVE Spec => [](DirInv /\ ListInv /\ EndInv)
  <1>1. Init => ListInv /\ EndInv
    BY DEF Init, DirInit, WriterInit, WatcherInit, WatcherMemoryInit, ListInv, EndInv,
           MapsAgree, GhostsAnnounced
  <1>2. DirInv /\ ListInv /\ EndInv /\ [Next]_vars => ListInv' /\ EndInv'
    <2> SUFFICES ASSUME DirInv, ListInv, EndInv, [Next]_vars PROVE ListInv' /\ EndInv'
      OBVIOUS
    <2>1. CASE UNCHANGED vars
      BY <2>1 DEF vars, dirVars, writerVars, watcherVars, ListInv, EndInv, MapsAgree,
                  GhostsAnnounced, Announced
    <2> QED BY <2>1, WriterKeepsLists, OthersKeepLists DEF Next
  <1> QED BY <1>1, <1>2, DirCorrect, PTL DEF Spec

\* The watcher's two maps agree at every moment, for any number of messages.
THEOREM MapsAgreeAlways == ASSUME UniqueStems PROVE Spec => []MapsAgree
  BY ListsCorrect, PTL DEF ListInv

\* Whatever is listed without a file has its removal on the way.
THEOREM GhostsLeave == ASSUME UniqueStems PROVE Spec => []GhostsAnnounced
  BY ListsCorrect, PTL DEF ListInv

\* A consumed message leaves no copies of its attachments behind.
THEOREM NoCopiesRemain == ASSUME UniqueStems PROVE Spec => []NoCopiesAfterConsume
  <1>1. DirInv /\ EndInv => NoCopiesAfterConsume
    <2> SUFFICES ASSUME DirInv, EndInv, NEW m \in consumed, removing = NoId, stops = 0,
                        NEW s \in Stems, NEW f \in att[s] \cap Needs(m)
                 PROVE  FALSE
      BY DEF NoCopiesAfterConsume
    <2>1. f[2] = m /\ stem[m] = s
      BY DEF DirInv, FileInv, Needs
    <2> QED BY <2>1 DEF EndInv
  <1> QED BY <1>1, ListsCorrect, PTL

-----------------------------------------------------------------------------
(* The refinement of Spool, while no lock outlasts the attempts to read.   *)

\* The JSON of stem s has been created.
Known(s) == \E m \in Msgs : stem[m] = s /\ wpc[m] \in {"write"} \cup WriterDone

\* The watcher only visits stems whose JSON has been created, and what it moves
\* away is invalid.
RejectInv ==
  /\ phase \in {"scan", "loop"} => \A s \in todo : Known(s)
  /\ \A s \in pending : Known(s)
  /\ \A i \in DOMAIN events : Known(events[i][2])
  /\ step = "read" => Known(cur)
  /\ step = "reject" => Settled(cur) /\ ~Valid(json[cur])
  /\ rejected \cap Msgs \subseteq Invalid

\* A notification about a known stem may be queued.
LEMMA KnownEvents ==
  ASSUME TypeOK, \A i \in DOMAIN events : \A t : t = events[i][2] => Known(t)', NEW s \in Stems, Known(s)',
         NEW op \in {"create", "write", "remove"}, events' = Append(events, <<op, s>>)
  PROVE  (\A i \in DOMAIN events : Known(events[i][2]))'
  <1>1. events \in Seq(Event) /\ <<op, s>> \in Event
    BY DEF TypeOK, DirTypeOK, Event
  <1>2. \A i \in DOMAIN events' : events'[i] = IF i = Len(events) + 1 THEN <<op, s>> ELSE events[i]
    BY <1>1
  <1>3. \A i \in DOMAIN events' : i = Len(events) + 1 \/ i \in DOMAIN events
    BY <1>1
  <1> QED BY <1>2, <1>3 DEF Known

\* The steps of the writers.
LEMMA WriterKeepsRejects ==
  ASSUME UniqueStems, DirInv, RejectInv, NEW m \in Msgs, Write(m)
  PROVE  RejectInv'
  <1>1. Elsewhere(m) /\ TypeOK /\ StepInv /\ WriterInv
    BY WriterElsewhere DEF DirInv
  <1>2. UNCHANGED <<phase, todo, cur, step, pending, rejected>>
    BY <1>1 DEF Elsewhere, watcherVars
  <1>3. \A s : Known(s) => Known(s)'
    BY <1>1 DEF Elsewhere, Known, WriterDone
  <1>4. \A s \in Stems : Settled(s) => Settled(s)' /\ json'[s] = json[s]
    BY <1>1, SettledStays
  <1>5. (\A i \in DOMAIN events : Known(events[i][2]))'
    <2>1. \A i \in DOMAIN events : \A t : t = events[i][2] => Known(t)'
      <3> HIDE DEF Known
      <3> QED BY <1>3 DEF RejectInv
    <2>2. CASE events' = events
      BY <2>1, <2>2 DEF Known, WriterDone
    <2>3. CASE events' # events
      <3>1. PICK s \in Stems : s = stem'[m]
        BY <1>1 DEF Elsewhere
      <3>2. Known(s)'
        BY <1>1, <2>3, <3>1 DEF Elsewhere, Known
      <3>3. PICK op \in {"create", "write"} : events' = Append(events, <<op, s>>)
        BY <1>1, <2>3, <3>1 DEF Elsewhere
      <3> HIDE DEF Known
      <3> QED BY <1>1, <2>1, <3>2, <3>3, KnownEvents
    <2> QED BY <2>2, <2>3
  <1>6. step = "reject" => Settled(cur)' /\ ~Valid(json'[cur])
    BY <1>1, <1>2, <1>4 DEF RejectInv, StepInv, Settled
  <1> QED BY <1>2, <1>3, <1>5, <1>6 DEF RejectInv, Known, Valid

\* The steps of everybody else.
LEMMA OthersKeepRejects ==
  ASSUME ~SlowWrites, ~ScannerLocks, DirInv, ListInv, RejectInv,
         \/ Watch \/ EndConsume \/ Stop
         \/ \E id \in EmailIds : Consume(id)
         \/ \E s \in Stems : ScannerOpens(s) \/ ScannerCloses(s) \/ GrowOld(s)
  PROVE  RejectInv'
  <1>1. TypeOK /\ FileInv /\ StepInv
    BY DEF DirInv
  <1>2. UNCHANGED writerVars
    BY DEF Watch, EndConsume, Stop, Consume, ScannerOpens, ScannerCloses, GrowOld
  <1>3. (\A s : Known(s) <=> Known(s)') /\ (\A s : Settled(s) <=> Settled(s)')
    BY <1>2 DEF writerVars, Known, Settled
  <1>4. \A s : Settled(s) => Known(s)
    BY DEF Settled, Known
  <1>5. /\ json \in [Stems -> Contents \cup {NoFile}] /\ events \in Seq(Event)
        /\ todo \subseteq Stems /\ fileToID \in [Stems -> EmailIds \cup {NoId}]
        /\ ~Valid(NoFile) /\ ~Valid(Broken) /\ NoFile # Broken
        /\ NoId \notin EmailIds
    BY <1>1, QueueDirAssumption, NoIdAssumption
    DEF TypeOK, DirTypeOK, WatcherTypeOK, QueueDirAssumption, NoIdAssumption, Valid, EmailIds
  <1>6. ASSUME NEW s \in Stems, Known(s), events' = Append(events, <<"remove", s>>)
        PROVE  (\A i \in DOMAIN events : Known(events[i][2]))'
    <2>1. \A i \in DOMAIN events : \A t : t = events[i][2] => Known(t)'
      <3> HIDE DEF Known
      <3> QED BY <1>3 DEF RejectInv
    <2> HIDE DEF Known
    <2> QED BY <1>1, <1>3, <1>6, <2>1, KnownEvents
  <1>7. ASSUME UNCHANGED events PROVE (\A i \in DOMAIN events : Known(events[i][2]))'
    BY <1>2, <1>7 DEF RejectInv, Known, writerVars
  <1>8. ASSUME UNCHANGED json, UNCHANGED rejected, UNCHANGED events \/ events' = <<>>,
               phase' \in {"scan", "loop"} => \A s \in todo' : Known(s),
               \A s \in pending' : Known(s),
               step' = "read" => Known(cur'),
               step' = "reject" => Settled(cur') /\ ~Valid(json[cur'])
        PROVE  RejectInv'
    <2>1. (\A i \in DOMAIN events : Known(events[i][2]))'
      <3>1. CASE UNCHANGED events
        BY <1>7, <3>1
      <3>2. CASE events' = <<>>
        BY <3>2
      <3> QED BY <1>8, <3>1, <3>2
    <2>2. \A s : (Known(s) => (\E m \in Msgs : stem'[m] = s /\ wpc'[m] \in {"write"} \cup WriterDone))
                 /\ (Settled(s) => \E m \in Msgs : stem'[m] = s /\ wpc'[m] \in WriterDone)
      BY <1>2 DEF Known, Settled, writerVars
    <2>3. (rejected \cap Msgs \subseteq Invalid)'
      BY <1>8 DEF RejectInv
    <2>4. (step = "reject" => Settled(cur) /\ ~Valid(json[cur]))'
      BY <1>8, <2>2 DEF Settled, Valid
    <2>5. (step = "read" => Known(cur))'
      BY <1>8, <2>2 DEF Known
    <2>6. (phase \in {"scan", "loop"} => \A s \in todo : Known(s))' /\ (\A s \in pending : Known(s))'
      BY <1>8, <2>2 DEF Known
    <2> QED BY <2>1, <2>3, <2>4, <2>5, <2>6 DEF RejectInv
  <1> HIDE DEF Known, Settled
  <1> USE DEF scratch, lists, dirVars
  <1>9. CASE Watch
    <2>1. CASE AddWatch
      BY <1>8, <2>1 DEF AddWatch, RejectInv, ListInv
    <2>2. CASE ListExisting
      <3>1. \A s \in Stems : json[s] # NoFile => Known(s)
        BY <1>1, <1>5 DEF FileInv, Known, WriterDone, Contents
      <3> QED BY <1>8, <2>2, <3>1 DEF ListExisting, ExistingFiles, RejectInv
    <2>3. CASE ListDirs \/ EnterLoop
      BY <1>8, <2>3 DEF ListDirs, EnterLoop, RejectInv
    <2>4. ASSUME NEW s \in Stems, SweepCheck(s) \/ BeginFile(s) PROVE RejectInv'
      BY <1>8, <2>4 DEF SweepCheck, BeginFile, Free, RejectInv
    <2>5. CASE SweepRemove
      BY <1>8, <2>5 DEF SweepRemove, RejectInv
    <2>6. CASE ReadFile
      <3>1. cur \in Stems /\ json[cur] \in Contents /\ cur \notin held /\ Known(cur)
        BY <1>1, <1>5, <2>6 DEF ReadFile, Accessible, StepInv, RejectInv
      <3>2. Settled(cur)
        <4>1. PICK m \in Msgs : stem[m] = cur /\ wpc[m] \in {"write"} \cup WriterDone
          BY <3>1 DEF Known
        <4> QED BY <1>1, <3>1, <4>1 DEF FileInv, Settled
      <3> QED BY <1>8, <2>6, <3>2 DEF ReadFile, RejectInv
    <2>7. CASE GiveUpReading(MayOutlast)
      <3>1. cur \in Stems /\ json[cur] = NoFile /\ Known(cur)
        BY <1>1, <2>7 DEF GiveUpReading, Unreadable, MayOutlast, StepInv, RejectInv
      <3>2. Settled(cur)
        <4>1. PICK m \in Msgs : stem[m] = cur /\ wpc[m] \in {"write"} \cup WriterDone
          BY <3>1 DEF Known
        <4> QED BY <1>1, <1>5, <3>1, <4>1 DEF FileInv, Settled
      <3> QED BY <1>5, <1>8, <2>7, <3>1, <3>2 DEF GiveUpReading, RejectInv
    <2>8. CASE MoveToErrors
      <3>1. cur \in Stems /\ Known(cur) /\ ~Valid(json[cur]) /\ step' = "idle"
            /\ UNCHANGED <<phase, todo, pending>>
        BY <1>1, <1>4, <2>8 DEF MoveToErrors, StepInv, RejectInv
      <3>2. CASE UNCHANGED <<rejected, json, events>>
        BY <1>8, <3>1, <3>2 DEF RejectInv
      <3>3. CASE rejected' = rejected \cup {json[cur]} /\ events' = Append(events, <<"remove", cur>>)
        <4>1. (\A i \in DOMAIN events : Known(events[i][2]))'
          BY <1>6, <3>1, <3>3
        <4>2. rejected' \cap Msgs \subseteq Invalid
          BY <3>1, <3>3 DEF RejectInv, Valid
        <4> QED BY <1>3, <3>1, <4>1, <4>2 DEF RejectInv
      <3> QED BY <2>8, <3>2, <3>3 DEF MoveToErrors
    <2>9. CASE InsertEmail
      BY <1>8, <2>9 DEF InsertEmail, RejectInv
    <2>10. CASE HandleEvent
      <3> DEFINE s == Head(events)[2]
      <3>1. events # <<>> /\ events' = Tail(events) /\ pending' \subseteq pending \cup {s}
            /\ UNCHANGED <<json, phase, todo, cur, step, rejected>> /\ step = "idle"
        BY <2>10 DEF HandleEvent, InSelect, Free
      <3>2. Known(s)
        BY <1>5, <3>1 DEF RejectInv
      <3>3. \A i \in DOMAIN events' : events'[i] = events[i + 1] /\ i + 1 \in DOMAIN events
        BY <1>5, <3>1
      <3>4. \A i \in DOMAIN events' : \A t : t = events'[i][2] => Known(t)'
        BY <1>3, <3>3 DEF RejectInv
      <3>5. (\A i \in DOMAIN events : Known(events[i][2]))'
        BY <3>4
      <3> HIDE DEF s
      <3> QED BY <1>3, <3>1, <3>2, <3>5 DEF RejectInv
    <2>11. CASE Tick(MayOutlast)
      BY <1>8, <2>11 DEF Tick, InSelect, Free, RejectInv
    <2> QED BY <1>9, <2>1, <2>2, <2>3, <2>4, <2>5, <2>6, <2>7, <2>8, <2>9, <2>10, <2>11
         DEF Watch, WatcherThread
  <1>10. ASSUME NEW id \in EmailIds, Consume(id) PROVE RejectInv'
    <2>1. PICK s \in Stems : /\ fileToID[s] = id /\ json' = [json EXCEPT ![s] = NoFile]
                             /\ events' = Append(events, <<"remove", s>>)
      BY <1>10 DEF Consume, RemoveEmail
    <2>2. UNCHANGED <<phase, todo, pending, cur, step, rejected>>
      BY <1>10 DEF Consume, RemoveEmail
    <2>3. Known(s)
      BY <1>1, <1>4, <1>5, <2>1, OneIdPerStem DEF StepInv
    <2>4. (\A i \in DOMAIN events : Known(events[i][2]))'
      BY <1>6, <2>1, <2>3
    <2>5. \A t \in Stems : json'[t] \in {json[t], NoFile}
      BY <1>5, <2>1
    <2>6. step = "reject" => cur \in Stems /\ Settled(cur) /\ ~Valid(json'[cur])
      BY <1>1, <1>5, <2>5 DEF RejectInv, StepInv
    <2>7. (step = "reject" => Settled(cur) /\ ~Valid(json[cur]))'
      BY <1>2, <2>2, <2>6 DEF Settled, writerVars, Valid
    <2>8. (step = "read" => Known(cur))'
      BY <1>2, <2>2 DEF RejectInv, Known, writerVars
    <2> QED BY <1>3, <2>2, <2>4, <2>7, <2>8 DEF RejectInv
  <1>11. CASE EndConsume
    BY <1>8, <1>11 DEF EndConsume, FinishRemoval, RejectInv
  <1>12. CASE Stop
    BY <1>8, <1>12 DEF Stop, AppStops
  <1>13. ASSUME NEW s \in Stems, ScannerOpens(s) \/ ScannerCloses(s) \/ GrowOld(s)
         PROVE  RejectInv'
    <2>1. UNCHANGED <<json, events, watcherVars>>
      BY <1>13 DEF ScannerOpens, ScannerCloses, GrowOld
    <2> QED BY <1>8, <2>1 DEF watcherVars, RejectInv
  <1> QED BY <1>9, <1>10, <1>11, <1>12, <1>13

\* MailOf, case by case.
LEMMA MailCases ==
  ASSUME DirInv, EndInv, NEW m \in Msgs
  PROVE  /\ m \in consumed => MailOf(m) = "consumed"
         /\ m \in rejected => MailOf(m) = "rejected"
         /\ m \notin consumed \cup rejected =>
              /\ wpc[m] = "ok" => MailOf(m) = "queued"
              /\ wpc[m] \in {"failed", "killed"} => MailOf(m) = "refused"
              /\ wpc[m] \notin WriterDone => MailOf(m) = "new"
  <1>1. m \in consumed \cup rejected => wpc[m] = "ok" /\ (m \in consumed <=> m \notin rejected)
    BY DEF EndInv
  <1>2. CASE m \in consumed
    BY <1>1, <1>2 DEF MailOf
  <1>3. CASE m \in rejected
    BY <1>1, <1>3 DEF MailOf
  <1>4. CASE m \notin consumed \cup rejected
    BY <1>4 DEF MailOf, WriterDone
  <1> QED BY <1>2, <1>3, <1>4

\* All invariants together.
PipeInv == DirInv /\ ListInv /\ EndInv /\ RejectInv

\* They hold while no lock outlasts the attempts to read.
LEMMA PipeCorrect ==
  ASSUME UniqueStems, ~SlowWrites, ~ScannerLocks
  PROVE  Spec => []PipeInv
  <1>1. Init => RejectInv
    BY DEF Init, DirInit, WriterInit, WatcherInit, WatcherMemoryInit, RejectInv
  <1>2. DirInv /\ ListInv /\ RejectInv /\ [Next]_vars => RejectInv'
    <2> SUFFICES ASSUME DirInv, ListInv, RejectInv, [Next]_vars PROVE RejectInv'
      OBVIOUS
    <2>1. CASE UNCHANGED vars
      BY <2>1 DEF vars, dirVars, writerVars, watcherVars, RejectInv, Known, Settled, Valid
    <2> QED BY <2>1, WriterKeepsRejects, OthersKeepRejects DEF Next
  <1> QED BY <1>1, <1>2, ListsCorrect, PTL DEF Spec, PipeInv

\* A message that is neither consumed nor rejected nor moved by its writer stays
\* what it is.
LEMMA MailStays ==
  ASSUME NEW m \in Msgs, wpc'[m] = wpc[m], m \in consumed' <=> m \in consumed,
         m \in rejected' <=> m \in rejected
  PROVE  MailOf(m)' = MailOf(m)
  BY DEF MailOf

\* Every step of the pipeline is a step of Spool or none.
LEMMA StepPromise ==
  ASSUME UniqueStems, PipeInv, PipeInv', [Next]_vars
  PROVE  [Promise!SpoolNext]_([m \in Msgs |-> MailOf(m)])
  <1> DEFINE mail == [m \in Msgs |-> MailOf(m)]
  <1>1. DirInv /\ EndInv /\ DirInv' /\ EndInv' /\ StepInv /\ FileInv /\ RejectInv'
        /\ WriterTypeOK /\ WriterTypeOK'
    BY DEF PipeInv, DirInv, TypeOK
  <1>2. ASSUME UNCHANGED <<wpc, consumed, rejected>> PROVE mail' = mail
    BY <1>2 DEF MailOf
  <1>3. ASSUME NEW m \in Msgs, NEW to,
               \A n \in Msgs \ {m} : MailOf(n)' = MailOf(n), MailOf(m)' = to
        PROVE  mail' = [mail EXCEPT ![m] = to]
    BY <1>3
  <1>4. ASSUME NEW m \in Msgs, Write(m) PROVE Promise!SpoolNext \/ mail' = mail
    <2>1. Elsewhere(m)
      BY <1>1, <1>4, WriterElsewhere
    <2>2. UNCHANGED <<consumed, rejected>>
      BY <2>1 DEF Elsewhere, env, watcherVars
    <2>3. \A n \in Msgs \ {m} : MailOf(n)' = MailOf(n)
      BY <2>1, <2>2, MailStays DEF Elsewhere
    <2>4. m \notin consumed \cup rejected /\ MailOf(m) = "new"
      BY <1>1, <2>1, MailCases DEF Elsewhere, EndInv, WriterDone
    <2>5. wpc'[m] \in WriterInFlight \cup WriterDone
      BY <1>1, <2>1 DEF Elsewhere, WriterTypeOK
    <2>6. MailOf(m)' \in {"new", "queued", "refused"}
      BY <2>2, <2>4, <2>5 DEF MailOf, WriterInFlight, WriterDone
    <2>7. mail[m] = "new" /\ mail' = [mail EXCEPT ![m] = MailOf(m)']
      BY <1>3, <2>3, <2>4
    <2>8. CASE MailOf(m)' = "new"
      BY <2>3, <2>4, <2>8
    <2>9. CASE MailOf(m)' = "queued"
      BY <2>7, <2>9 DEF Promise!SpoolNext, Promise!Queue, Promise!Move
    <2>10. CASE MailOf(m)' = "refused"
      BY <2>7, <2>10 DEF Promise!SpoolNext, Promise!Refuse, Promise!Move
    <2> QED BY <2>6, <2>8, <2>9, <2>10
  <1>5. ASSUME NEW id \in EmailIds, Consume(id) PROVE Promise!SpoolNext \/ mail' = mail
    <2> DEFINE m == id[2]
    <2>1. PICK s \in Stems : fileToID[s] = id /\ json[s] # NoFile
      BY <1>5 DEF Consume, RemoveEmail, Accessible
    <2>2. IdOf(s, id) /\ m \in Msgs
      BY <1>1, <2>1, NoIdAssumption DEF StepInv, EmailIds, NoIdAssumption
    <2>3. m \notin consumed \cup rejected /\ wpc[m] = "ok" /\ m \notin Invalid
      BY <1>1, <2>1, <2>2 DEF IdOf, Valid, EndInv
    <2>4. UNCHANGED <<wpc, rejected>> /\ consumed' = consumed \cup {m}
      BY <1>5 DEF Consume, RemoveEmail, writerVars
    <2>5. MailOf(m) = "queued" /\ MailOf(m)' = "consumed"
      <3>1. m \in consumed' /\ MailOf(m) = "queued"
        BY <1>1, <2>2, <2>3, <2>4, MailCases
      <3> QED BY <2>3, <2>4, <3>1 DEF MailOf
    <2>6. \A n \in Msgs \ {m} : MailOf(n)' = MailOf(n)
      BY <2>4, MailStays
    <2>7. mail[m] = "queued" /\ mail' = [mail EXCEPT ![m] = "consumed"]
      BY <1>3, <2>2, <2>5, <2>6
    <2> HIDE DEF m
    <2> QED BY <2>2, <2>3, <2>7 DEF Promise!SpoolNext, Promise!Consume, Promise!Move
  <1>6. CASE Watch /\ MoveToErrors
    <2>1. UNCHANGED <<wpc, consumed>> /\ rejected' \in {rejected, rejected \cup {json[cur]}}
          /\ cur \in Stems
      BY <1>1, <1>6 DEF Watch, MoveToErrors, env, writerVars, StepInv
    <2>2. CASE rejected' = rejected \/ json[cur] \notin Msgs
      <3>1. \A n \in Msgs : MailOf(n)' = MailOf(n)
        BY <2>1, <2>2, MailStays
      <3> QED BY <3>1
    <2>3. CASE rejected' = rejected \cup {json[cur]} /\ json[cur] \in Msgs
      <3> PICK m \in Msgs : m = json[cur]
        BY <2>3
      <3>1. m \in Invalid /\ wpc[m] = "ok" /\ stem[m] = cur
        BY <1>1, <2>1, <2>3 DEF RejectInv, FileInv
      <3>2. m \notin consumed \cup rejected
        BY <1>1, <2>3, <3>1, QueueDirAssumption DEF EndInv, QueueDirAssumption
      <3>3. m \in rejected' /\ MailOf(m) = "queued"
        BY <1>1, <2>3, <3>1, <3>2, MailCases
      <3>4. MailOf(m)' = "rejected"
        BY <2>1, <3>2, <3>3 DEF MailOf
      <3>5. \A n \in Msgs \ {m} : MailOf(n)' = MailOf(n)
        BY <2>1, <2>3, MailStays
      <3>6. mail[m] = "queued" /\ mail' = [mail EXCEPT ![m] = "rejected"]
        BY <1>3, <3>3, <3>4, <3>5
      <3> QED BY <3>1, <3>6 DEF Promise!SpoolNext, Promise!Reject, Promise!Move
    <2> QED BY <2>1, <2>2, <2>3
  <1>7. CASE Watch /\ ~MoveToErrors
    <2>1. UNCHANGED <<wpc, consumed, rejected>>
      BY <1>7 DEF Watch, WatcherThread, AddWatch, ListExisting, ListDirs, SweepRemove, EnterLoop,
                  SweepCheck, BeginFile, ReadFile, GiveUpReading, InsertEmail, HandleEvent, Tick,
                  env, writerVars
    <2> QED BY <1>2, <2>1
  <1>8. CASE EndConsume \/ Stop
    <2>1. UNCHANGED <<wpc, consumed, rejected>>
      BY <1>8 DEF EndConsume, FinishRemoval, Stop, AppStops, env, writerVars
    <2> QED BY <1>2, <2>1
  <1>9. ASSUME NEW s \in Stems, ScannerOpens(s) \/ ScannerCloses(s) \/ GrowOld(s)
        PROVE  mail' = mail
    <2>1. UNCHANGED <<wpc, consumed, rejected>>
      BY <1>9 DEF ScannerOpens, ScannerCloses, GrowOld, env, writerVars, watcherVars
    <2> QED BY <1>2, <2>1
  <1>10. CASE UNCHANGED vars
    <2>1. UNCHANGED <<wpc, consumed, rejected>>
      BY <1>10 DEF vars, writerVars, watcherVars
    <2> QED BY <1>2, <2>1
  <1> QED BY <1>4, <1>5, <1>6, <1>7, <1>8, <1>9, <1>10 DEF Next

\* What is queued is on disk, for any number of messages and restarts.
THEOREM QueuedStaysOnDisk == ASSUME UniqueStems PROVE Spec => []QueuedIsOnDisk
  <1>1. DirInv /\ EndInv => QueuedIsOnDisk
    <2> SUFFICES ASSUME DirInv, EndInv, NEW m \in Msgs, MailOf(m) = "queued"
                 PROVE  json[stem[m]] = m
      BY DEF QueuedIsOnDisk
    <2>1. m \notin consumed \cup rejected
      BY MailCases
    <2>2. wpc[m] = "ok"
      BY <2>1 DEF MailOf
    <2> QED BY <2>1, <2>2 DEF EndInv
  <1> QED BY <1>1, ListsCorrect, PTL

\* The DLL and the watcher together implement Spool: a call queues the message or
\* refuses it, once, and a queued message leaves the queue once, consumed or - if
\* it is invalid - rejected, whoever crashes in between.
THEOREM PipelineImplementsSpool ==
  ASSUME UniqueStems, ~SlowWrites, ~ScannerLocks
  PROVE  Spec => SpoolPromise
  <1>1. Init => Promise!SpoolInit
    BY DEF Init, WriterInit, WatcherInit, Promise!SpoolInit, MailOf
  <1> QED BY <1>1, PipeCorrect, StepPromise, PTL DEF Spec, SpoolPromise, Promise!SpoolSpec
=============================================================================

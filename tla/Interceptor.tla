----------------------------- MODULE Interceptor -----------------------------
(***************************************************************************)
(* The producer: QueueMessage of src/src/interceptor/mapi_impl.cpp, run by *)
(* MAPISendMail[W] and MAPISendDocuments inside the process of a host      *)
(* application, once per message.  It picks a stem, copies the attachments *)
(* into "<stem>\", and only then writes "<stem>.json".  Each file-system   *)
(* call is a step; any of them may fail, and the host process may die      *)
(* between two of them.                                                    *)
(***************************************************************************)
EXTENDS QueueDir

CONSTANT UniqueStems   (* TRUE: GenerateUniqueStem returns no used stem    *)

VARIABLES
  wpc,       (* wpc[m]: where the call that queues m is                    *)
  stem,      (* stem[m]: the stem it picked                                *)
  copied     (* copied[m]: how many attachments of m it has copied         *)

writerVars == <<wpc, stem, copied>>

WriterInFlight == {"copy", "json", "write"}
WriterDone     == {"ok", "failed", "killed"}

WriterTypeOK ==
  /\ wpc \in [Msgs -> {"start"} \cup WriterInFlight \cup WriterDone]
  /\ stem \in [Msgs -> Stems \cup {NoStem}]
  /\ copied \in [Msgs -> Nat]

WriterInit ==
  /\ wpc = [m \in Msgs |-> "start"]
  /\ stem = [m \in Msgs |-> NoStem]
  /\ copied = [m \in Msgs |-> 0]

WriterAt(m, pc)  == wpc[m] = pc
WriterGoto(m, pc) == wpc' = [wpc EXCEPT ![m] = pc]

\* The notification is lost while nobody watches the directory.
Notify(watched, op, s) ==
  events' = IF watched THEN Append(events, <<op, s>>) ELSE events

-----------------------------------------------------------------------------
(* GenerateUniqueStem is a timestamp and six random hex digits; nothing    *)
(* checks that the result is unused.                                       *)
CandidateStems ==
  IF UniqueStems THEN Stems \ {stem[m] : m \in Msgs} ELSE Stems

\* Picks the stem and, when there are attachments, creates the directory
\* (an existing one is accepted).
BeginMessage(m) ==
  /\ WriterAt(m, "start")
  /\ \E s \in CandidateStems :
       /\ stem' = [stem EXCEPT ![m] = s]
       /\ \/ Copies[m] = <<>> /\ WriterGoto(m, "json") /\ UNCHANGED dirs
          \/ Copies[m] # <<>> /\ WriterGoto(m, "copy") /\ dirs' = dirs \cup {s}
          \/ /\ Copies[m] # <<>> /\ s \notin dirs   (* EnsureDirExists fails *)
             /\ WriterGoto(m, "failed") /\ UNCHANGED dirs
  /\ UNCHANGED <<json, held, old, att, events, copied>>

\* CopyFileW with bFailIfExists: it needs the directory and a free name.
CanCopy(m, name) == stem[m] \in dirs /\ \A f \in att[stem[m]] : f[1] # name

CopyAttachment(m) ==
  LET s == stem[m]
      name == Copies[m][copied[m] + 1]
  IN  /\ WriterAt(m, "copy")
      /\ CanCopy(m, name)
      /\ att' = [att EXCEPT ![s] = @ \cup {<<name, m>>}]
      /\ old' = old \ {s}
      /\ copied' = [copied EXCEPT ![m] = @ + 1]
      /\ WriterGoto(m, IF copied[m] + 1 = Len(Copies[m]) THEN "json" ELSE "copy")
      /\ UNCHANGED <<json, held, dirs, events, stem>>

\* A copy fails (or the name is taken): the files already landed are deleted
\* by name, the directory is removed if that empties it, and no JSON follows.
CopyFails(m) ==
  LET s == stem[m]
      landed == {Copies[m][i] : i \in 1..copied[m]}
      left == {f \in att[s] : f[1] \notin landed}
  IN  /\ WriterAt(m, "copy")
      /\ att' = [att EXCEPT ![s] = left]
      /\ dirs' = IF left = {} THEN dirs \ {s} ELSE dirs
      /\ old' = IF left # {} /\ left = att[s] THEN old ELSE old \ {s}
      /\ WriterGoto(m, "failed")
      /\ UNCHANGED <<json, held, events, stem, copied>>

\* CreateFileW(CREATE_NEW, no sharing): the empty file appears, locked.
CreateJson(m, watched) ==
  LET s == stem[m]
  IN  /\ WriterAt(m, "json")
      /\ json[s] = NoFile
      /\ json' = [json EXCEPT ![s] = Broken]
      /\ held' = held \cup {s}
      /\ Notify(watched, "create", s)
      /\ WriterGoto(m, "write")
      /\ UNCHANGED <<dirs, old, att, stem, copied>>

\* CreateFileW fails (disk, or the name exists): RemoveAttachmentsDirForStem.
CreateJsonFails(m) ==
  /\ WriterAt(m, "json")
  /\ RemoveDir(stem[m])
  /\ WriterGoto(m, "failed")
  /\ UNCHANGED <<json, held, events, stem, copied>>

\* Mutant of WriteJson: a complete write is reported to the caller as failed.
WriteJsonReportsFailure(m, watched) ==
  LET s == stem[m]
  IN  /\ WriterAt(m, "write")
      /\ json' = [json EXCEPT ![s] = m]
      /\ held' = held \ {s}
      /\ Notify(watched, "write", s)
      /\ WriterGoto(m, "failed")
      /\ UNCHANGED <<dirs, old, att, stem, copied>>

\* WriteFile and CloseHandle: the message is queued.
WriteJson(m, watched) ==
  LET s == stem[m]
  IN  /\ WriterAt(m, "write")
      /\ json' = [json EXCEPT ![s] = m]
      /\ held' = held \ {s}
      /\ Notify(watched, "write", s)
      /\ WriterGoto(m, "ok")
      /\ UNCHANGED <<dirs, old, att, stem, copied>>

\* Mutant of WriteJsonFails: a short write is reported as success.
WriteJsonFailsSilently(m, watched) ==
  LET s == stem[m]
  IN  /\ WriterAt(m, "write")
      /\ held' = held \ {s}
      /\ Notify(watched, "write", s)
      /\ WriterGoto(m, "ok")
      /\ UNCHANGED <<json, dirs, old, att, stem, copied>>

\* WriteFile fails: the attachments go, the truncated file stays behind.
WriteJsonFails(m, watched) ==
  LET s == stem[m]
  IN  /\ WriterAt(m, "write")
      /\ held' = held \ {s}
      /\ Notify(watched, "write", s)
      /\ RemoveDir(s)
      /\ WriterGoto(m, "failed")
      /\ UNCHANGED <<json, stem, copied>>

\* The host process dies; the system closes its handles.
HostDies(m) ==
  /\ wpc[m] \in WriterInFlight
  /\ held' = IF WriterAt(m, "write") THEN held \ {stem[m]} ELSE held
  /\ WriterGoto(m, "killed")
  /\ UNCHANGED <<json, dirs, old, att, events, stem, copied>>

WriterProgress(m, watched) ==
  \/ BeginMessage(m)
  \/ CopyAttachment(m)
  \/ CopyFails(m)
  \/ CreateJson(m, watched)
  \/ CreateJsonFails(m)
  \/ WriteJson(m, watched)
  \/ WriteJsonFails(m, watched)

WriterStep(m, watched) == WriterProgress(m, watched) \/ HostDies(m)
=============================================================================

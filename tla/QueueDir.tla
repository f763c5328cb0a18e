------------------------------ MODULE QueueDir ------------------------------
(***************************************************************************)
(* The queue directory %LOCALAPPDATA%\DraftHorse\queue, the only medium    *)
(* between the MAPI DLL (module Interceptor) and the application (module   *)
(* EmailWatcher).  A message occupies "<stem>.json" and the sibling        *)
(* directory "<stem>\" that holds the copies of its attachments.           *)
(*                                                                         *)
(* A JSON file is abstracted to the message it encodes.  `Broken' is the   *)
(* content of a file that cannot be parsed: the empty file that CREATE_NEW *)
(* leaves before the bytes are written, or a truncated one.                *)
(***************************************************************************)
EXTENDS Naturals, Sequences, FiniteSets

CONSTANTS
  Msgs,      (* the messages host applications hand to the DLL             *)
  Stems,     (* the file-name stems                                        *)
  Names,     (* leaf names of attachments                                  *)
  Copies,    (* Copies[m]: the attachment names of m, in message order     *)
  Invalid,   (* messages whose JSON parses but fails validation            *)
  NoFile,    (* the absent file                                            *)
  Broken,    (* the content of a file that does not parse                  *)
  NoStem     (* no stem                                                    *)

ASSUME QueueDirAssumption ==
  /\ Copies \in [Msgs -> Seq(Names)]
  /\ Invalid \subseteq Msgs
  /\ {NoFile, Broken} \cap Msgs = {}
  /\ NoFile # Broken
  /\ NoStem \notin Stems

VARIABLES
  json,      (* json[s]: the content of "<s>.json", or NoFile              *)
  held,      (* stems whose JSON some process has open without sharing     *)
  dirs,      (* stems whose attachment directory exists                    *)
  old,       (* directories last modified more than minOrphanAge ago       *)
  att,       (* att[s]: the files <<name, message>> in directory s         *)
  events     (* directory notifications not yet read by watchLoop          *)

dirVars == <<json, held, dirs, old, att, events>>

Contents == Msgs \cup {Broken}

Event == {"create", "write", "remove"} \X Stems

DirTypeOK ==
  /\ json \in [Stems -> Contents \cup {NoFile}]
  /\ held \subseteq Stems
  /\ old \subseteq dirs
  /\ dirs \subseteq Stems
  /\ att \in [Stems -> SUBSET (Names \X Msgs)]
  /\ events \in Seq(Event)

DirInit ==
  /\ json = [s \in Stems |-> NoFile]
  /\ held = {}
  /\ dirs = {}
  /\ old = {}
  /\ att = [s \in Stems |-> {}]
  /\ events = <<>>

\* The attachment names of m, and the directory entries m needs.
NamesOf(m) == {Copies[m][i] : i \in 1..Len(Copies[m])}
Needs(m)   == NamesOf(m) \X {m}

\* What processFile accepts: it parses, validates, and its attachments are
\* inside the queue directory.
Valid(c) == c \in Msgs \ Invalid

\* ReadFile, Rename and Remove all fail on an absent file and on one that
\* another process has open without sharing.
Accessible(s) == json[s] # NoFile /\ s \notin held

\* Mutant of RemoveDir: the age of the directory survives it.
RemoveDirKeepsAge(s) ==
  /\ att'  = [att EXCEPT ![s] = {}]
  /\ dirs' = dirs \ {s}
  /\ old'  = old

\* Directory s disappears with everything in it.
RemoveDir(s) ==
  /\ att'  = [att EXCEPT ![s] = {}]
  /\ dirs' = dirs \ {s}
  /\ old'  = old \ {s}
=============================================================================

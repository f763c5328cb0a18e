------------------------------ MODULE Messages -------------------------------
(***************************************************************************)
(* One message from the caller of the MAPI functions to the MIME text of a *)
(* draft: conversion and copies in the interceptor (message_converter.cpp, *)
(* mapi_impl.cpp), validation in the watcher (protocol.go, watcher.go) and *)
(* BuildFullMIME (gmail.go).  Meanwhile the caller does what it likes with *)
(* its own files.                                                          *)
(***************************************************************************)
EXTENDS Filenames

CONSTANTS
  Calls,          (* what callers pass: see MCMessages                     *)
  Null,           (* a null pointer                                        *)
  MaxFiles,       (* kMaxAttachmentCount: 256                              *)
  MaxRecipients,  (* kMaxRecipientCount: 500                               *)
  MaxSize,        (* MaxFileSize and MaxTotalAttachmentSize: 18 MB         *)
  Sizes           (* sizes of the caller's files                           *)

ASSUME MessagesAssumption ==
  /\ {MaxFiles, MaxRecipients, MaxSize} \subseteq Nat
  /\ Sizes \subseteq Nat

\* MapiRecipDesc: the class, and whether name and address look like an address,
\* have one with a prefix, a prefix alone, none, or a control character in it.
Recipient == [class: {"to", "cc", "bcc", "other"}, name: {"words", "email"},
              address: {"none", "plain", "prefixed", "prefix", "control"}]

\* MapiFileDesc: lpszPathName and lpszFileName.
Entry == [path: Text, filename: {Null} \cup Text]

\* The arguments of MAPISendMail, and of MAPISendDocuments: the pieces of the two
\* lists between delimiters of one byte each, which split no character.
ASSUME CallsAssumption ==
  \A c \in Calls :
    \/ c.api = "SendMail" /\ c.recipients \in Seq(Recipient) /\ c.files \in Seq(Entry)
    \/ c.api = "SendDocuments" /\ c.paths \in Seq(Text) /\ c.names \in Seq(Text)

VARIABLES
  call,     (* the caller's message or document lists                      *)
  size,     (* the size of the caller's files, all of the same             *)
  pc,       (* what happens next                                           *)
  mail,     (* MailMessage                                                 *)
  next,     (* the attachment to be copied                                 *)
  copies,   (* base names in the message's directory                       *)
  intact,   (* the caller's files are as they were when it called          *)
  draft,    (* what BuildFullMIME wrote                                    *)
  cause     (* history: what of the outside world went wrong               *)

vars == <<call, size, pc, mail, next, copies, intact, draft, cause>>

NoMail == [recipients |-> <<>>, attachments |-> <<>>]

Init ==
  /\ call \in Calls
  /\ size \in Sizes
  /\ pc = "call"
  /\ mail = NoMail /\ draft = NoMail
  /\ next = 1 /\ copies = {}
  /\ intact = TRUE
  /\ cause = "none"

-----------------------------------------------------------------------------
(* The interceptor.                                                        *)

\* Mutant: names stay names.
PromoteNothing(r) == r

\* A name that looks like an address becomes one.
PromoteEmailShapedNameToAddress(r) ==
  IF r.address = "none" /\ r.name = "email" THEN [r EXCEPT !.address = "plain", !.name = "none"]
                                            ELSE r

ConvertRecipient(r) ==
  PromoteEmailShapedNameToAddress(
    [r EXCEPT !.class = IF @ \in {"to", "cc", "bcc"} THEN @ ELSE "to"])

\* The file name is a pointer that may be null, or point to an empty string.
ConvertFile(f) ==
  [path     |-> f.path,
   filename |-> IF f.filename # Null THEN f.filename
                ELSE IF f.path # <<>> THEN FilenameFromPath(f.path) ELSE <<>>,
   from     |-> "caller"]

ConvertMessage(message) ==
  [recipients  |-> [i \in DOMAIN message.recipients |-> ConvertRecipient(message.recipients[i])],
   attachments |-> [i \in DOMAIN message.files |-> ConvertFile(message.files[i])]]

\* The pieces of a list, trimmed; empty ones are dropped.
Keep(kept, piece) == IF piece = <<>> THEN kept ELSE Append(kept, piece)
SplitDelimited(list) == FoldLeft(Keep, <<>>, list)

\* Mutant: the display names are matched from the end.
NamesFromTheEnd(paths, names) ==
  [i \in DOMAIN paths |->
     [path     |-> paths[i],
      filename |-> IF i <= Len(names) THEN names[Len(names) + 1 - i] ELSE FilenameFromPath(paths[i]),
      from     |-> "caller"]]

Documents(paths, names) ==
  [i \in DOMAIN paths |->
     [path     |-> paths[i],
      filename |-> IF i <= Len(names) THEN names[i] ELSE FilenameFromPath(paths[i]),
      from     |-> "caller"]]

Refuse ==
  /\ pc' = "refused"
  /\ UNCHANGED <<mail, next, copies, cause>>

MAPISendMail ==
  /\ pc = "call" /\ call.api = "SendMail"
  /\ IF Len(call.recipients) > MaxRecipients \/ Len(call.files) > MaxFiles THEN Refuse
     ELSE /\ mail' = ConvertMessage(call)
          /\ pc' = "copy"
          /\ UNCHANGED <<next, copies, cause>>
  /\ UNCHANGED <<call, size, intact, draft>>

MAPISendDocuments ==
  /\ pc = "call" /\ call.api = "SendDocuments"
  /\ LET paths == SplitDelimited(call.paths) IN
     IF Len(paths) \notin 1..MaxFiles THEN Refuse
     ELSE /\ mail' = [recipients |-> <<>>,
                      attachments |-> Documents(paths, SplitDelimited(call.names))]
          /\ pc' = "copy"
          /\ UNCHANGED <<next, copies, cause>>
  /\ UNCHANGED <<call, size, intact, draft>>

Basename(a) == SanitizeFilename(IF a.filename # <<>> THEN a.filename ELSE a.path)

\* CopyAttachmentsForStem, one attachment: an entry without a path stays as it
\* is, the others are copied under their sanitised name, which must be new.
CopyAttachment ==
  /\ pc = "copy" /\ next <= Len(mail.attachments)
  /\ LET a == mail.attachments[next] IN
     IF a.path = <<>> THEN next' = next + 1 /\ UNCHANGED <<pc, mail, copies>>
     ELSE IF Basename(a) \in copies
     THEN pc' = "refused" /\ copies' = {} /\ UNCHANGED <<mail, next>>
     ELSE /\ copies' = copies \cup {Basename(a)}
          /\ mail' = [mail EXCEPT !.attachments[next].from = "queue"]
          /\ next' = next + 1
          /\ UNCHANGED pc
  /\ UNCHANGED <<call, size, intact, draft, cause>>

\* The source cannot be read or the disk is full: the copies are rolled back.
CopyFails ==
  /\ pc = "copy" /\ next <= Len(mail.attachments)
  /\ mail.attachments[next].path # <<>>
  /\ pc' = "refused" /\ copies' = {} /\ cause' = "copy"
  /\ UNCHANGED <<call, size, mail, next, intact, draft>>

WriteMailToFile ==
  /\ pc = "copy" /\ next > Len(mail.attachments)
  /\ \/ pc' = "queued" /\ UNCHANGED <<copies, cause>>
     \/ pc' = "refused" /\ copies' = {} /\ cause' = "write"
  /\ UNCHANGED <<call, size, mail, next, intact, draft>>

\* The call returned: the caller deletes its files or writes others there.
CallerMovesOn ==
  /\ pc \notin {"call", "copy"} /\ intact
  /\ intact' = FALSE
  /\ UNCHANGED <<call, size, pc, mail, next, copies, draft, cause>>

-----------------------------------------------------------------------------
(* The app.                                                                *)

\* SMTP: and mailto: in front of an address go, once.
normalizeAddress(r) ==
  [r EXCEPT !.address = CASE @ = "prefixed" -> "plain"
                          [] @ = "prefix"   -> "none"
                          [] OTHER          -> @]

ValidateMailMessage(recipients) == \A i \in DOMAIN recipients : recipients[i].address # "none"

processFile ==
  /\ pc = "queued"
  /\ LET recipients == [i \in DOMAIN mail.recipients |-> normalizeAddress(mail.recipients[i])] IN
     IF ValidateMailMessage(recipients)
     THEN pc' = "row" /\ mail' = [mail EXCEPT !.recipients = recipients]
     ELSE pc' = "rejected" /\ UNCHANGED mail
  /\ UNCHANGED <<call, size, next, copies, intact, draft, cause>>

validateHeaderAddress(r) == r.address # "control"

\* An attachment can be read: from the queue always, from the caller's
\* directory while its file is there; an empty path names no file.
Readable(a) == a.path # <<>> /\ (a.from = "queue" \/ intact)

\* Either the whole message, or an error.
BuildFullMIME ==
  /\ pc = "row"
  /\ IF /\ \A i \in DOMAIN mail.recipients : validateHeaderAddress(mail.recipients[i])
        /\ \A i \in DOMAIN mail.attachments : Readable(mail.attachments[i])
        /\ Len(mail.attachments) * size <= MaxSize
     THEN pc' = "drafted" /\ draft' = mail
     ELSE pc' = "failed" /\ UNCHANGED draft
  /\ UNCHANGED <<call, size, mail, next, copies, intact, cause>>

Next ==
  \/ MAPISendMail \/ MAPISendDocuments \/ CopyAttachment \/ CopyFails \/ WriteMailToFile
  \/ CallerMovesOn \/ processFile \/ BuildFullMIME

Spec == Init /\ [][Next]_vars

-----------------------------------------------------------------------------
(* What the caller asked for.                                              *)

Named(r)  == r.address \notin {"none", "prefix"} \/ (r.address = "none" /\ r.name = "email")

\* The name under which the i-th file shall appear.
Wanted(i) ==
  IF call.api = "SendMail"
  THEN ConvertFile(call.files[i]).filename
  ELSE IF i <= Len(call.names) /\ call.names[i] # <<>> THEN call.names[i]
       ELSE FilenameFromPath(SplitDelimited(call.paths)[i])

\* An entry left out of a list of display names shifts the ones behind it.
Shifted == call.api = "SendDocuments" /\ <<>> \in ToSet(call.names)

Files == IF call.api = "SendMail" THEN [i \in DOMAIN call.files |-> call.files[i].path]
                                  ELSE SplitDelimited(call.paths)

-----------------------------------------------------------------------------

\* A draft has every recipient under the class that the caller gave and no
\* control character in a header, and every file as it was when the caller
\* called, in order, whatever the caller did with it afterwards; each under
\* its own name, unless a list of display names has a gap.
DraftIsTheMessage ==
  pc = "drafted" =>
    /\ call.api = "SendMail" =>
         /\ Len(draft.recipients) = Len(call.recipients)
         /\ \A i \in DOMAIN call.recipients :
              /\ draft.recipients[i].address = "plain"
              /\ draft.recipients[i].class = IF call.recipients[i].class = "other" THEN "to"
                                             ELSE call.recipients[i].class
    /\ Len(draft.attachments) = Len(Files)
    /\ \A i \in DOMAIN Files :
         /\ draft.attachments[i].path = Files[i]
         /\ draft.attachments[i].from = "queue"
         /\ draft.attachments[i].filename = Wanted(i) \/ Shifted

\* Nobody's mail gets lost for nothing: it fails only when the disk failed, a
\* recipient has no address, an address has control characters, recipients or
\* files are too many, files too large - or, as the code has it, when two files have the same
\* sanitised name or an entry has no path.
RefusedForCause ==
  pc \in {"refused", "rejected", "failed"} =>
    \/ cause # "none"
    \/ call.api = "SendMail" /\ \E r \in ToSet(call.recipients) : ~Named(r) \/ r.address = "control"
    \/ call.api = "SendMail" /\ Len(call.recipients) > MaxRecipients
    \/ Len(Files) > MaxFiles \/ Len(Files) * size > MaxSize
    \/ call.api = "SendDocuments" /\ Files = <<>>
    \/ <<>> \in ToSet(Files)
    \/ \E i, j \in DOMAIN mail.attachments :
         i < j /\ Basename(mail.attachments[i]) = Basename(mail.attachments[j])

\* The guarantees of message_converter.h for every name in the directory, but
\* for the end of a name that had to be cut; the cut takes less than a character
\* more than it has to.
SafeNames ==
  \A s \in copies : /\ SafeOnDisk(s)
                    /\ ValidUtf8(s)
                    /\ NoTrailing(s) \/ Len(s) > MaxBasename - MaxCharacter
=============================================================================

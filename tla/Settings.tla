------------------------------ MODULE Settings ------------------------------
(***************************************************************************)
(* The preferences of the user (src/src/app/settings.go): AppSettings in   *)
(* memory behind settingsMu, settings.json on disk.  Every setter changes  *)
(* one field and copies the whole record under the mutex; saveSettings     *)
(* then replaces the file by that copy outside of it.  The two-valued      *)
(* fields are options that are on or off: "auto-draft" is Mode, "slot-1"   *)
(* is ActiveAccount.                                                       *)
(***************************************************************************)
EXTENDS Naturals, FiniteSets

CONSTANTS
  Threads,        (* goroutines that run bindings, menu clicks and checks  *)
  Absent,         (* a field that settings.json lacks or that is invalid   *)
  InitialFiles,   (* what settings.json may hold at the first start        *)
  EarlyClicks,    (* a click may precede loadSettings                      *)
  MaxChanges      (* bound on changes of an option                         *)

Options == {"auto-draft", "checks", "open-draft", "dedicated", "slot-1"}

\* A settings.json: missing and corrupt files have every field absent.
RawSettings == [on: [Options -> BOOLEAN \cup {Absent}], last: Nat]
AppSettings == [on: [Options -> BOOLEAN], last: Nat]

ASSUME SettingsAssumption ==
  /\ Absent \notin BOOLEAN
  /\ InitialFiles \subseteq RawSettings
  /\ EarlyClicks \in BOOLEAN
  /\ MaxChanges \in Nat

VARIABLES
  settings,  (* App.settings                                               *)
  file,      (* settings.json                                              *)
  phase,     (* startup: before loadSettings, after it, update service up  *)
  pc,        (* per goroutine: its next step                               *)
  copy,      (* the copy taken under settingsMu, on its way to the disk    *)
  field,     (* the field that copy was taken for                          *)
  changes,
  chosen,    (* history: the values of an option the user may expect       *)
  overlap,   (* history: a copy was taken while another was being written  *)
  early      (* history: a change preceded loadSettings                    *)

settingsVars == <<settings, file, copy, field, changes, chosen, overlap, early>>

At(t, step) == pc[t] = step
Goto(t, step) == pc' = [pc EXCEPT ![t] = step]

NewAppSettings == [on |-> [o \in Options |-> FALSE], last |-> 0]

defaultAppSettings ==
  [on |-> [o \in Options |-> o \in {"open-draft", "dedicated"}], last |-> 0]

\* Absent, misspelt and out-of-range fields take their defaults, one by one.
loadSettings(raw) ==
  [on   |-> [o \in Options |->
               IF raw.on[o] = Absent THEN defaultAppSettings.on[o] ELSE raw.on[o]],
   last |-> raw.last]

SettingsInit ==
  /\ file \in InitialFiles
  /\ settings = NewAppSettings
  /\ copy = [t \in Threads |-> NewAppSettings]
  /\ field = [t \in Threads |-> "last"]
  /\ changes = 0
  /\ chosen = [o \in Options |-> {loadSettings(file).on[o]}]
  /\ overlap = FALSE
  /\ early = FALSE

\* The part of every setter under settingsMu: the new value and the copy.
CopyUnderLock(t, f, s) ==
  /\ settings' = s
  /\ copy' = [copy EXCEPT ![t] = s]
  /\ field' = [field EXCEPT ![t] = f]
  /\ overlap' = (overlap \/ \E u \in Threads : At(u, "save"))
  /\ early' = (early \/ phase = "starting")
  /\ Goto(t, "save")

\* A binding or a menu click changes option o.
SetOption(t, o) ==
  /\ At(t, "idle")
  /\ phase = "starting" => EarlyClicks
  /\ changes < MaxChanges
  /\ changes' = changes + 1
  /\ CopyUnderLock(t, o, [settings EXCEPT !.on[o] = ~@])
  /\ UNCHANGED <<file, chosen>>

\* setMode also wakes automode once the file is written.
SetMode(t)                  == SetOption(t, "auto-draft")
SetOpenDraftInBrowser(t)    == SetOption(t, "open-draft")
SetDraftBrowserDedicated(t) == SetOption(t, "dedicated")
SetActiveAccount(t)         == SetOption(t, "slot-1")
SetUpdateChecksEnabled(t)   == SetOption(t, "checks")

\* saveSettings returns: its copy is gone.
Returned(t) ==
  /\ copy' = [copy EXCEPT ![t] = NewAppSettings]
  /\ field' = [field EXCEPT ![t] = "last"]
  /\ UNCHANGED <<settings, changes, overlap, early>>

\* saveSettings succeeds: the temporary file atomically becomes settings.json.
Replace(t) ==
  /\ file' = copy[t]
  /\ chosen' = [o \in Options |->
                  IF o = field[t] THEN {copy[t].on[o]} ELSE chosen[o]]
  /\ Returned(t)

\* Any step of it fails: the file is as it was, the new value stays in memory.
Refuse(t) ==
  /\ chosen' = [o \in Options |->
                  IF o = field[t] THEN BOOLEAN ELSE chosen[o]]
  /\ UNCHANGED file
  /\ Returned(t)

\* startup reads the file over whatever is in memory.
LoadSettings ==
  /\ phase = "starting"
  /\ settings' = loadSettings(file)
  /\ phase' = "loaded"
  /\ UNCHANGED <<file, pc, copy, field, changes, chosen, overlap, early>>

\* The process ends at any point and is started again.
SettingsRestart ==
  /\ settings' = NewAppSettings
  /\ phase' = "starting"
  /\ pc' = [t \in Threads |-> "idle"]
  /\ copy' = [t \in Threads |-> NewAppSettings]
  /\ field' = [t \in Threads |-> "last"]
  /\ UNCHANGED <<file, changes, chosen, overlap, early>>

SettingsTypeOK ==
  /\ settings \in AppSettings
  /\ file \in RawSettings
  /\ phase \in {"starting", "loaded", "running"}
  /\ copy \in [Threads -> AppSettings]
  /\ field \in [Threads -> Options \cup {"last"}]
  /\ changes \in 0..MaxChanges
  /\ chosen \in [Options -> SUBSET BOOLEAN]
  /\ {overlap, early} \subseteq BOOLEAN

-----------------------------------------------------------------------------

\* What the user set and was told to be saved is what the next start reads:
\* no later save of another field brings an older value back (settings.go,
\* "SINGLE-WRITER INVARIANT"; app.go, "Preserves the single-writer invariant").
ChoicesKept == \A o \in Options : loadSettings(file).on[o] \in chosen[o]

\* It holds as long as no two saves are under way at a time and nobody changes
\* an option before startup has read the file: saves that fail, checks that
\* persist their time beside the user and restarts at any point lose nothing.
ChoicesKeptOneByOne == (overlap \/ early) \/ ChoicesKept
=============================================================================

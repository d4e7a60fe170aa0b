----------------------------- MODULE ClientsFile -----------------------------
(***************************************************************************)
(* The clients file of a relay and the permissions that the process has in *)
(* memory: readPermissions, which looks whether the file is there, reads,   *)
(* parses and only then assigns, awaiting each, and the watcher that calls *)
(* it once for each change it is told of, one after the other.  The file   *)
(* is edited in place, at any time; it is not removed under the watcher.    *)
(***************************************************************************)
EXTENDS Integers

CONSTANTS
  Clients,   (* whom the file may authorize                                *)
  Contents,  (* bound: the sets of clients that edits put into the file    *)
  Missing,   (* there is no file                                           *)
  Broken,    (* its content is neither JSON nor YAML, or not valid         *)
  MaxEdits   (* bound: edits of the file                                   *)

ASSUME ClientsFileAssumption ==
  /\ Contents \subseteq SUBSET Clients
  /\ MaxEdits \in Nat

VARIABLES
  file,         (* what the file holds                                     *)
  edits,        (* how often it was edited                                 *)
  permissions,  (* relayPermissions: the clients authorized, {} if undefined *)
  reading,      (* what readPermissions awaits                             *)
  content,      (* what it has read                                        *)
  events,       (* changes that the watcher has not looked at              *)
  watching,     (* the watcher runs                                        *)
  watchedFrom   (* the edits made before it did                            *)

fileVars == <<file, edits, permissions, reading, content, events, watching, watchedFrom>>

FileTypeOK ==
  /\ file \in Contents \cup {Missing, Broken}
  /\ edits \in 0..MaxEdits /\ watchedFrom \in 0..edits
  /\ permissions \in Contents \cup {{}}
  /\ reading \in {"nothing", "stat", "text", "parse"}
  /\ content \in Contents \cup {{}}
  /\ events \in 0..MaxEdits
  /\ watching \in BOOLEAN

FileInit ==
  /\ file \in Contents \cup {Missing, Broken}
  /\ edits = 0 /\ watchedFrom = 0
  /\ permissions = {} /\ content = {}
  /\ reading = "nothing" /\ events = 0 /\ watching = FALSE

\* Mutant: a change that comes during a reload is taken to be part of it.
MutNotified == IF watching /\ reading = "nothing" THEN events + 1 ELSE events

Notified == IF watching THEN events + 1 ELSE events

Edit(new) ==
  /\ edits < MaxEdits /\ (new = Missing => ~watching)
  /\ file' = new
  /\ edits' = edits + 1
  /\ events' = Notified
  /\ UNCHANGED <<permissions, reading, content, watching, watchedFrom>>

(* A new process reads the file before it watches it.                        *)
StartReading ==
  /\ permissions' = {} /\ content' = {} /\ reading' = "stat"
  /\ events' = 0 /\ watching' = FALSE
  /\ UNCHANGED <<file, edits, watchedFrom>>

(* Nothing is left of a process that has ended.                              *)
StopReading ==
  /\ permissions' = {} /\ content' = {} /\ reading' = "nothing"
  /\ events' = 0 /\ watching' = FALSE
  /\ UNCHANGED <<file, edits, watchedFrom>>

StopWatching ==
  /\ watching' = FALSE /\ events' = 0
  /\ UNCHANGED <<file, edits, permissions, reading, content, watchedFrom>>

ReadsOn ==
  /\ \/ reading = "stat" /\ file # Missing /\ reading' = "text" /\ UNCHANGED content
     \/ reading = "text" /\ file \in Contents /\ reading' = "parse" /\ content' = file
  /\ UNCHANGED <<file, edits, permissions, events, watching, watchedFrom>>

(* The permissions are withdrawn: nobody is authorized.                      *)
ReadFails ==
  /\ \/ reading = "stat" /\ file = Missing
     \/ reading = "text" /\ file \in {Missing, Broken}
  /\ reading' = "nothing" /\ permissions' = {}
  /\ UNCHANGED <<file, edits, content, events, watching, watchedFrom>>

Assigned ==
  /\ reading = "parse"
  /\ reading' = "nothing" /\ permissions' = content
  /\ UNCHANGED <<file, edits, content, events>>

(* The end of a reload.                                                      *)
Reloaded == Assigned /\ UNCHANGED <<watching, watchedFrom>>

(* The end of the first load: now the watcher starts.                        *)
Loaded == Assigned /\ watching' = TRUE /\ watchedFrom' = edits

NextEvent ==
  /\ watching /\ reading = "nothing" /\ events > 0
  /\ events' = events - 1
  /\ reading' = "stat"
  /\ UNCHANGED <<file, edits, permissions, content, watching, watchedFrom>>

(* What the file authorizes.                                                 *)
Authorized == IF file \in Contents THEN file ELSE {}

(* When the file was changed after the watcher had started, the permissions  *)
(* become those of the file, though it may change again while it is read     *)
(* and be broken in between.  What is changed between the first load and     *)
(* the start of the watcher is not seen (cli.ts:758-770), although "it       *)
(* watches the clients file and reloads permissions automatically when it    *)
(* changes" (README.md:127-128).                                            *)
ReloadSettles ==
  []<>(~watching \/ edits = watchedFrom \/ permissions = Authorized)

=============================================================================

---------------------------- MODULE Annotations ----------------------------
(***************************************************************************)
(* What a reply may do to the user's machine: the annotations that         *)
(* handle_response (repl_chat.cpp) takes from it, the permission of the    *)
(* active agent, the user's answer, and the change itself with its backup  *)
(* under .tmp/backups (repl_annotations.cpp).                              *)
(*                                                                         *)
(* A file is a sequence of fragments, so that a targeted edit, a whole     *)
(* rewrite and an edit in the user's own editor can be told apart.  Output *)
(* goes through an ofstream: opening truncates the file on disk, the text  *)
(* gets there when the stream closes, and the process can be killed in     *)
(* between.  A text longer than the stream's buffer would get there in     *)
(* pieces; one piece is enough for what is said here.                      *)
(*                                                                         *)
(* The actions of a reply are chosen one at a time, in the order           *)
(* handle_response takes them; answers that only ask again (s, ?, and for  *)
(* a write everything but y, n and t) change nothing and are left out.     *)
(***************************************************************************)
EXTENDS Integers, Sequences, FiniteSets, Functions

CONSTANTS
  Paths,         \* files a reply may touch
  NameOf,        \* the last component of a path, which names its backup
  Fragments,     \* pieces of text
  NoFile,        \* content of a file that does not exist
  NoAction,      \* no action under way
  Permissions,   \* agent -> tool -> "allow", "ask" or "deny" (agents.yml)
  MaxActions,    \* bound: annotations in all replies together
  MaxEdits,      \* bound: changes by the user's own editor
  MaxKills,      \* bound: times the process is killed
  MaxLen         \* bound: fragments of a file the editor appends to

ASSUME ConstantsAssumption ==
  /\ NameOf \in [Paths -> Range(NameOf)]
  /\ NoFile \notin Seq(Fragments)
  /\ {MaxActions, MaxEdits, MaxKills, MaxLen} \subseteq Nat

Names    == Range(NameOf)
Contents == Seq(Fragments) \cup {NoFile}
Agents   == DOMAIN Permissions \cup {"build"}

\* The order in which handle_response takes the annotations of a reply.
Rank  == [write |-> 1, str_replace |-> 2, exec |-> 3, delegate |-> 4]
Tools == DOMAIN Rank

Actions ==
  [tool : {"write"}, path : Paths, new : Fragments]
    \cup {a \in [tool : {"str_replace"}, path : Paths, old : Fragments, new : Fragments] :
            a.old # a.new}
    \cup [tool : {"exec", "delegate"}]

ASSUME NoActionAssumption == NoAction \notin Actions

VARIABLES
  files,      \* the user's files
  backups,    \* .tmp/backups
  trust,      \* s.trust
  autoConfirm,\* cfg.auto_confirm_write
  agent,      \* active_agent_name()
  pc,         \* where the main thread is
  rank,       \* rank of the last annotation taken from the reply
  left,       \* annotations the reply still has
  action,     \* the annotation under way
  seen,       \* existing: the text of the file as the program last read it
  bakOpen,    \* the backup's stream is open
  consent,    \* ghost: what the action under way rests on
  undisturbed,\* ghost: nobody else touched a file since it was read, no I/O failed
  replaced,   \* ghost: the text the last change under a name replaced
  taken,      \* annotations the replies had so far
  edits, kills

vars == <<files, backups, trust, autoConfirm, agent, pc, rank, left, action, seen,
          bakOpen, consent, undisturbed, replaced, taken, edits, kills>>

disk     == <<files, backups, replaced>>
session  == <<trust, autoConfirm, agent>>
counters == <<taken, edits, kills>>

PCs == {"idle", "acting", "asked", "approved", "backup", "backed", "writing",
        "written", "killed"}

\* The variables of a handler; none of them outlives it.
handler == <<action, seen, bakOpen, consent, undisturbed>>

EndHandler ==
  /\ action' = NoAction
  /\ seen' = NoFile
  /\ bakOpen' = FALSE
  /\ consent' = "none"
  /\ undisturbed' = FALSE

Init ==
  /\ files \in [Paths -> {<<f>> : f \in Fragments} \cup {NoFile}]
  /\ backups = [n \in Names |-> NoFile]
  /\ trust = FALSE
  /\ autoConfirm \in BOOLEAN
  /\ agent = "build"
  /\ pc = "idle"
  /\ rank = 1
  /\ left = 0
  /\ action = NoAction
  /\ seen = NoFile
  /\ bakOpen = FALSE
  /\ consent = "none"
  /\ undisturbed = FALSE
  /\ replaced = [n \in Names |-> NoFile]
  /\ taken = 0 /\ edits = 0 /\ kills = 0

-----------------------------------------------------------------------------
(* The reply. *)

\* handle_response starts on a reply with n annotations.
Reply(n) ==
  /\ pc = "idle"
  /\ taken + n <= MaxActions
  /\ pc' = "acting"
  /\ rank' = 1
  /\ left' = n
  /\ taken' = taken + n
  /\ UNCHANGED <<disk, session, handler, edits, kills>>

\* handle_response returns.
ReplyDone ==
  /\ pc = "acting"
  /\ left = 0
  /\ pc' = "idle"
  /\ rank' = 1
  /\ UNCHANGED <<disk, session, left, handler, counters>>

\* /agent, between two replies.
SwitchAgent(a) ==
  /\ pc = "idle"
  /\ agent' = a
  /\ UNCHANGED <<disk, trust, autoConfirm, pc, rank, left, handler, counters>>

\* permission_blocked: only "deny" of a known agent blocks; a tool without an
\* entry is allowed or asked for, which every caller treats alike.
Blocked(tool) ==
  /\ agent \in DOMAIN Permissions
  /\ tool \in DOMAIN Permissions[agent]
  /\ Permissions[agent][tool] = "deny"

\* The next annotation of the reply is a.
Take(a) ==
  /\ pc = "acting"
  /\ left > 0
  /\ Rank[a.tool] >= rank
  /\ rank' = Rank[a.tool]
  /\ left' = left - 1
  /\ UNCHANGED <<disk, session, bakOpen, counters>>

\* The handler returns before it asks anything.
Skipped == UNCHANGED <<pc, action, seen, consent, undisturbed>>

\* The handler goes on with a, on the user's say (asks) or on the ground given.
Proceed(a, asks, ground) ==
  /\ action' = a
  /\ pc' = IF asks THEN "asked" ELSE "approved"
  /\ consent' = IF asks THEN "none" ELSE ground

\* Mutant of Write: auto-confirm skips the permission, too.
WriteUnblocked(a) ==
  /\ Take(a)
  /\ IF Blocked("write") /\ ~autoConfirm THEN Skipped
     ELSE /\ Proceed(a, ~trust /\ ~autoConfirm, IF trust THEN "trust" ELSE "auto")
          /\ seen' = files[a.path]
          /\ undisturbed' = TRUE

\* process_write and confirm_write up to the question.
Write(a) ==
  /\ Take(a)
  /\ IF Blocked("write") THEN Skipped
     ELSE /\ Proceed(a, ~trust /\ ~autoConfirm, IF trust THEN "trust" ELSE "auto")
          /\ seen' = files[a.path]
          /\ undisturbed' = TRUE

\* The place of the first f in a text that has one.
FirstAt(text, f) ==
  CHOOSE i \in DOMAIN text : text[i] = f /\ \A j \in 1 .. i - 1 : text[j] # f

CanReplace(text, f) == text # NoFile /\ f \in Range(text)

\* process_str_replace up to the question: the new text is computed here.
StrReplace(a) ==
  /\ Take(a)
  /\ IF Blocked("str_replace") \/ ~CanReplace(files[a.path], a.old) THEN Skipped
     ELSE /\ Proceed(a, ~trust, "trust")
          /\ seen' = files[a.path]
          /\ undisturbed' = TRUE

\* Mutant of Exec: a command asks even when the session is trusted.
ExecAsks(a) ==
  /\ Take(a)
  /\ IF Blocked("exec") THEN Skipped
     ELSE Proceed(a, TRUE, "trust") /\ UNCHANGED <<seen, undisturbed>>

\* confirm_exec up to the question.
Exec(a) ==
  /\ Take(a)
  /\ IF Blocked("exec") THEN Skipped
     ELSE Proceed(a, ~trust, "trust") /\ UNCHANGED <<seen, undisturbed>>

\* A delegation asks whatever trust says, and no permission is needed for it.
Delegate(a) ==
  /\ Take(a)
  /\ Proceed(a, TRUE, "none")
  /\ UNCHANGED <<seen, undisturbed>>

Propose(a) ==
  \/ a.tool = "write" /\ Write(a)
  \/ a.tool = "str_replace" /\ StrReplace(a)
  \/ a.tool = "exec" /\ Exec(a)
  \/ a.tool = "delegate" /\ Delegate(a)

\* The handler under way returns to handle_response.
Returns == pc' = "acting" /\ EndHandler

-----------------------------------------------------------------------------
(* The answer. *)

\* y
Yes ==
  /\ pc = "asked"
  /\ pc' = "approved"
  /\ consent' = "yes"
  /\ UNCHANGED <<disk, session, rank, left, action, seen, bakOpen, undisturbed, counters>>

\* t: the session trusts the model from here on.
Trust ==
  /\ pc = "asked"
  /\ action.tool # "delegate"
  /\ pc' = "approved"
  /\ consent' = "yes"
  /\ trust' = TRUE
  /\ UNCHANGED <<disk, autoConfirm, agent, rank, left, action, seen, bakOpen,
                 undisturbed, counters>>

\* Mutant of No: an answer that is not understood counts as a yes for a file.
NoOverruled ==
  /\ pc = "asked"
  /\ IF action.tool # "exec"
     THEN /\ pc' = "approved"
          /\ consent' = "no"
          /\ UNCHANGED <<action, seen, bakOpen, undisturbed>>
     ELSE Returns
  /\ UNCHANGED <<disk, session, rank, left, counters>>

\* n, end of input, and c or any other answer where it does not ask again.
\* A delegation starts under trust whatever the answer was.
No ==
  /\ pc = "asked"
  /\ IF action.tool = "delegate" /\ trust
     THEN /\ pc' = "approved"
          /\ consent' = "no"
          /\ UNCHANGED <<action, seen, bakOpen, undisturbed>>
     ELSE Returns
  /\ UNCHANGED <<disk, session, rank, left, counters>>

-----------------------------------------------------------------------------
(* The change. *)

ChangesFile == action # NoAction /\ action.tool \in {"write", "str_replace"}
File   == action.path
Backup == NameOf[File]

\* The text the action puts in the file.
NewText ==
  IF action.tool = "write" THEN <<action.new>>
  ELSE [seen EXCEPT ![FirstAt(seen, action.old)] = action.new]

\* The trusted branch of process_str_replace keeps the backup's stream open
\* until it returns.
HoldsBackup == action.tool = "str_replace" /\ consent = "trust"

\* Mutant of Existing: the backup keeps the text the diff was shown for.
ExistingShown == seen

\* A write reads the file again after the answer; a str_replace does not.
Existing == IF action.tool = "write" THEN files[File] ELSE seen

\* A write to a file that does not exist needs no backup.
NoBackup ==
  /\ pc = "approved"
  /\ ChangesFile
  /\ action.tool = "write" /\ files[File] = NoFile
  /\ pc' = "backed"
  /\ seen' = NoFile
  /\ UNCHANGED <<disk, session, rank, left, action, bakOpen, consent, undisturbed, counters>>

\* The backup cannot be opened: nothing is said, the change goes on.
BackupFails ==
  /\ pc = "approved"
  /\ ChangesFile
  /\ action.tool = "write" => files[File] # NoFile
  /\ pc' = "backed"
  /\ undisturbed' = FALSE
  /\ UNCHANGED <<disk, session, rank, left, action, seen, bakOpen, consent, counters>>

\* mkdir -p, and the backup is opened, which empties it.
OpenBackup ==
  /\ pc = "approved"
  /\ ChangesFile
  /\ action.tool = "write" => files[File] # NoFile
  /\ seen' = Existing
  /\ undisturbed' = (action.tool = "write" \/ undisturbed)
  /\ backups' = [backups EXCEPT ![Backup] = <<>>]
  /\ replaced' = [replaced EXCEPT ![Backup] = NoFile]
  /\ bakOpen' = TRUE
  /\ pc' = IF HoldsBackup THEN "backed" ELSE "backup"
  /\ UNCHANGED <<files, session, rank, left, action, consent, counters>>

\* The backup's stream closes: before the file is opened, or behind its change.
CloseBackup ==
  /\ pc \in {"backup", "written"}
  /\ bakOpen
  /\ bakOpen' = FALSE
  /\ pc' = IF pc = "backup" THEN "backed" ELSE pc
  /\ \/ /\ backups' = [backups EXCEPT ![Backup] = seen]
        /\ UNCHANGED <<undisturbed, replaced>>
     \/ \* the disk is full, which is not noticed
        /\ undisturbed' = FALSE
        /\ replaced' = [replaced EXCEPT ![Backup] = NoFile]
        /\ UNCHANGED backups
  /\ UNCHANGED <<files, session, rank, left, action, seen, consent, counters>>

\* The file is opened, which empties it.
OpenFile ==
  /\ pc = "backed"
  /\ files' = [files EXCEPT ![File] = <<>>]
  /\ replaced' = [replaced EXCEPT ![Backup] =
                    IF ~undisturbed THEN NoFile
                    ELSE IF files[File] = NoFile THEN @ ELSE files[File]]
  /\ pc' = "writing"
  /\ UNCHANGED <<backups, session, rank, left, handler, counters>>

\* It cannot be opened: an error, the file is as it was.
OpenFails ==
  /\ pc = "backed"
  /\ pc' = "written"
  /\ UNCHANGED <<disk, session, rank, left, handler, counters>>

\* The file's stream closes; a full disk is not noticed.
CloseFile ==
  /\ pc = "writing"
  /\ \/ files' = [files EXCEPT ![File] = NewText]
     \/ UNCHANGED files
  /\ pc' = "written"
  /\ UNCHANGED <<backups, replaced, session, rank, left, handler, counters>>

\* Mutant of HandlerReturns: the action stays behind.
HandlerForgets ==
  /\ pc = "written"
  /\ ~bakOpen
  /\ pc' = "acting"
  /\ UNCHANGED <<disk, session, rank, left, handler, counters>>

\* The handler returns.
HandlerReturns ==
  /\ pc = "written"
  /\ ~bakOpen
  /\ Returns
  /\ UNCHANGED <<disk, session, rank, left, counters>>

\* cmd_exec: the command may leave any file changed.
RunCommand ==
  /\ pc = "approved"
  /\ action.tool = "exec"
  /\ files' \in {files} \cup {[files EXCEPT ![p] = <<f>>] : p \in Paths, f \in Fragments}
  /\ Returns
  /\ UNCHANGED <<backups, replaced, session, rank, left, counters>>

\* The delegation is a future on a thread of its own; it touches no file.
StartTask ==
  /\ pc = "approved"
  /\ action.tool = "delegate"
  /\ Returns
  /\ UNCHANGED <<disk, session, rank, left, counters>>

-----------------------------------------------------------------------------
(* The user's editor, and the end of the process. *)

Edit(p) ==
  /\ edits < MaxEdits
  /\ edits' = edits + 1
  /\ undisturbed' = FALSE
  /\ \/ files' = [files EXCEPT ![p] = NoFile]
     \/ /\ files[p] # NoFile
        /\ Len(files[p]) < MaxLen
        /\ \E f \in Fragments : files' = [files EXCEPT ![p] = Append(@, f)]
     \/ /\ files[p] = NoFile
        /\ \E f \in Fragments : files' = [files EXCEPT ![p] = <<f>>]
  /\ UNCHANGED <<backups, replaced, session, pc, rank, left, action, seen, bakOpen,
                 consent, kills, taken>>

\* SIGINT, SIGTERM or a crash: what is not on disk is gone.
Kill ==
  /\ pc \notin {"idle", "killed"}
  /\ kills < MaxKills
  /\ kills' = kills + 1
  /\ pc' = "killed"
  /\ rank' = 1
  /\ left' = 0
  /\ EndHandler
  /\ replaced' = IF bakOpen THEN [replaced EXCEPT ![Backup] = NoFile] ELSE replaced
  /\ UNCHANGED <<files, backups, session, edits, taken>>

\* The user starts it again: trust and the active agent are not kept.
Restart ==
  /\ pc = "killed"
  /\ pc' = "idle"
  /\ trust' = FALSE
  /\ agent' = "build"
  /\ UNCHANGED <<disk, autoConfirm, rank, left, handler, counters>>

Answer  == Yes \/ Trust \/ No
Perform ==
  \/ NoBackup \/ BackupFails \/ OpenBackup \/ CloseBackup
  \/ OpenFile \/ OpenFails \/ CloseFile \/ HandlerReturns
  \/ RunCommand \/ StartTask
Handle  == ReplyDone \/ (\E a \in Actions : Propose(a)) \/ Perform

Next ==
  \/ \E n \in 0 .. MaxActions : Reply(n)
  \/ \E a \in Agents : SwitchAgent(a)
  \/ Handle \/ Answer
  \/ \E p \in Paths : Edit(p)
  \/ Kill \/ Restart

\* The main thread runs on while it waits for nobody.
Spec == Init /\ [][Next]_vars /\ WF_vars(Handle)

-----------------------------------------------------------------------------
(* Properties. *)

TypeOK ==
  /\ files \in [Paths -> Contents]
  /\ backups \in [Names -> Contents]
  /\ trust \in BOOLEAN
  /\ autoConfirm \in BOOLEAN
  /\ agent \in Agents
  /\ pc \in PCs
  /\ rank \in 1 .. 4
  /\ left \in 0 .. MaxActions
  /\ action \in Actions \cup {NoAction}
  /\ seen \in Contents
  /\ bakOpen \in BOOLEAN
  /\ consent \in {"none", "yes", "no", "trust", "auto"}
  /\ undisturbed \in BOOLEAN
  /\ replaced \in [Names -> Contents]
  /\ edits \in Nat /\ kills \in Nat /\ taken \in 0 .. MaxActions
  /\ action = NoAction <=> pc \in {"idle", "acting", "killed"}

\* The backup that is still in the trusted str_replace's open stream.
HeldBack(n) == bakOpen /\ HoldsBackup /\ n = Backup

\* What the last change under a name replaced is in its backup, at every moment,
\* also after a kill and a restart; a trusted str_replace excepted while it runs,
\* and changes that met an I/O failure or another hand on the file.
BackupRestores ==
  \A n \in Names : replaced[n] # NoFile => backups[n] = replaced[n] \/ HeldBack(n)

\* What BackupRestores rests on.  Which streams are open where:
StreamsInOrder ==
  /\ pc \in {"backup", "backed", "writing", "written"} => ChangesFile
  /\ bakOpen => pc \in {"backup", "backed", "writing", "written"}
  /\ bakOpen /\ pc # "backup" => HoldsBackup
  /\ pc = "backup" => bakOpen /\ ~HoldsBackup

\* undisturbed is what it says: until the file is opened, the text read is its text.
ReadIsFresh ==
  ( /\ ChangesFile
    /\ undisturbed
    /\ pc \in {"asked", "approved", "backup", "backed"}
    /\ action.tool = "str_replace" \/ pc \in {"backup", "backed"} )
    => seen = files[File]

\* A str_replace has read a file that exists.
ReadExists == ChangesFile /\ action.tool = "str_replace" => seen # NoFile

\* A backup that is closed holds the text that is about to be replaced.
BackedUp ==
  pc = "backed" /\ ~bakOpen /\ undisturbed /\ files[File] # NoFile
    => backups[Backup] = files[File]

\* A backup that is open will hold the text that is being replaced.
WillBeBackedUp ==
  bakOpen =>
    \/ replaced[Backup] = NoFile
    \/ /\ pc \in {"writing", "written"}
       /\ replaced[Backup] = seen

BackupInv ==
  /\ StreamsInOrder
  /\ ReadIsFresh
  /\ ReadExists
  /\ BackedUp
  /\ WillBeBackedUp
  /\ BackupRestores

\* What the two properties below rest on: an action that has been decided is one
\* the user agreed to, and one that is under way is not denied to the agent.
Agreed ==
  pc \in {"approved", "backup", "backed", "writing", "written"} =>
    \/ action.tool = "delegate"
    \/ consent = "yes"
    \/ consent = "trust" /\ trust
    \/ consent = "auto" /\ autoConfirm /\ action.tool = "write"

Permitted ==
  action # NoAction => action.tool = "delegate" \/ ~Blocked(action.tool)

IInv == TypeOK /\ BackupInv /\ Agreed /\ Permitted

\* The step is one of the program's own on the user's files.
ProgramStep == pc # pc' /\ pc' # "killed" /\ action # NoAction

Runs == action.tool = "exec" /\ pc = "approved"

\* No file changes and no command runs without an answer to the very action that
\* does it, the trust the user gave in this session, or, for a write, auto-confirm;
\* a "no" is final.
OnlyWithConsent ==
  [][ProgramStep /\ (files' # files \/ backups' # backups \/ Runs)
       => \/ consent = "yes"
          \/ consent = "trust" /\ trust
          \/ consent = "auto" /\ autoConfirm /\ action.tool = "write"]_vars

ReadOnly(a) ==
  /\ a \in DOMAIN Permissions
  /\ \A t \in {"write", "str_replace", "exec"} :
       t \in DOMAIN Permissions[a] /\ Permissions[a][t] = "deny"

\* An agent that denies the three tools is read-only: no reply to it changes a
\* file or runs a command, whatever trust or auto-confirm say.
ReadOnlyAgent ==
  [][ReadOnly(agent) /\ pc \notin {"idle", "killed"} /\ edits' = edits
       => files' = files /\ backups' = backups /\ ~(ProgramStep /\ Runs)]_vars

\* Once the user trusts the session, a reply is worked through without asking,
\* but for its delegations.
TrustNeverAsks ==
  (trust /\ pc = "acting")
    ~> (pc \in {"idle", "killed"} \/ (pc = "asked" /\ action.tool = "delegate"))

(***************************************************************************)
(* What the source says of itself and the code does not keep.              *)
(***************************************************************************)

\* "Creates a .bak backup before modifying the file.": once the program has
\* emptied a file, its text is on disk in the backup.
BackupOnDisk ==
  \A n \in Names : replaced[n] # NoFile => backups[n] = replaced[n]

\* "Confirm with user": what the user said no to is not done.
NoMeansNo == pc = "approved" => consent # "no"
=============================================================================

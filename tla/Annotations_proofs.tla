------------------------- MODULE Annotations_proofs -------------------------
(***************************************************************************)
(* What Annotations promises, for any files, agents and bounds: its types, *)
(* and that a backup holds what the last change under its name replaced.   *)
(***************************************************************************)
EXTENDS Annotations, SequenceTheorems, TLAPS

\* The fields of an action, by its tool.
LEMMA ActionFields ==
  ASSUME NEW a \in Actions
  PROVE  /\ a.tool \in {"write", "str_replace", "exec", "delegate"}
         /\ a.tool \in {"write", "str_replace"} => a.path \in Paths /\ a.new \in Fragments
         /\ a.tool = "str_replace" => a.old \in Fragments
         /\ Rank[a.tool] \in 1 .. 4
  BY DEF Actions, Rank

\* A sequence with one place changed, if it has that place at all.
LEMMA PatchType ==
  ASSUME NEW S, NEW s \in Seq(S), NEW i, NEW e \in S
  PROVE  [s EXCEPT ![i] = e] \in Seq(S)
<1>1. DOMAIN s = 1 .. Len(s) /\ s \in [1 .. Len(s) -> S]
  BY LenProperties
<1>2. CASE i \in 1 .. Len(s)
  BY <1>2, ExceptSeq
<1>3. CASE i \notin 1 .. Len(s)
  <2>1. [s EXCEPT ![i] = e] = s
    BY <1>1, <1>3
  <2> QED BY <2>1
<1> QED BY <1>2, <1>3

\* What an action on a file puts there is a text.
LEMMA NewTextType ==
  ASSUME TypeOK, ReadExists, ChangesFile
  PROVE  NewText \in Seq(Fragments)
<1>1. action \in Actions
  BY DEF TypeOK, ChangesFile
<1>2. CASE action.tool = "write"
  BY <1>1, <1>2, ActionFields DEF NewText
<1>3. CASE action.tool # "write"
  <2>1. action.tool = "str_replace" /\ action.new \in Fragments
    BY <1>1, <1>3, ActionFields DEF ChangesFile
  <2>2. seen \in Seq(Fragments)
    BY <2>1 DEF ReadExists, TypeOK, Contents
  <2>3. [seen EXCEPT ![FirstAt(seen, action.old)] = action.new] \in Seq(Fragments)
    BY <2>1, <2>2, PatchType
  <2> QED BY <1>3, <2>3 DEF NewText
<1> QED BY <1>2, <1>3

\* The file and the backup of an action on a file.
LEMMA FileProperties ==
  ASSUME TypeOK, ChangesFile
  PROVE  File \in Paths /\ Backup \in Names
  BY ActionFields, ConstantsAssumption DEF TypeOK, ChangesFile, File, Backup, Names

\* A text is a content, and NoFile is none.
LEMMA ContentProperties ==
  /\ Seq(Fragments) \subseteq Contents
  /\ <<>> \in Seq(Fragments)
  /\ NoFile \in Contents
  /\ NoFile \notin Seq(Fragments)
  BY ConstantsAssumption DEF Contents
-----------------------------------------------------------------------------
(* Types. *)

LEMMA TypeInit == Init => TypeOK
<1> SUFFICES ASSUME Init PROVE TypeOK
  OBVIOUS
<1>1. \A f \in Fragments : <<f>> \in Seq(Fragments)
  OBVIOUS
<1>2. files \in [Paths -> Contents]
  BY <1>1 DEF Init, Contents
<1>3. backups \in [Names -> Contents] /\ replaced \in [Names -> Contents]
  BY DEF Init, Contents
<1>4. left \in 0 .. MaxActions /\ taken \in 0 .. MaxActions
  BY ConstantsAssumption DEF Init
<1>5. agent \in Agents /\ pc \in PCs /\ seen \in Contents
  BY DEF Init, Agents, PCs, Contents
<1>6. /\ trust \in BOOLEAN /\ autoConfirm \in BOOLEAN /\ bakOpen \in BOOLEAN
      /\ undisturbed \in BOOLEAN
  BY DEF Init
<1>7. rank \in 1 .. 4 /\ edits \in Nat /\ kills \in Nat
  BY DEF Init
<1>8. /\ action \in Actions \cup {NoAction}
      /\ consent \in {"none", "yes", "no", "trust", "auto"}
      /\ action = NoAction <=> pc \in {"idle", "acting", "killed"}
  BY DEF Init
<1> QED BY <1>2, <1>3, <1>4, <1>5, <1>6, <1>7, <1>8 DEF TypeOK

\* One step keeps the types.
LEMMA TypeStep ==
  ASSUME TypeOK, StreamsInOrder, ReadExists, [Next]_vars
  PROVE  TypeOK'
<1> USE ConstantsAssumption, NoActionAssumption, ContentProperties
<1>0. CASE UNCHANGED vars
  BY <1>0 DEF TypeOK, vars
<1>1. ASSUME NEW n \in 0 .. MaxActions, Reply(n) PROVE TypeOK'
  BY <1>1 DEF TypeOK, Reply, disk, session, handler, counters, EndHandler, PCs
<1>2. ASSUME ReplyDone PROVE TypeOK'
  BY <1>2 DEF TypeOK, ReplyDone, disk, session, handler, counters, EndHandler, PCs
<1>3. ASSUME NEW a \in Agents, SwitchAgent(a) PROVE TypeOK'
  BY <1>3 DEF TypeOK, SwitchAgent, disk, session, handler, counters, EndHandler, PCs
<1>4. ASSUME NEW a \in Actions, a.tool = "write", Write(a) PROVE TypeOK'
  <2>1. Rank[a.tool] \in 1 .. 4 /\ files[a.path] \in Contents
    BY <1>4, ActionFields DEF TypeOK
  <2>2. rank' \in 1 .. 4 /\ left' \in 0 .. MaxActions
    BY <1>4, <2>1 DEF TypeOK, Write, Take
  <2>3. /\ action' \in Actions \cup {NoAction} /\ seen' \in Contents
        /\ consent' \in {"none", "yes", "no", "trust", "auto"}
        /\ undisturbed' \in BOOLEAN
        /\ pc' \in PCs
        /\ action' = NoAction <=> pc' \in {"idle", "acting", "killed"}
    BY <1>4, <2>1 DEF TypeOK, Write, Take, Skipped, Proceed, PCs
  <2> QED BY <1>4, <2>2, <2>3 DEF TypeOK, Write, Take, disk, session, counters
<1>5. ASSUME NEW a \in Actions, a.tool = "str_replace", StrReplace(a) PROVE TypeOK'
  <2>1. Rank[a.tool] \in 1 .. 4 /\ files[a.path] \in Contents
    BY <1>5, ActionFields DEF TypeOK
  <2>2. rank' \in 1 .. 4 /\ left' \in 0 .. MaxActions
    BY <1>5, <2>1 DEF TypeOK, StrReplace, Take
  <2>3. /\ action' \in Actions \cup {NoAction} /\ seen' \in Contents
        /\ consent' \in {"none", "yes", "no", "trust", "auto"}
        /\ undisturbed' \in BOOLEAN
        /\ pc' \in PCs
        /\ action' = NoAction <=> pc' \in {"idle", "acting", "killed"}
    BY <1>5, <2>1 DEF TypeOK, StrReplace, Take, Skipped, Proceed, PCs
  <2> QED BY <1>5, <2>2, <2>3 DEF TypeOK, StrReplace, Take, disk, session, counters
<1>6. ASSUME NEW a \in Actions, a.tool = "exec", Exec(a) PROVE TypeOK'
  BY <1>6, ActionFields DEF TypeOK, Exec, disk, session, handler, counters, EndHandler, PCs, Take, Skipped, Proceed
<1>7. ASSUME NEW a \in Actions, a.tool = "delegate", Delegate(a) PROVE TypeOK'
  BY <1>7, ActionFields DEF TypeOK, Delegate, disk, session, handler, counters, EndHandler, PCs, Take, Skipped, Proceed
<1>8. ASSUME Yes PROVE TypeOK'
  BY <1>8 DEF TypeOK, Yes, disk, session, handler, counters, EndHandler, PCs
<1>9. ASSUME Trust PROVE TypeOK'
  BY <1>9 DEF TypeOK, Trust, disk, session, handler, counters, EndHandler, PCs
<1>10. ASSUME No PROVE TypeOK'
  BY <1>10 DEF TypeOK, No, disk, session, handler, counters, EndHandler, PCs, Returns
<1>11. ASSUME NoBackup PROVE TypeOK'
  BY <1>11, FileProperties, NewTextType DEF TypeOK, NoBackup, disk, session, handler, counters, EndHandler, PCs, StreamsInOrder
<1>12. ASSUME BackupFails PROVE TypeOK'
  BY <1>12, FileProperties, NewTextType DEF TypeOK, BackupFails, disk, session, handler, counters, EndHandler, PCs, StreamsInOrder
<1>13. ASSUME OpenBackup PROVE TypeOK'
  BY <1>13, FileProperties, NewTextType DEF TypeOK, OpenBackup, disk, session, handler, counters, EndHandler, PCs, Existing, StreamsInOrder
<1>14. ASSUME CloseBackup PROVE TypeOK'
  BY <1>14, FileProperties, NewTextType DEF TypeOK, CloseBackup, disk, session, handler, counters, EndHandler, PCs, StreamsInOrder
<1>15. ASSUME OpenFile PROVE TypeOK'
  BY <1>15, FileProperties, NewTextType DEF TypeOK, OpenFile, disk, session, handler, counters, EndHandler, PCs, StreamsInOrder
<1>16. ASSUME OpenFails PROVE TypeOK'
  BY <1>16 DEF TypeOK, OpenFails, disk, session, handler, counters, EndHandler, PCs
<1>17. ASSUME CloseFile PROVE TypeOK'
  BY <1>17, FileProperties, NewTextType DEF TypeOK, CloseFile, disk, session, handler, counters, EndHandler, PCs, StreamsInOrder
<1>18. ASSUME HandlerReturns PROVE TypeOK'
  BY <1>18 DEF TypeOK, HandlerReturns, disk, session, handler, counters, EndHandler, PCs, Returns
<1>19. ASSUME RunCommand PROVE TypeOK'
  <2>1. \A f \in Fragments : <<f>> \in Contents
    <3>1. \A f \in Fragments : <<f>> \in Seq(Fragments)
      OBVIOUS
    <3> QED BY <3>1
  <2>2. files' \in [Paths -> Contents]
    BY <1>19, <2>1 DEF TypeOK, RunCommand
  <2>3. /\ Returns
        /\ UNCHANGED <<backups, replaced, session, rank, left, counters>>
    BY <1>19 DEF RunCommand
  <2> QED BY <2>2, <2>3 DEF TypeOK, Returns, EndHandler, session, counters, PCs
<1>20. ASSUME StartTask PROVE TypeOK'
  BY <1>20 DEF TypeOK, StartTask, disk, session, handler, counters, EndHandler, PCs, Returns
<1>21. ASSUME NEW p \in Paths, Edit(p) PROVE TypeOK'
  <2>1. \A f \in Fragments : <<f>> \in Contents
    <3>1. \A f \in Fragments : <<f>> \in Seq(Fragments)
      OBVIOUS
    <3> QED BY <3>1
  <2>2. files[p] # NoFile => \A f \in Fragments : Append(files[p], f) \in Contents
    BY DEF TypeOK, Contents
  <2>3. files' \in [Paths -> Contents]
    BY <1>21, <2>1, <2>2 DEF TypeOK, Edit
  <2>4. /\ edits' = edits + 1 /\ undisturbed' = FALSE
        /\ UNCHANGED <<backups, replaced, session, pc, rank, left, action, seen, bakOpen,
                       consent, kills, taken>>
    BY <1>21 DEF Edit
  <2>5. edits' \in Nat
    BY <2>4 DEF TypeOK
  <2> QED BY <2>3, <2>4, <2>5 DEF TypeOK, session
<1>22. ASSUME Kill PROVE TypeOK'
  <2>1. replaced' \in [Names -> Contents]
    <3>1. CASE bakOpen
      <4>1. Backup \in Names
        BY <3>1, FileProperties DEF StreamsInOrder
      <4> QED BY <1>22, <3>1, <4>1 DEF Kill, TypeOK
    <3>2. CASE ~bakOpen
      BY <1>22, <3>2 DEF Kill, TypeOK
    <3> QED BY <3>1, <3>2
  <2>2. /\ kills' = kills + 1 /\ pc' = "killed" /\ rank' = 1 /\ left' = 0
        /\ EndHandler
        /\ UNCHANGED <<files, backups, session, edits, taken>>
    BY <1>22 DEF Kill
  <2>3. kills' \in Nat /\ left' \in 0 .. MaxActions /\ rank' \in 1 .. 4
    BY <2>2 DEF TypeOK
  <2>4. /\ action' = NoAction /\ seen' \in Contents /\ consent' = "none" /\ pc' \in PCs
        /\ bakOpen' \in BOOLEAN /\ undisturbed' \in BOOLEAN
    BY <2>2 DEF EndHandler, PCs
  <2> QED BY <2>1, <2>2, <2>3, <2>4 DEF TypeOK, session
<1>23. ASSUME Restart PROVE TypeOK'
  BY <1>23 DEF TypeOK, Restart, Agents, disk, session, handler, counters, EndHandler, PCs
<1> QED
  BY <1>0, <1>1, <1>2, <1>3, <1>4, <1>5, <1>6, <1>7, <1>8, <1>9, <1>10, <1>11, <1>12, <1>13, <1>14, <1>15, <1>16, <1>17, <1>18, <1>19, <1>20, <1>21, <1>22, <1>23 DEF Next, Handle, Perform, Propose, Answer

-----------------------------------------------------------------------------
(* The backups. *)

LEMMA BackupInit == Init => BackupInv
  BY DEF Init, BackupInv, StreamsInOrder, ReadIsFresh, ReadExists, BackedUp,
         WillBeBackedUp, BackupRestores, ChangesFile, Names

\* One step keeps what is said of the streams and the backups.
LEMMA BackupStep ==
  ASSUME TypeOK, BackupInv, [Next]_vars
  PROVE  BackupInv'
<1> USE NoActionAssumption, ContentProperties
      DEF TypeOK, BackupInv, StreamsInOrder, ReadIsFresh, ReadExists, BackedUp,
          WillBeBackedUp, BackupRestores, ChangesFile, HoldsBackup, HeldBack, File,
          Backup, EndHandler
<1>0. CASE UNCHANGED vars
  BY <1>0 DEF vars
<1>1. ASSUME NEW n \in 0 .. MaxActions, Reply(n) PROVE BackupInv'
  BY <1>1 DEF Reply, disk, session, handler
<1>2. ASSUME ReplyDone PROVE BackupInv'
  BY <1>2 DEF ReplyDone, disk, session, handler, counters
<1>3. ASSUME NEW a \in Agents, SwitchAgent(a) PROVE BackupInv'
  BY <1>3 DEF SwitchAgent, disk, handler, counters
<1>4. ASSUME NEW a \in Actions, a.tool = "write", Write(a) PROVE BackupInv'
  BY <1>4, ActionFields DEF Write, Take, Skipped, Proceed, disk, session, counters
<1>5. ASSUME NEW a \in Actions, a.tool = "str_replace", StrReplace(a) PROVE BackupInv'
  BY <1>5, ActionFields DEF StrReplace, Take, Skipped, Proceed, CanReplace, disk, session, counters
<1>6. ASSUME NEW a \in Actions, a.tool = "exec", Exec(a) PROVE BackupInv'
  BY <1>6, ActionFields DEF Exec, Take, Skipped, Proceed, disk, session, counters
<1>7. ASSUME NEW a \in Actions, a.tool = "delegate", Delegate(a) PROVE BackupInv'
  BY <1>7, ActionFields DEF Delegate, Take, Proceed, disk, session, counters
<1>8. ASSUME Yes PROVE BackupInv'
  BY <1>8 DEF Yes, disk, session, counters
<1>9. ASSUME Trust PROVE BackupInv'
  BY <1>9 DEF Trust, disk, counters
<1>10. ASSUME No PROVE BackupInv'
  BY <1>10 DEF No, Returns, disk, session, counters
<1>11. ASSUME NoBackup PROVE BackupInv'
  BY <1>11 DEF NoBackup, disk, session, counters
<1>12. ASSUME BackupFails PROVE BackupInv'
  BY <1>12 DEF BackupFails, disk, session, counters
<1>13. ASSUME OpenBackup PROVE BackupInv'
  BY <1>13, FileProperties DEF OpenBackup, Existing, session, counters
<1>14. ASSUME CloseBackup PROVE BackupInv'
  BY <1>14, FileProperties DEF CloseBackup, session, counters
<1>15. ASSUME OpenFile PROVE BackupInv'
  BY <1>15, FileProperties DEF OpenFile, session, handler, counters
<1>16. ASSUME OpenFails PROVE BackupInv'
  BY <1>16 DEF OpenFails, disk, session, handler, counters
<1>17. ASSUME CloseFile PROVE BackupInv'
  BY <1>17, FileProperties DEF CloseFile, session, handler, counters
<1>18. ASSUME HandlerReturns PROVE BackupInv'
  BY <1>18 DEF HandlerReturns, Returns, disk, session, counters
<1>19. ASSUME RunCommand PROVE BackupInv'
  BY <1>19 DEF RunCommand, Returns, session, counters
<1>20. ASSUME StartTask PROVE BackupInv'
  BY <1>20 DEF StartTask, Returns, disk, session, counters
<1>21. ASSUME NEW p \in Paths, Edit(p) PROVE BackupInv'
  BY <1>21 DEF Edit, session
<1>22. ASSUME Kill PROVE BackupInv'
  BY <1>22, FileProperties DEF Kill, session
<1>23. ASSUME Restart PROVE BackupInv'
  BY <1>23 DEF Restart, disk, handler, counters
<1> QED
  BY <1>0, <1>1, <1>2, <1>3, <1>4, <1>5, <1>6, <1>7, <1>8, <1>9, <1>10, <1>11, <1>12,
     <1>13, <1>14, <1>15, <1>16, <1>17, <1>18, <1>19, <1>20, <1>21, <1>22, <1>23
  DEF Next, Handle, Perform, Propose, Answer

-----------------------------------------------------------------------------
(* Consent and permissions. *)

LEMMA LicenceInit == Init => Agreed /\ Permitted
  BY DEF Init, Agreed, Permitted

\* One step keeps what is said of the user's agreement and the agent's permissions.
LEMMA LicenceStep ==
  ASSUME TypeOK, BackupInv, Agreed, Permitted, [Next]_vars
  PROVE  Agreed' /\ Permitted'
<1> USE NoActionAssumption DEF TypeOK, Agreed, Permitted, Blocked, EndHandler
<1>0. CASE UNCHANGED vars
  BY <1>0 DEF vars
<1>1. ASSUME NEW n \in 0 .. MaxActions, Reply(n) PROVE Agreed' /\ Permitted'
  BY <1>1 DEF Reply, disk, session, handler
<1>2. ASSUME ReplyDone PROVE Agreed' /\ Permitted'
  BY <1>2 DEF ReplyDone, disk, session, handler, counters
<1>3. ASSUME NEW a \in Agents, SwitchAgent(a) PROVE Agreed' /\ Permitted'
  BY <1>3 DEF SwitchAgent, disk, handler, counters
<1>4. ASSUME NEW a \in Actions, a.tool = "write", Write(a) PROVE Agreed' /\ Permitted'
  BY <1>4, ActionFields DEF Write, Take, Skipped, Proceed, disk, session, counters
<1>5. ASSUME NEW a \in Actions, a.tool = "str_replace", StrReplace(a) PROVE Agreed' /\ Permitted'
  BY <1>5, ActionFields DEF StrReplace, Take, Skipped, Proceed, CanReplace, disk, session, counters
<1>6. ASSUME NEW a \in Actions, a.tool = "exec", Exec(a) PROVE Agreed' /\ Permitted'
  BY <1>6, ActionFields DEF Exec, Take, Skipped, Proceed, disk, session, counters
<1>7. ASSUME NEW a \in Actions, a.tool = "delegate", Delegate(a) PROVE Agreed' /\ Permitted'
  BY <1>7, ActionFields DEF Delegate, Take, Proceed, disk, session, counters
<1>8. ASSUME Yes PROVE Agreed' /\ Permitted'
  BY <1>8 DEF Yes, disk, session, counters
<1>9. ASSUME Trust PROVE Agreed' /\ Permitted'
  BY <1>9 DEF Trust, disk, counters
<1>10. ASSUME No PROVE Agreed' /\ Permitted'
  BY <1>10 DEF No, Returns, disk, session, counters
<1>11. ASSUME NoBackup PROVE Agreed' /\ Permitted'
  BY <1>11 DEF NoBackup, disk, session, counters
<1>12. ASSUME BackupFails PROVE Agreed' /\ Permitted'
  BY <1>12 DEF BackupFails, disk, session, counters
<1>13. ASSUME OpenBackup PROVE Agreed' /\ Permitted'
  BY <1>13 DEF OpenBackup, Existing, session, counters
<1>14. ASSUME CloseBackup PROVE Agreed' /\ Permitted'
  BY <1>14 DEF CloseBackup, session, counters, BackupInv, StreamsInOrder
<1>15. ASSUME OpenFile PROVE Agreed' /\ Permitted'
  BY <1>15 DEF OpenFile, session, handler, counters
<1>16. ASSUME OpenFails PROVE Agreed' /\ Permitted'
  BY <1>16 DEF OpenFails, disk, session, handler, counters
<1>17. ASSUME CloseFile PROVE Agreed' /\ Permitted'
  BY <1>17 DEF CloseFile, session, handler, counters
<1>18. ASSUME HandlerReturns PROVE Agreed' /\ Permitted'
  BY <1>18 DEF HandlerReturns, Returns, disk, session, counters
<1>19. ASSUME RunCommand PROVE Agreed' /\ Permitted'
  BY <1>19 DEF RunCommand, Returns, session, counters
<1>20. ASSUME StartTask PROVE Agreed' /\ Permitted'
  BY <1>20 DEF StartTask, Returns, disk, session, counters
<1>21. ASSUME NEW p \in Paths, Edit(p) PROVE Agreed' /\ Permitted'
  BY <1>21 DEF Edit, session
<1>22. ASSUME Kill PROVE Agreed' /\ Permitted'
  BY <1>22 DEF Kill, session
<1>23. ASSUME Restart PROVE Agreed' /\ Permitted'
  BY <1>23 DEF Restart, disk, handler, counters
<1> QED
  BY <1>0, <1>1, <1>2, <1>3, <1>4, <1>5, <1>6, <1>7, <1>8, <1>9, <1>10, <1>11, <1>12,
     <1>13, <1>14, <1>15, <1>16, <1>17, <1>18, <1>19, <1>20, <1>21, <1>22, <1>23
  DEF Next, Handle, Perform, Propose, Answer

\* A step of the program on the disk or of a command is one of an action that has
\* been decided, and no delegation's.
LEMMA DiskStep ==
  ASSUME TypeOK, BackupInv, [Next]_vars, ProgramStep,
         files' # files \/ backups' # backups \/ Runs
  PROVE  /\ pc \in {"approved", "backup", "backed", "writing", "written"}
         /\ action.tool # "delegate"
<1> USE DEF TypeOK, BackupInv, StreamsInOrder, ProgramStep, Runs, ChangesFile
<1> DEFINE Goal == /\ pc \in {"approved", "backup", "backed", "writing", "written"}
                   /\ action.tool # "delegate"
<1>0. CASE UNCHANGED vars
  BY <1>0 DEF vars
<1>1. ASSUME NEW n \in 0 .. MaxActions, Reply(n) PROVE Goal
  BY <1>1 DEF Reply, disk
<1>2. ASSUME ReplyDone PROVE Goal
  BY <1>2 DEF ReplyDone, disk
<1>3. ASSUME NEW a \in Agents, SwitchAgent(a) PROVE Goal
  BY <1>3 DEF SwitchAgent, disk
<1>4. ASSUME NEW a \in Actions, a.tool = "write", Write(a) PROVE Goal
  BY <1>4 DEF Write, Take, disk
<1>5. ASSUME NEW a \in Actions, a.tool = "str_replace", StrReplace(a) PROVE Goal
  BY <1>5 DEF StrReplace, Take, disk
<1>6. ASSUME NEW a \in Actions, a.tool = "exec", Exec(a) PROVE Goal
  BY <1>6 DEF Exec, Take, disk
<1>7. ASSUME NEW a \in Actions, a.tool = "delegate", Delegate(a) PROVE Goal
  BY <1>7 DEF Delegate, Take, disk
<1>8. ASSUME Yes PROVE Goal
  BY <1>8 DEF Yes, disk
<1>9. ASSUME Trust PROVE Goal
  BY <1>9 DEF Trust, disk
<1>10. ASSUME No PROVE Goal
  BY <1>10 DEF No, disk
<1>11. ASSUME NoBackup PROVE Goal
  BY <1>11 DEF NoBackup, disk, ChangesFile
<1>12. ASSUME BackupFails PROVE Goal
  BY <1>12 DEF BackupFails, disk, ChangesFile
<1>13. ASSUME OpenBackup PROVE Goal
  BY <1>13 DEF OpenBackup, ChangesFile
<1>14. ASSUME CloseBackup PROVE Goal
  BY <1>14 DEF CloseBackup
<1>15. ASSUME OpenFile PROVE Goal
  BY <1>15 DEF OpenFile
<1>16. ASSUME OpenFails PROVE Goal
  BY <1>16 DEF OpenFails, disk
<1>17. ASSUME CloseFile PROVE Goal
  BY <1>17 DEF CloseFile
<1>18. ASSUME HandlerReturns PROVE Goal
  BY <1>18 DEF HandlerReturns, disk
<1>19. ASSUME RunCommand PROVE Goal
  BY <1>19 DEF RunCommand
<1>20. ASSUME StartTask PROVE Goal
  BY <1>20 DEF StartTask, disk
<1>21. ASSUME NEW p \in Paths, Edit(p) PROVE Goal
  BY <1>21 DEF Edit
<1>22. ASSUME Kill PROVE Goal
  BY <1>22 DEF Kill
<1>23. ASSUME Restart PROVE Goal
  BY <1>23 DEF Restart, disk
<1> QED
  BY <1>0, <1>1, <1>2, <1>3, <1>4, <1>5, <1>6, <1>7, <1>8, <1>9, <1>10, <1>11, <1>12,
     <1>13, <1>14, <1>15, <1>16, <1>17, <1>18, <1>19, <1>20, <1>21, <1>22, <1>23
  DEF Next, Handle, Perform, Propose, Answer

\* Under a read-only agent no step between two replies' ends touches the disk.
LEMMA ReadOnlyStep ==
  ASSUME TypeOK, BackupInv, Permitted, [Next]_vars,
         ReadOnly(agent), pc \notin {"idle", "killed"}, edits' = edits
  PROVE  files' = files /\ backups' = backups /\ ~(ProgramStep /\ Runs)
<1> DEFINE Goal == files' = files /\ backups' = backups /\ ~(ProgramStep /\ Runs)
<1>a. action # NoAction => action.tool = "delegate"
  <2>1. action # NoAction =>
          action.tool \in {"write", "str_replace", "exec", "delegate"}
    BY ActionFields DEF TypeOK
  <2> QED BY <2>1 DEF Permitted, Blocked, ReadOnly
<1> USE <1>a DEF TypeOK, BackupInv, StreamsInOrder, ChangesFile, ProgramStep, Runs
<1>0. CASE UNCHANGED vars
  BY <1>0 DEF vars
<1>1. ASSUME NEW n \in 0 .. MaxActions, Reply(n) PROVE Goal
  BY <1>1 DEF Reply, disk
<1>2. ASSUME ReplyDone PROVE Goal
  BY <1>2 DEF ReplyDone, disk
<1>3. ASSUME NEW a \in Agents, SwitchAgent(a) PROVE Goal
  BY <1>3 DEF SwitchAgent, disk
<1>4. ASSUME NEW a \in Actions, a.tool = "write", Write(a) PROVE Goal
  BY <1>4 DEF Write, Take, disk
<1>5. ASSUME NEW a \in Actions, a.tool = "str_replace", StrReplace(a) PROVE Goal
  BY <1>5 DEF StrReplace, Take, disk
<1>6. ASSUME NEW a \in Actions, a.tool = "exec", Exec(a) PROVE Goal
  BY <1>6 DEF Exec, Take, disk
<1>7. ASSUME NEW a \in Actions, a.tool = "delegate", Delegate(a) PROVE Goal
  BY <1>7 DEF Delegate, Take, disk
<1>8. ASSUME Yes PROVE Goal
  BY <1>8 DEF Yes, disk
<1>9. ASSUME Trust PROVE Goal
  BY <1>9 DEF Trust, disk
<1>10. ASSUME No PROVE Goal
  BY <1>10 DEF No, disk
<1>11. ASSUME NoBackup PROVE Goal
  BY <1>11 DEF NoBackup, disk, ChangesFile
<1>12. ASSUME BackupFails PROVE Goal
  BY <1>12 DEF BackupFails, disk, ChangesFile
<1>13. ASSUME OpenBackup PROVE Goal
  BY <1>13 DEF OpenBackup, ChangesFile
<1>14. ASSUME CloseBackup PROVE Goal
  BY <1>14 DEF CloseBackup
<1>15. ASSUME OpenFile PROVE Goal
  BY <1>15 DEF OpenFile
<1>16. ASSUME OpenFails PROVE Goal
  BY <1>16 DEF OpenFails, disk
<1>17. ASSUME CloseFile PROVE Goal
  BY <1>17 DEF CloseFile
<1>18. ASSUME HandlerReturns PROVE Goal
  BY <1>18 DEF HandlerReturns, disk
<1>19. ASSUME RunCommand PROVE Goal
  BY <1>19 DEF RunCommand
<1>20. ASSUME StartTask PROVE Goal
  BY <1>20 DEF StartTask, disk
<1>21. ASSUME NEW p \in Paths, Edit(p) PROVE Goal
  BY <1>21 DEF Edit
<1>22. ASSUME Kill PROVE Goal
  BY <1>22 DEF Kill
<1>23. ASSUME Restart PROVE Goal
  BY <1>23 DEF Restart, disk
<1> QED
  BY <1>0, <1>1, <1>2, <1>3, <1>4, <1>5, <1>6, <1>7, <1>8, <1>9, <1>10, <1>11, <1>12,
     <1>13, <1>14, <1>15, <1>16, <1>17, <1>18, <1>19, <1>20, <1>21, <1>22, <1>23
  DEF Next, Handle, Perform, Propose, Answer

-----------------------------------------------------------------------------
(* The theorems. *)

LEMMA Invariance == Spec => []IInv
<1>1. Init => IInv
  BY TypeInit, BackupInit, LicenceInit DEF IInv
<1>2. IInv /\ [Next]_vars => IInv'
  BY TypeStep, BackupStep, LicenceStep DEF IInv, BackupInv
<1> QED BY <1>1, <1>2, PTL DEF Spec

\* The state of the annotation handlers is well formed in every reachable state.
THEOREM TypeCorrect == Spec => []TypeOK
<1>1. IInv => TypeOK
  BY DEF IInv
<1> QED BY <1>1, Invariance, PTL

\* At every moment, kills and restarts included, the backup under a name holds the
\* text the last change under that name replaced.
THEOREM BackupRestoresAlways == Spec => []BackupRestores
<1>1. IInv => BackupRestores
  BY DEF IInv, BackupInv
<1> QED BY <1>1, Invariance, PTL

\* Every change to a file and every command rests on the user's agreement.
THEOREM OnlyWithConsentAlways == Spec => OnlyWithConsent
<1>1. IInv /\ [Next]_vars =>
        (ProgramStep /\ (files' # files \/ backups' # backups \/ Runs)
           => \/ consent = "yes"
              \/ consent = "trust" /\ trust
              \/ consent = "auto" /\ autoConfirm /\ action.tool = "write")
  BY DiskStep DEF IInv, Agreed
<1> QED BY <1>1, Invariance, PTL DEF Spec, OnlyWithConsent

\* An agent that denies the three tools changes no file and runs no command.
THEOREM ReadOnlyAgentAlways == Spec => ReadOnlyAgent
<1>1. IInv /\ [Next]_vars =>
        (ReadOnly(agent) /\ pc \notin {"idle", "killed"} /\ edits' = edits
           => files' = files /\ backups' = backups /\ ~(ProgramStep /\ Runs))
  BY ReadOnlyStep DEF IInv
<1> QED BY <1>1, Invariance, PTL DEF Spec, ReadOnlyAgent
=============================================================================

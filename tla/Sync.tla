-------------------------------- MODULE Sync --------------------------------
(***************************************************************************)
(* Sync mode: runs of the program that ask one question, carry out the     *)
(* annotations of the replies without asking anybody, and keep their       *)
(* conversation in a session file (main, process_sync_annotations,         *)
(* path_allowed, cmd_exec, load_session, save_session).                    *)
(*                                                                         *)
(* Runs may share the session file and the files they edit; a user moves   *)
(* links while they work, and any of them may be killed.  A path leads to  *)
(* a place, by whatever links, where there may be no file yet; it ends in  *)
(* a link, or the directory it names is the one of that place.  A file is  *)
(* a sequence of lines, a reply the annotations its parsers return, one    *)
(* sequence a kind; how a message is escaped in the session is left out.   *)
(***************************************************************************)
EXTENDS Integers, Sequences, FiniteSets

CONSTANTS
  Runs,      \* processes
  Paths,     \* paths the model writes in its annotations
  Places,    \* where a path may lead
  Inside,    \* the places in the sandbox
  Links,     \* the paths that end in a link
  Homed,     \* those of them that name a directory of the sandbox
  Absent,    \* no file, no place
  Texts,     \* lines
  Replies,   \* what the model answers: [read, exec, write, str_replace, add_line, delete_line]
  Caps,      \* values of --capabilities
  Start,     \* where the paths lead and what the files hold: [at, disk]
  Rounds,    \* follow-ups of one run (10 in the code)
  MaxStarts, \* bound: runs started
  MaxMoves   \* bound: links moved

Kinds == {"read", "exec", "write", "str_replace", "add_line", "delete_line"}
Edits == {"write", "str_replace", "add_line", "delete_line"}

\* An annotation: a path with the lines that replace, are replaced or are inserted, or a
\* command, with is_read_only's verdict and the places it writes to.
Tags == [kind : Kinds, path : Paths, old : Texts, new : Texts, line : Nat,
         safe : BOOLEAN, writes : SUBSET Places]

ASSUME SyncAssumption ==
  /\ Inside \subseteq Places /\ Absent \notin Places
  /\ Homed \subseteq Links /\ Links \subseteq Paths
  /\ Absent \notin Seq(Texts)
  /\ Replies \subseteq [Kinds -> Seq(Tags)]
  /\ \A a \in Replies : \A k \in Kinds : \A i \in DOMAIN a[k] : a[k][i].kind = k
  /\ Caps \subseteq SUBSET {"read", "write", "exec"}
  /\ Start.at \in [Paths -> Places] /\ Start.disk \in [Places -> Seq(Texts) \cup {Absent}]
  /\ Rounds \in Nat /\ MaxStarts \in Nat /\ MaxMoves \in Nat

VARIABLES
  at,       \* where each path leads
  disk,     \* what each place holds
  session,  \* the messages in the session file; none if there is no file
  pc,       \* where each run is
  caps,     \* its capabilities
  keep,     \* it was given --session
  msgs,     \* its conversation
  rounds,   \* follow-ups it may still send
  todo,     \* annotations of the reply it has yet to carry out
  followup, \* what it will tell the model
  place,    \* the place of the file it has opened to write
  held,     \* the lines it will write
  child,    \* its command: running in time, late, timed out; or exited
  starts, moves,
  owed,     \* ghost: edits of the reply neither made nor denied by the system
  loose,    \* ghost: the path checked ended in a link to nothing, or was moved since
  kept,     \* ghost: the session as it was last saved
  stale     \* ghost: the session was being saved when a run loaded it, or was since

run   == <<pc, caps, keep, msgs, rounds>>
reply == <<todo, followup, place, held, child, owed, loose>>
world == <<at, disk, session, starts, moves, kept, stale>>
vars  == <<run, reply, world>>

Messages == [role : {"system", "user", "assistant"}, of : Nat]
Message(role, n) == [role |-> role, of |-> n]

\* A message of the run whose messages are at the end.
Add(r, role) == Append(msgs[r], Message(role, msgs[r][Len(msgs[r])].of))

Init ==
  /\ at = Start.at /\ disk = Start.disk /\ session = <<>>
  /\ pc = [r \in Runs |-> "off"]
  /\ caps = [r \in Runs |-> {}]
  /\ keep = [r \in Runs |-> FALSE]
  /\ msgs = [r \in Runs |-> <<>>]
  /\ rounds = [r \in Runs |-> 0]
  /\ todo = [r \in Runs |-> <<>>]
  /\ followup = [r \in Runs |-> <<>>]
  /\ place = [r \in Runs |-> Absent]
  /\ held = [r \in Runs |-> <<>>]
  /\ child = [r \in Runs |-> "none"]
  /\ owed = [r \in Runs |-> 0]
  /\ loose = [r \in Runs |-> FALSE]
  /\ starts = 0 /\ moves = 0
  /\ kept = <<>> /\ stale = [r \in Runs |-> FALSE]

Goto(r, to) == pc' = [pc EXCEPT ![r] = to]

\* The process is gone, and what it had in memory.
Gone(r) ==
  /\ Goto(r, "off")
  /\ caps' = [caps EXCEPT ![r] = {}]
  /\ keep' = [keep EXCEPT ![r] = FALSE]
  /\ msgs' = [msgs EXCEPT ![r] = <<>>]
  /\ rounds' = [rounds EXCEPT ![r] = 0]
  /\ todo' = [todo EXCEPT ![r] = <<>>]
  /\ followup' = [followup EXCEPT ![r] = <<>>]
  /\ place' = [place EXCEPT ![r] = Absent]
  /\ held' = [held EXCEPT ![r] = <<>>]
  /\ child' = [child EXCEPT ![r] = "none"]
  /\ owed' = [owed EXCEPT ![r] = 0]
  /\ loose' = [loose EXCEPT ![r] = FALSE]

-----------------------------------------------------------------------------
(* The conversation. *)

\* Mutant of StartRun: the system prompt is sent whether the session is new or not.
StartWithPrompt(r) ==
  /\ pc[r] = "off" /\ starts < MaxStarts
  /\ starts' = starts + 1
  /\ \E c \in Caps, k \in BOOLEAN :
       /\ caps' = [caps EXCEPT ![r] = c]
       /\ keep' = [keep EXCEPT ![r] = k]
       /\ msgs' = [msgs EXCEPT ![r] = (IF k THEN session ELSE <<>>)
                     \o <<Message("system", starts), Message("user", starts)>>]
  /\ rounds' = [rounds EXCEPT ![r] = Rounds]
  /\ stale' = [stale EXCEPT ![r] = \E t \in Runs : pc[t] = "saving"]
  /\ Goto(r, "ask")
  /\ UNCHANGED <<reply, at, disk, session, moves, kept>>

\* Mutant of StartRun: the session is not loaded.
StartFresh(r) ==
  /\ pc[r] = "off" /\ starts < MaxStarts
  /\ starts' = starts + 1
  /\ \E c \in Caps, k \in BOOLEAN :
       /\ caps' = [caps EXCEPT ![r] = c]
       /\ keep' = [keep EXCEPT ![r] = k]
       /\ msgs' = [msgs EXCEPT ![r] = <<Message("system", starts), Message("user", starts)>>]
  /\ rounds' = [rounds EXCEPT ![r] = Rounds]
  /\ stale' = [stale EXCEPT ![r] = \E t \in Runs : pc[t] = "saving"]
  /\ Goto(r, "ask")
  /\ UNCHANGED <<reply, at, disk, session, moves, kept>>

\* The session is loaded; the system prompt begins a new one only.
StartRun(r) ==
  /\ pc[r] = "off" /\ starts < MaxStarts
  /\ starts' = starts + 1
  /\ \E c \in Caps, k \in BOOLEAN :
       LET loaded == IF k THEN session ELSE <<>>
       IN /\ caps' = [caps EXCEPT ![r] = c]
          /\ keep' = [keep EXCEPT ![r] = k]
          /\ msgs' = [msgs EXCEPT ![r] =
                        (IF loaded = <<>> THEN <<Message("system", starts)>> ELSE loaded)
                          \o <<Message("user", starts)>>]
  /\ rounds' = [rounds EXCEPT ![r] = Rounds]
  /\ stale' = [stale EXCEPT ![r] = \E t \in Runs : pc[t] = "saving"]
  /\ Goto(r, "ask")
  /\ UNCHANGED <<reply, at, disk, session, moves, kept>>

\* The annotations of a reply that the capabilities let through, in the order of the
\* parsers; commands are judged one by one.
Let(cap, tags, c) == IF cap \in c THEN tags ELSE <<>>
Ordered(a, c) ==
  Let("read", a["read"], c) \o a["exec"]
    \o Let("write", a["write"] \o a["str_replace"] \o a["add_line"] \o a["delete_line"], c)

\* No answer: the run ends, without a save if it was the first question.
NoAnswer(r) ==
  /\ pc[r] = "ask"
  /\ IF rounds[r] = Rounds THEN Gone(r)
     ELSE Goto(r, "save") /\ UNCHANGED <<caps, keep, msgs, rounds, reply>>
  /\ UNCHANGED world

EditsIn(tags) == Cardinality({i \in DOMAIN tags : tags[i].kind \in Edits})

\* Mutant of Answer: the rounds are counted and not limited.
AnswerOnceMore(r) ==
  /\ pc[r] = "ask"
  /\ msgs' = [msgs EXCEPT ![r] = Add(r, "assistant")]
  /\ IF caps[r] # {}
     THEN /\ \E a \in Replies :
               /\ todo' = [todo EXCEPT ![r] = Ordered(a, caps[r])]
               /\ owed' = [owed EXCEPT ![r] = EditsIn(Ordered(a, caps[r]))]
          /\ rounds' = [rounds EXCEPT ![r] = @ - 1]
          /\ Goto(r, "work")
     ELSE /\ Goto(r, "save")
          /\ UNCHANGED <<todo, owed, rounds>>
  /\ followup' = [followup EXCEPT ![r] = <<>>]
  /\ UNCHANGED <<caps, keep, place, held, child, loose, world>>

\* The reply; its annotations are carried out if rounds are left.
Answer(r) ==
  /\ pc[r] = "ask"
  /\ msgs' = [msgs EXCEPT ![r] = Add(r, "assistant")]
  /\ IF caps[r] # {} /\ rounds[r] > 0
     THEN /\ \E a \in Replies :
               /\ todo' = [todo EXCEPT ![r] = Ordered(a, caps[r])]
               /\ owed' = [owed EXCEPT ![r] = EditsIn(Ordered(a, caps[r]))]
          /\ rounds' = [rounds EXCEPT ![r] = @ - 1]
          /\ Goto(r, "work")
     ELSE /\ Goto(r, "save")
          /\ UNCHANGED <<todo, owed, rounds>>
  /\ followup' = [followup EXCEPT ![r] = <<>>]
  /\ UNCHANGED <<caps, keep, place, held, child, loose, world>>

\* Everything is carried out: the follow-up goes to the model, if there is one.
RoundEnds(r) ==
  /\ pc[r] = "work" /\ todo[r] = <<>>
  /\ IF followup[r] = <<>>
     THEN Goto(r, "save") /\ UNCHANGED msgs
     ELSE Goto(r, "ask") /\ msgs' = [msgs EXCEPT ![r] = Add(r, "user")]
  /\ UNCHANGED <<caps, keep, rounds, reply, world>>

-----------------------------------------------------------------------------
(* Annotations. *)

Now(r) == Head(todo[r])
At(r, here) == pc[r] = here /\ todo[r] # <<>>
Tell(r, what) == followup' = [followup EXCEPT ![r] = Append(@, what)]

\* The annotation is dealt with.
Done(r) ==
  /\ todo' = [todo EXCEPT ![r] = Tail(@)]
  /\ Goto(r, "work")
  /\ place' = [place EXCEPT ![r] = Absent]
  /\ held' = [held EXCEPT ![r] = <<>>]
  /\ loose' = [loose EXCEPT ![r] = FALSE]
Made(r) == owed' = [owed EXCEPT ![r] = @ - 1]

\* realpath of the directory a path names.
DirInside(p) == IF p \in Links THEN p \in Homed ELSE at[p] \in Inside

\* path_allowed: the place is in the sandbox; with no file there, the directory is.
Allowed(p) == IF disk[at[p]] = Absent THEN DirInside(p) ELSE at[p] \in Inside

\* The path of an annotation may be used.
Pass(r) ==
  /\ Goto(r, "open")
  /\ loose' = [loose EXCEPT ![r] = Now(r).path \in Links /\ disk[at[Now(r).path]] = Absent]
  /\ UNCHANGED <<todo, followup, place, held>>

\* Mutant of Check: lines are added and deleted wherever the path leads.
CheckFilesOnly(r) ==
  /\ At(r, "work") /\ Now(r).kind # "exec"
  /\ IF Allowed(Now(r).path) \/ Now(r).kind \in {"add_line", "delete_line"}
     THEN Pass(r)
     ELSE /\ Done(r)
          /\ IF Now(r).kind = "read" THEN UNCHANGED followup ELSE Tell(r, "error")
  /\ UNCHANGED <<caps, keep, msgs, rounds, child, owed, world>>

\* The path is checked before anything else; a blocked read is not told to the model.
Check(r) ==
  /\ At(r, "work") /\ Now(r).kind # "exec"
  /\ IF Allowed(Now(r).path)
     THEN Pass(r)
     ELSE /\ Done(r)
          /\ IF Now(r).kind = "read" THEN UNCHANGED followup ELSE Tell(r, "error")
  /\ UNCHANGED <<caps, keep, msgs, rounds, child, owed, world>>

\* <read>: a missing file is not told, either.
Read(r) ==
  /\ At(r, "open") /\ Now(r).kind = "read"
  /\ Done(r)
  /\ IF disk[at[Now(r).path]] = Absent THEN UNCHANGED followup ELSE Tell(r, "file")
  /\ UNCHANGED <<caps, keep, msgs, rounds, child, owed, world>>

First(S) == {i \in S : \A j \in S : i <= j}
Least(a, b) == IF a <= b THEN a ELSE b

\* What an edit makes of the lines of a file: one text, or none if it finds no place.
\* str_replace and delete_line take the first match; the line number is clamped.
Edited(t, f) ==
  CASE t.kind = "write" -> {<<t.new>>}
    [] t.kind = "str_replace" ->
         {[f EXCEPT ![i] = t.new] : i \in First({i \in DOMAIN f : f[i] = t.old})}
    [] t.kind = "add_line" ->
         LET i == IF t.line = 0 THEN 0 ELSE Least(t.line - 1, Len(f))
         IN {SubSeq(f, 1, i) \o <<t.new>> \o SubSeq(f, i + 1, Len(f))}
    [] t.kind = "delete_line" ->
         {SubSeq(f, 1, i - 1) \o SubSeq(f, i + 1, Len(f)) :
            i \in First({i \in DOMAIN f : f[i] = t.old})}

\* Mutant of ReadEdit: a text that is not found is passed over.
ReadEditSilent(r) ==
  /\ At(r, "open") /\ Now(r).kind \in Edits
  /\ LET f == disk[at[Now(r).path]]
     IN IF Now(r).kind # "write" /\ (f = Absent \/ Edited(Now(r), f) = {})
        THEN Done(r) /\ UNCHANGED followup
        ELSE /\ \E g \in Edited(Now(r), f) : held' = [held EXCEPT ![r] = g]
             /\ Goto(r, "put")
             /\ UNCHANGED <<todo, followup, place, loose>>
  /\ UNCHANGED <<caps, keep, msgs, rounds, child, owed, world>>

\* The lines of the file are read and edited; a <write> reads nothing.
ReadEdit(r) ==
  /\ At(r, "open") /\ Now(r).kind \in Edits
  /\ LET f == disk[at[Now(r).path]]
     IN IF Now(r).kind # "write" /\ (f = Absent \/ Edited(Now(r), f) = {})
        THEN Done(r) /\ Tell(r, "error")
        ELSE /\ \E g \in Edited(Now(r), f) : held' = [held EXCEPT ![r] = g]
             /\ Goto(r, "put")
             /\ UNCHANGED <<todo, followup, place, loose>>
  /\ UNCHANGED <<caps, keep, msgs, rounds, child, owed, world>>

\* The file is opened by its name once more, and is empty.
Cut(r) ==
  /\ At(r, "put")
  /\ place' = [place EXCEPT ![r] = at[Now(r).path]]
  /\ disk' = [disk EXCEPT ![at[Now(r).path]] = <<>>]
  /\ Goto(r, "cut")
  /\ UNCHANGED <<caps, keep, msgs, rounds, todo, followup, held, child, owed, loose>>
  /\ UNCHANGED <<at, session, starts, moves, kept, stale>>

\* Mutant of CutFails: the edit is tried again.
CutRetries(r) ==
  /\ At(r, "put")
  /\ Goto(r, "open")
  /\ held' = [held EXCEPT ![r] = <<>>]
  /\ UNCHANGED <<caps, keep, msgs, rounds, todo, followup, place, child, owed, loose, world>>

\* It cannot be opened for writing: only <write> tells the model.
CutFails(r) ==
  /\ At(r, "put")
  /\ Done(r)
  /\ IF Now(r).kind = "write" THEN Tell(r, "error") /\ UNCHANGED owed
     ELSE Made(r) /\ UNCHANGED followup
  /\ UNCHANGED <<caps, keep, msgs, rounds, child, world>>

\* Writing from the start over what another run has written meanwhile, lines of a length.
Over(f, g) == IF f = Absent THEN g ELSE g \o SubSeq(f, Len(g) + 1, Len(f))

Put(r) ==
  /\ At(r, "cut")
  /\ disk' = [disk EXCEPT ![place[r]] = Over(@, held[r])]
  /\ Done(r) /\ Made(r)
  /\ UNCHANGED <<caps, keep, msgs, rounds, followup, child>>
  /\ UNCHANGED <<at, session, starts, moves, kept, stale>>

-----------------------------------------------------------------------------
(* Commands. *)

\* A command that is not allowed is passed over.
Exec(r) ==
  /\ At(r, "work") /\ Now(r).kind = "exec"
  /\ IF "exec" \in caps[r] \/ ("read" \in caps[r] /\ Now(r).safe)
     THEN /\ Goto(r, "command")
          /\ child' = [child EXCEPT ![r] = "up"]
          /\ UNCHANGED <<todo, place, held, loose>>
     ELSE Done(r) /\ UNCHANGED child
  /\ UNCHANGED <<caps, keep, msgs, rounds, followup, owed, world>>

ChildBecomes(r, s) ==
  /\ child' = [child EXCEPT ![r] = s]
  /\ UNCHANGED <<run, todo, followup, place, held, owed, loose, world>>

\* The time limit passes.
Late(r) == child[r] = "up" /\ ChildBecomes(r, "late")

\* The command prints a line: cmd_exec looks at the clock, and now reads no more.
Prints(r) == child[r] = "late" /\ ChildBecomes(r, "over")

Running(r) == child[r] \in {"up", "late", "over"}

\* The command writes a file.
Writes(r) ==
  /\ Running(r)
  /\ \E p \in Now(r).writes : disk' = [disk EXCEPT ![p] = <<Now(r).new>>]
  /\ UNCHANGED <<run, reply, at, session, starts, moves, kept, stale>>

\* The command exits.
Exits(r) == Running(r) /\ ChildBecomes(r, "exited")

\* pclose returns: late or not, cmd_exec has waited for the command.
Reap(r) ==
  /\ child[r] = "exited"
  /\ Done(r) /\ Tell(r, "output")
  /\ child' = [child EXCEPT ![r] = "none"]
  /\ UNCHANGED <<caps, keep, msgs, rounds, owed, world>>

-----------------------------------------------------------------------------
(* The session file. *)

SkipSave(r) ==
  /\ pc[r] = "save" /\ ~keep[r]
  /\ Gone(r)
  /\ UNCHANGED world

\* save_session opens the file, which empties it.
CutSession(r) ==
  /\ pc[r] = "save" /\ keep[r]
  /\ session' = <<>>
  /\ Goto(r, "saving")
  /\ UNCHANGED <<caps, keep, msgs, rounds, reply, at, disk, starts, moves, kept, stale>>

\* Of what another run wrote meanwhile, messages beyond the end stay; not the first one,
\* unless nothing is written.
Written(m) ==
  IF m = <<>> THEN {session}
  ELSE {m \o SubSeq(session, i, Len(session)) :
          i \in Least(Len(session), 1) + 1 .. Len(session) + 1}

SessionIs(r, m) ==
  /\ session' \in Written(m)
  /\ kept' = session'
  /\ stale' = [t \in Runs |-> t # r /\ pc[t] # "off"]

WriteSession(r) ==
  /\ pc[r] = "saving"
  /\ SessionIs(r, msgs[r])
  /\ Gone(r)
  /\ UNCHANGED <<at, disk, starts, moves>>

\* A kill: of a file being written, the first lines or messages are there; a command
\* goes on without the run, and is left out.
Kill(r) ==
  /\ pc[r] # "off"
  /\ Gone(r)
  /\ IF pc[r] = "cut"
     THEN \E n \in 0 .. Len(held[r]) :
            disk' = [disk EXCEPT ![place[r]] = Over(@, SubSeq(held[r], 1, n))]
     ELSE UNCHANGED disk
  /\ IF pc[r] = "saving"
     THEN \E n \in 0 .. Len(msgs[r]) : SessionIs(r, SubSeq(msgs[r], 1, n))
     ELSE UNCHANGED <<session, kept, stale>>
  /\ UNCHANGED <<at, starts, moves>>

\* The user moves a link.
Move(p) ==
  /\ moves < MaxMoves
  /\ moves' = moves + 1
  /\ \E q \in Places \ {at[p]} : at' = [at EXCEPT ![p] = q]
  /\ loose' = [r \in Runs |->
                 loose[r] \/ (pc[r] \in {"open", "put"} /\ todo[r] # <<>> /\ Now(r).path = p)]
  /\ UNCHANGED <<run, todo, followup, place, held, child, owed, disk, session, starts, kept, stale>>

-----------------------------------------------------------------------------
(* Specification. *)

\* What the program does, the request answered or given up included.
Step(r) ==
  \/ NoAnswer(r) \/ Answer(r) \/ RoundEnds(r)
  \/ Check(r) \/ Read(r) \/ ReadEdit(r) \/ Cut(r) \/ CutFails(r) \/ Put(r)
  \/ Exec(r) \/ Reap(r)
  \/ SkipSave(r) \/ CutSession(r) \/ WriteSession(r)

\* What others do.
Command(r) == Prints(r) \/ Late(r) \/ Writes(r) \/ Exits(r)

Next ==
  \/ \E r \in Runs : StartRun(r) \/ Step(r) \/ Command(r) \/ Kill(r)
  \/ \E p \in Paths : Move(p)

Spec == Init /\ [][Next]_vars

\* The program goes on; no command need do anything.
FairSpec == Spec /\ \A r \in Runs : WF_vars(Step(r))

\* Every command exits.
ExitSpec == FairSpec /\ \A r \in Runs : WF_vars(Exits(r))

-----------------------------------------------------------------------------
(* Properties. *)

\* Types, and the shape of a run: annotations are at hand while one is carried out.
TypeOK ==
  /\ at \in [Paths -> Places] /\ disk \in [Places -> Seq(Texts) \cup {Absent}]
  /\ session \in Seq(Messages) /\ kept \in Seq(Messages)
  /\ pc \in [Runs -> {"off", "ask", "work", "open", "put", "cut", "command", "save", "saving"}]
  /\ caps \in [Runs -> SUBSET {"read", "write", "exec"}]
  /\ keep \in [Runs -> BOOLEAN] /\ msgs \in [Runs -> Seq(Messages)]
  /\ rounds \in [Runs -> 0 .. Rounds]
  /\ todo \in [Runs -> Seq(Tags)]
  /\ followup \in [Runs -> Seq({"file", "output", "error"})]
  /\ place \in [Runs -> Places \cup {Absent}] /\ held \in [Runs -> Seq(Texts)]
  /\ child \in [Runs -> {"none", "up", "late", "over", "exited"}]
  /\ starts \in 0 .. MaxStarts /\ moves \in 0 .. MaxMoves
  /\ owed \in [Runs -> Int] /\ loose \in [Runs -> BOOLEAN] /\ stale \in [Runs -> BOOLEAN]
  /\ \A r \in Runs :
       /\ pc[r] \in {"open", "put", "cut", "command"} => todo[r] # <<>>
       /\ pc[r] = "command" <=> child[r] # "none"
       /\ pc[r] \in {"open", "put", "cut"} => Now(r).kind # "exec"
       /\ pc[r] = "cut" => place[r] \in Places

\* A conversation the provider can make sense of: the system prompt comes first, once.
Prompted(m) == \A i \in DOMAIN m : m[i].role = "system" <=> i = 1

\* Whatever runs share the session file, and whenever one is killed while it saves, every
\* request has one system prompt, at its head, and ends with what the user or the
\* annotations have to say; so does a session give the next run nothing else.
OnePrompt ==
  /\ Prompted(session)
  /\ \A r \in Runs : pc[r] = "ask" =>
       Prompted(msgs[r]) /\ msgs[r][Len(msgs[r])].role = "user"

\* A run that saves a session which nobody saved while the run loaded it, or since,
\* loses nothing of it.
HistoryKept ==
  [][\A r \in Runs : (WriteSession(r) /\ ~stale[r]) =>
       \E n \in 0 .. Len(session') : kept = SubSeq(session', 1, n)]_vars

\* Outside the sandbox only commands write, and edits whose path ended in a link to
\* nothing when it was checked, or was moved after that.
EditsStayInside ==
  [][\A p \in Places \ Inside : disk'[p] # disk[p] =>
       \E r \in Runs : Writes(r) \/ (pc[r] \in {"put", "cut"} /\ pc'[r] # pc[r] /\ loose[r])]_vars

\* At any time between two annotations, an edit of the reply is yet to come, made or
\* denied by the system, or the model will be told that it failed.
EditsToldOrMade ==
  \A r \in Runs : pc[r] = "work" =>
    owed[r] = EditsIn(todo[r]) + Cardinality({i \in DOMAIN followup[r] : followup[r][i] = "error"})

\* A run ends, whatever the model asks for, if the commands do.
EveryRunEnds == \A r \in Runs : pc[r] # "off" ~> pc[r] = "off"

-----------------------------------------------------------------------------
(* What the program says of itself, and does not keep. *)

\* sync_annotations.cpp:71: paths outside the sandbox are rejected, whoever writes.
SandboxHolds ==
  [][\A p \in Places \ Inside : disk'[p] # disk[p] => \E r \in Runs : Writes(r)]_vars

\* exec.cpp:30 and adr-015:82: a command is killed at the time limit.
TimeLimit == \A r \in Runs : child[r] = "late" ~> ~Running(r)
=============================================================================

-------------------------------- MODULE Capture --------------------------------
(***************************************************************************)
(* Transcripts of other tools become sessions (src/umx/*_capture.py,       *)
(* claude_code_hooks.py, cli.py): a capture parses a transcript that its   *)
(* tool may be writing at that moment, names the session after the day it  *)
(* began and the first characters of its id, and replaces the session      *)
(* file.  The six tools differ in what an unfinished transcript reads as,  *)
(* in what dates it, and in who commits.  Captures of everything parse all *)
(* transcripts before they write the first session.                        *)
(***************************************************************************)
EXTENDS Integers, FiniteSets

CONSTANTS
  Proc,
  Transcript, \* numbers: the order of a capture of everything
  Short,      \* Short[t]: the characters of the id that the session's name has
  Secret,     \* Secret[t]: the record from which on the session is refused, 0 for none
  MaxRecords, \* bound: records of a transcript; all after the first are of the next day
  MaxActs     \* bound: programs and deaths in one behaviour

Tool == {"claude-code", "codex", "copilot", "gemini", "amp", "opencode"}

VARIABLES
  by,       \* the tool whose transcripts these are
  records,  \* records[t]: complete records
  torn,     \* torn[t]: the tool is writing
  file,     \* file[name]: transcript and number of its records, or Nothing
  clean,    \* HEAD has the files
  pc, left, parsed, \* per program: transcripts to parse, and what it has parsed
  acts,
  got,      \* ghost: got[t]: the most records of t that a capture has saved
  breach    \* ghost: "early", a transcript was read that had no date yet; "overlapped", a
            \* session was written since another capture read its transcript; "shared", two
            \* transcripts have one name

tool == <<by, records, torn>>
programs == <<pc, left, parsed>>
vars == <<tool, file, clean, programs, acts, got, breach>>

Undated == 0
Day(i) == IF i <= 1 THEN 1 ELSE 2
NoName == 0         \* the id of a gemini transcript that cannot be read: "session-"
Name == {Undated, 1, 2} \X ({Short[t] : t \in Transcript} \union {NoName})
Nothing == [of |-> 0, n |-> 0]
Content == {Nothing} \union [of : Transcript, n : 0 .. MaxRecords]
Unread == [n |-> -1, name |-> <<Undated, NoName>>]

-----------------------------------------------------------------------------
(* The parsers: how many records they find, and what they name the session. *)

\* Lines; an unfinished one is skipped.  The first record with a time dates the session.
ReadClaude(t) ==
  [n |-> records[t], name |-> <<IF records[t] = 0 THEN Undated ELSE Day(1), Short[t]>>]

\* The directory of a rollout dates it before its first line does.
ReadCodex(t) == [n |-> records[t], name |-> <<Day(1), Short[t]>>]

\* The first event, session.start, dates the session.
ReadCopilot(t) ==
  [n |-> records[t], name |-> <<IF records[t] = 0 THEN Undated ELSE Day(1), Short[t]>>]

\* One document, which has its id and its date inside.
ReadGemini(t) ==
  IF torn[t] THEN [n |-> 0, name |-> <<Undated, NoName>>]
  ELSE [n |-> records[t], name |-> <<Day(1), Short[t]>>]

\* One document; the file's name is the id.
ReadAmp(t) ==
  IF torn[t] THEN [n |-> 0, name |-> <<Undated, Short[t]>>]
  ELSE [n |-> records[t], name |-> <<Day(1), Short[t]>>]

\* Rows of a database.
ReadOpenCode(t) == [n |-> records[t], name |-> <<Day(1), Short[t]>>]

ReadBy(t) ==
  CASE by = "claude-code" -> ReadClaude(t) [] by = "codex" -> ReadCodex(t)
    [] by = "copilot" -> ReadCopilot(t)    [] by = "gemini" -> ReadGemini(t)
    [] by = "amp" -> ReadAmp(t)            [] by = "opencode" -> ReadOpenCode(t)

TypeOK ==
  /\ by \in Tool
  /\ records \in [Transcript -> 0 .. MaxRecords] /\ torn \in [Transcript -> BOOLEAN]
  /\ file \in [Name -> Content] /\ clean \in BOOLEAN
  /\ pc \in [Proc -> {"idle", "parse", "write", "commit"}]
  /\ left \in [Proc -> SUBSET Transcript]
  /\ \A p \in Proc, t \in Transcript : parsed[p][t].n \in -1 .. MaxRecords /\ parsed[p][t].name \in Name
  /\ acts \in 0 .. MaxActs /\ got \in [Transcript -> 0 .. MaxRecords]
  /\ breach \subseteq {"early", "overlapped", "shared"}

Init ==
  /\ by \in Tool
  /\ records = [t \in Transcript |-> 0] /\ torn = [t \in Transcript |-> FALSE]
  /\ file = [name \in Name |-> Nothing] /\ clean = TRUE
  /\ pc = [p \in Proc |-> "idle"] /\ left = [p \in Proc |-> {}]
  /\ parsed = [p \in Proc |-> [t \in Transcript |-> Unread]]
  /\ acts = 0 /\ got = [t \in Transcript |-> 0] /\ breach = {}

Act == acts < MaxActs /\ acts' = acts + 1
Goto(p, step) == pc' = [pc EXCEPT ![p] = step]
Forget(p) == parsed' = [parsed EXCEPT ![p] = [t \in Transcript |-> Unread]]

\* The tool writes a record, and finishes it.
ToolWrites(t) ==
  /\ IF torn[t] THEN records' = [records EXCEPT ![t] = @ + 1] ELSE records[t] < MaxRecords /\ UNCHANGED records
  /\ torn' = [torn EXCEPT ![t] = ~@]
  /\ UNCHANGED <<by, file, clean, programs, acts, got, breach>>

-----------------------------------------------------------------------------
(* The programs.                                                            *)

Begin(p, targets) ==
  /\ pc[p] = "idle" /\ Act /\ left' = [left EXCEPT ![p] = targets] /\ Goto(p, "parse")
  /\ UNCHANGED <<tool, file, clean, parsed, got, breach>>

\* umx capture: the latest transcript or a named one, or all of the project.
CaptureClaude(p) ==
  by = "claude-code" /\ \E targets \in {{t} : t \in Transcript} \union {Transcript} : Begin(p, targets)
CaptureGemini(p) ==
  by = "gemini" /\ \E targets \in {{t} : t \in Transcript} \union {Transcript} : Begin(p, targets)
CaptureAmp(p) ==
  by = "amp" /\ \E targets \in {{t} : t \in Transcript} \union {Transcript} : Begin(p, targets)

\* All sessions of the database are read, whichever is captured.
CaptureOpenCode(p) ==
  by = "opencode" /\ \E targets \in {{t} : t \in Transcript} \union {Transcript} : Begin(p, targets)

CaptureCodex(p) == by = "codex" /\ \E t \in Transcript : Begin(p, {t})
CaptureCopilot(p) == by = "copilot" /\ \E t \in Transcript : Begin(p, {t})

\* The transcripts of a capture are parsed by several threads, one after the other or at once.
Parse(p, t) ==
  LET found == ReadBy(t) IN
  /\ pc[p] = "parse" /\ t \in left[p]
  /\ left' = [left EXCEPT ![p] = @ \ {t}]
  /\ parsed' = [parsed EXCEPT ![p][t] = found]
  /\ breach' = IF found.name[1] = Undated THEN breach \union {"early"} ELSE breach
  /\ Goto(p, IF left'[p] = {} THEN "write" ELSE "parse")
  /\ UNCHANGED <<tool, file, clean, acts, got>>

First(p) ==
  CHOOSE t \in Transcript : parsed[p][t] # Unread /\ \A u \in 1 .. t - 1 : parsed[p][u] = Unread
Written(p) == \A t \in Transcript : parsed'[p][t] = Unread
Saves(t, n) == got' = [got EXCEPT ![t] = IF n > @ THEN n ELSE @]
Commits == by \notin {"codex", "copilot"}

\* Mutant: a session that is there is taken for captured.
Write_Once(p) ==
  /\ pc[p] = "write"
  /\ LET t == First(p)
         x == parsed[p][t]
     IN /\ file' = IF file[x.name] = Nothing THEN [file EXCEPT ![x.name] = [of |-> t, n |-> x.n]] ELSE file
        /\ parsed' = [parsed EXCEPT ![p][t] = Unread]
        /\ clean' = FALSE /\ Saves(t, x.n)
        /\ breach' = breach
        /\ Goto(p, IF ~Written(p) THEN "write" ELSE IF Commits THEN "commit" ELSE "idle")
  /\ UNCHANGED <<tool, left, acts>>

\* write_session; a refused session ends the capture, and what it has written stays.
Write(p) ==
  /\ pc[p] = "write"
  /\ LET t == First(p)
         x == parsed[p][t]
     IN IF Secret[t] \in 1 .. x.n
        THEN Goto(p, "idle") /\ Forget(p) /\ UNCHANGED <<file, clean, got, breach>>
        ELSE /\ file' = [file EXCEPT ![x.name] = [of |-> t, n |-> x.n]]
             /\ parsed' = [parsed EXCEPT ![p][t] = Unread]
             /\ clean' = FALSE /\ Saves(t, x.n)
             /\ breach' = breach
                  \union (IF file[x.name].of \notin {0, t} THEN {"shared"} ELSE {})
                  \union (IF \E q \in Proc \ {p} : parsed[q][t] # Unread THEN {"overlapped"} ELSE {})
             /\ Goto(p, IF ~Written(p) THEN "write" ELSE IF Commits THEN "commit" ELSE "idle")
  /\ UNCHANGED <<tool, left, acts>>

\* git add -A and commit; what codex and copilot left waits for the next sweep.
Commit(p) ==
  /\ pc[p] = "commit" /\ clean' \in {clean, TRUE} /\ Goto(p, "idle")
  /\ UNCHANGED <<tool, file, left, parsed, acts, got, breach>>

\* safety_sweep at the next session start: what the dead and the refused left is committed.
Sweep == ~clean /\ clean' = TRUE /\ UNCHANGED <<tool, file, programs, acts, got, breach>>

Die(p) ==
  /\ pc[p] # "idle" /\ Act /\ Goto(p, "idle") /\ Forget(p) /\ left' = [left EXCEPT ![p] = {}]
  /\ UNCHANGED <<tool, file, clean, got, breach>>

Next ==
  \/ \E t \in Transcript : ToolWrites(t) \/ \E p \in Proc : Parse(p, t)
  \/ \E p \in Proc :
       \/ CaptureClaude(p) \/ CaptureCodex(p) \/ CaptureCopilot(p)
       \/ CaptureGemini(p) \/ CaptureAmp(p) \/ CaptureOpenCode(p)
       \/ Write(p) \/ Commit(p) \/ Die(p)
  \/ Sweep

Spec == Init /\ [][Next]_vars

-----------------------------------------------------------------------------
(* Properties.                                                              *)

\* A session never has fewer records than a capture of its transcript has reported, unless
\* two captures overlapped, two transcripts share a name, or a transcript was read before it had
\* a date (sessions.py:593, claude_code_capture.py:28).
CapturesGrow ==
  breach = {} => \A t \in Transcript :
    got[t] > 0 => \E name \in Name : file[name].of = t /\ file[name].n >= got[t]

\* A transcript is one session, even if it goes on after midnight, unless it was read before
\* it had a date (claude_code_capture.py:29).
OneSessionEach ==
  "early" \notin breach =>
    \A t \in Transcript : Cardinality({name \in Name : file[name].of = t}) <= 1
=============================================================================

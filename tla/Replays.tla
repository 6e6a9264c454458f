-------------------------------- MODULE Replays --------------------------------
(***************************************************************************)
(* Sessions that are built again from the SQL that was run in them: a link *)
(* that carries all of it (apps/web, HistoryPanel.tsx, lib/share.ts and    *)
(* SharedWorkspace.tsx) and a saved project (SaveProjectButton.tsx,        *)
(* projects.controller.ts and useProjectReplay of BuildWorkspace.tsx).     *)
(* An author runs scripts in a workspace that began empty and shares or    *)
(* saves them; a reader opens the link or the project.  A schema is the    *)
(* set of its tables.                                                      *)
(***************************************************************************)
EXTENDS Naturals, Sequences, FiniteSets, SequencesExt

CONSTANTS
    Scripts,    \* what the author and the reader may run
    MaxRuns,    \* bound: runs of the author
    MaxScripts, \* MAX_SCRIPTS: what a reader accepts of a link
    MaxScript,  \* MAX_SCRIPT_LENGTH, in statements
    MaxDecoded, \* MAX_DECODED_BYTES, in statements
    MaxLink,    \* MAX_LINK_LENGTH: of the statements it is packed from
    MaxMishaps  \* bound: lost answers, reloads and refusals

\* A statement is [op, table]; "bad" fails wherever it is run.
Statement == [op : {"create", "drop", "begin", "commit", "rollback", "bad"}, table : Nat]

\* What the constants must be (assumed by the instance).
ReplaysAssumption ==
    /\ \A s \in Scripts : s \in Seq(Statement) /\ s # <<>>
    /\ {MaxRuns, MaxScripts, MaxScript, MaxDecoded, MaxLink, MaxMishaps} \subseteq Nat

VARIABLES
    kind,       \* whether it is a link or a project
    authored,   \* the database of the author
    runs,       \* the runs of the author's workspace: [script, ok]
    sent,       \* what was shared or saved: [made, scripts, tables]
    reader,     \* the reader's workspace: [status, pc, done]
    built,      \* the reader's database
    mishaps,
    apart       \* why the two may differ (history)

vars == <<kind, authored, runs, sent, reader, built, mishaps, apart>>

-----------------------------------------------------------------------------
(***************************************************************************)
(* A database and runScript()                                              *)
(***************************************************************************)
Empty == [tables |-> {}, tx |-> "none", kept |-> {}]

Succeeds(db, st) ==
    \/ st.op \in {"commit", "rollback"}
    \/ /\ db.tx # "failed" /\ st.op # "bad"
       /\ st.op = "create" => st.table \notin db.tables
       /\ st.op = "drop" => st.table \in db.tables

\* Outside a transaction `kept` is not looked at.
After(db, st) ==
    IF ~Succeeds(db, st) THEN [db EXCEPT !.tx = IF @ = "none" THEN "none" ELSE "failed"] ELSE
    CASE st.op = "create"   -> [db EXCEPT !.tables = @ \cup {st.table}]
      [] st.op = "drop"     -> [db EXCEPT !.tables = @ \ {st.table}]
      [] st.op = "begin" /\ db.tx = "none" -> [db EXCEPT !.tx = "open", !.kept = db.tables]
      [] st.op = "commit" /\ db.tx = "open" -> [db EXCEPT !.tx = "none", !.kept = {}]
      [] <<st.op, db.tx>> \in {<<"rollback", "open">>, <<"rollback", "failed">>, <<"commit", "failed">>} ->
            [tables |-> db.kept, tx |-> "none", kept |-> {}]
      [] OTHER              -> db

\* Statement by statement, up to the first that fails.
Outcome(db, script) ==
    FoldLeft(LAMBDA r, st : IF r.ok THEN [db |-> After(r.db, st), ok |-> Succeeds(r.db, st)] ELSE r,
             [db |-> db, ok |-> TRUE], script)

-----------------------------------------------------------------------------
(***************************************************************************)
(* The author                                                              *)
(***************************************************************************)
Mishap(why) ==
    /\ mishaps < MaxMishaps
    /\ mishaps' = mishaps + 1
    /\ apart' = apart \cup {why}

AuthorRuns(s) ==
    /\ ~sent.made /\ Len(runs) < MaxRuns
    /\ authored' = Outcome(authored, s).db
    /\ runs' = Append(runs, [script |-> s, ok |-> Outcome(authored, s).ok])
    /\ UNCHANGED <<kind, sent, reader, built, mishaps, apart>>

\* The answer to a run is lost: what it did stays, and no run is recorded.
AnswerLost(s) ==
    /\ ~sent.made
    /\ Mishap("unanswered")
    /\ authored' = Outcome(authored, s).db
    /\ UNCHANGED <<kind, runs, sent, reader, built>>

\* The page is loaded again: the session stays, its runs were in the page.
Reload ==
    /\ ~sent.made /\ kind = "project"
    /\ Mishap("reloaded")
    /\ runs' = <<>>
    /\ UNCHANGED <<kind, authored, sent, reader, built>>

ScriptsOf(some) == [i \in DOMAIN some |-> some[i].script]

\* A mistake the runs must catch: a link with what succeeded only.
SharedSuccesses == ScriptsOf(SelectSeq(runs, LAMBDA r : r.ok))

\* share(): every run, as a run that failed may have done something first.
Shared == ScriptsOf(runs)

Succeeded == {i \in DOMAIN runs : runs[i].ok}
Nth(some, j) == CHOOSE i \in some : Cardinality(some \cap (1..i)) = j

\* save(): the runs in which every statement succeeded, in their order.
Saved == [j \in 1..Cardinality(Succeeded) |-> runs[Nth(Succeeded, j)].script]

Statements(scripts) == FoldLeft(LAMBDA n, script : n + Len(script), 0, scripts)

\* shareLink(): null where the session does not fit in a link.
Fits(scripts) == Statements(scripts) <= MaxLink

Send ==
    LET scripts == IF kind = "link" THEN Shared ELSE Saved IN
    /\ ~sent.made /\ scripts # <<>>
    /\ kind = "link" => Fits(scripts)
    /\ sent' = [made |-> TRUE, scripts |-> scripts, tables |-> authored.tables]
    /\ apart' = IF kind = "project" /\ \E i \in DOMAIN runs : ~runs[i].ok
                THEN apart \cup {"left out"} ELSE apart
    /\ UNCHANGED <<kind, authored, runs, reader, built, mishaps>>

-----------------------------------------------------------------------------
(***************************************************************************)
(* The reader                                                              *)
(***************************************************************************)

\* The limits of a reader are not those of an author, who may have made a
\* link that nobody can open.

\* decompress() reads no more than it is willing to hold.
Decompresses(scripts) == Statements(scripts) <= MaxDecoded

\* isSession().
IsSession(scripts) ==
    /\ Len(scripts) <= MaxScripts
    /\ \A i \in DOMAIN scripts : Len(scripts[i]) <= MaxScript

\* decodeShare(): null for all that is wrong with a link.
Decodes(scripts) == Decompresses(scripts) /\ IsSession(scripts)

\* A link is opened in a database of its own, if it can be read at all; a
\* project in the session of the browser, which may have tables already.
Open ==
    /\ sent.made /\ reader.pc = "closed"
    /\ IF kind = "link"
       THEN /\ reader' = [reader EXCEPT !.pc = IF sent.scripts # <<>> /\ Decodes(sent.scripts)
                                              THEN "waiting" ELSE "invalid"]
            /\ UNCHANGED <<built, apart>>
       ELSE /\ reader' = [reader EXCEPT !.pc = "reading"]
            /\ \E t \in {{}, {1}} :
                  /\ built' = [built EXCEPT !.tables = t]
                  /\ apart' = IF t = {} THEN apart ELSE apart \cup {"not empty"}
    /\ UNCHANGED <<kind, authored, runs, sent, mishaps>>

Opened ==
    /\ reader.pc \in {"reading", "waiting"} /\ reader.status = "opening"
    /\ \/ reader' = [reader EXCEPT !.status = "ready"] /\ UNCHANGED <<mishaps, apart>>
       \/ Mishap("failed") /\ reader' = [reader EXCEPT !.status = "failed"]
    /\ UNCHANGED <<kind, authored, runs, sent, built>>

\* readProject() is answered.
ProjectRead ==
    /\ reader.pc = "reading"
    /\ reader' = [reader EXCEPT !.pc = IF reader.status = "ready" THEN "replaying" ELSE "waiting"]
    /\ UNCHANGED <<kind, authored, runs, sent, built, mishaps, apart>>

\* whenSettled() and waitUntilReady() wait for any change of a store that is
\* not opening: of one that failed, or runs something else, too.
Settled ==
    /\ reader.pc = "waiting" /\ reader.status # "opening"
    /\ reader' = [reader EXCEPT !.pc = IF kind = "link" /\ reader.status = "failed" THEN "invalid"
                                                                                  ELSE "replaying"]
    /\ UNCHANGED <<kind, authored, runs, sent, built, mishaps, apart>>

\* The reader runs something before the replay begins, or while its answer
\* is on its way; a replay leaves no moment for it between two scripts.
ReaderRuns(s) ==
    /\ reader.pc \in {"reading", "waiting"} /\ reader.status = "ready"
    /\ built' = Outcome(built, s).db
    /\ reader' = [reader EXCEPT !.status = "running"]
    /\ apart' = apart \cup {"own run"}
    /\ UNCHANGED <<kind, authored, runs, sent, mishaps>>

ReaderAnswered ==
    /\ reader.status = "running" /\ reader.pc # "replaying"
    /\ reader' = [reader EXCEPT !.status = "ready"]
    /\ UNCHANGED <<kind, authored, runs, sent, built, mishaps, apart>>

\* A script of the replay: run() returns at once where the store is not ready.
Replay ==
    /\ reader.pc = "replaying" /\ reader.done < Len(sent.scripts)
    /\ reader' = [reader EXCEPT !.done = @ + 1]
    /\ IF reader.status = "ready"
       THEN \/ /\ built' = Outcome(built, sent.scripts[reader.done + 1]).db
               /\ UNCHANGED <<mishaps, apart>>
            \/ \* the rate limit, or an answer that does not come
               /\ kind = "project" /\ Mishap("refused")
               /\ UNCHANGED built
       ELSE /\ apart' = apart \cup {"not ready"}
            /\ UNCHANGED <<built, mishaps>>
    /\ UNCHANGED <<kind, authored, runs, sent>>

Finish ==
    /\ reader.pc = "replaying" /\ reader.done = Len(sent.scripts)
    /\ reader' = [reader EXCEPT !.pc = "rebuilt"]
    /\ UNCHANGED <<kind, authored, runs, sent, built, mishaps, apart>>

Init ==
    /\ kind \in {"link", "project"}
    /\ authored = Empty /\ runs = <<>>
    /\ sent = [made |-> FALSE, scripts |-> <<>>, tables |-> {}]
    /\ reader = [status |-> "opening", pc |-> "closed", done |-> 0]
    /\ built = Empty /\ mishaps = 0 /\ apart = {}

Next ==
    \/ \E s \in Scripts : AuthorRuns(s) \/ AnswerLost(s) \/ ReaderRuns(s)
    \/ Reload \/ Send
    \/ Open \/ Opened \/ ProjectRead \/ Settled \/ ReaderAnswered \/ Replay \/ Finish

Spec == Init /\ [][Next]_vars

-----------------------------------------------------------------------------
\* What was sent builds the schema its author had, whatever failed and
\* whatever was left open on the way, unless one of the known reasons is in
\* the way: an answer that was lost, a page that was loaded again, a refusal
\* or another run at the reader, a session that was not empty, and of a
\* project the runs that failed, which it leaves out although the statements
\* before the failure took effect.
ReplayRebuilds ==
    reader.pc = "rebuilt" /\ apart = {} => built.tables = sent.tables

=============================================================================

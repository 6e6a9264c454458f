------------------------------- MODULE PartsProofs -------------------------------
(***************************************************************************)
(* Theorems about parts that stand alone, and their proofs.                *)
(*                                                                         *)
(* Retries: three attempts are enough for a heartbeat, as each one that    *)
(* fails has seen a status the record has left and does not come back to.  *)
(* Replays: one goes through the same databases as the author did, one     *)
(* script after the other, if nothing was lost on either side.             *)
(* Connections: who waits for one awaits something that is going to happen.*)
(* Challenges: to count the rows of two results is to pair them.           *)
(***************************************************************************)
EXTENDS MCParts, Integers, FiniteSetTheorems, SequenceTheorems, TLAPS

-----------------------------------------------------------------------------
(***************************************************************************)
(* The retry loops of the manager                                          *)
(***************************************************************************)

\* The record is past READY, and past ACTIVE.
Claimed == status \notin {"absent", "PENDING", "PROVISIONING", "READY"}
Left == Claimed /\ status # "ACTIVE"

\* What the failed attempts of a heartbeat tell of the record.
AttemptsTell ==
    \A c \in Heartbeats :
        /\ call[c].pc = "read" =>
              /\ call[c].left <= CasRetries
              /\ call[c].left < CasRetries => Claimed
              /\ call[c].left < CasRetries - 1 => Left
        /\ call[c].pc = "cas" =>
              /\ call[c].left \in {CasRetries - 1, CasRetries - 2}
              /\ call[c].seen \in {"READY", "ACTIVE"}
              /\ call[c].left < CasRetries - 1 => call[c].seen = "ACTIVE"
              /\ status = call[c].seen \/ Claimed
              /\ status = call[c].seen \/ call[c].seen = "READY" \/ Left
        /\ call[c].pc \notin {"last", "exhausted"}

\* Who reads has an attempt left.
ReadsHaveAttempts == \A c \in Calls : call[c].pc = "read" => call[c].left > 0

RetriesInv == TypeOK /\ ReadsHaveAttempts /\ AttemptsTell /\ HeartbeatRefusalIsReal

USE DEF Calls

-----------------------------------------------------------------------------
(***************************************************************************)
(* Where a record goes                                                     *)
(***************************************************************************)

\* Statuses are of their type, and a record that is past READY, or past
\* ACTIVE, stays so.
LEMMA MovesOn ==
    ASSUME status \in Status, NEW to \in Transitions[status]
    PROVE  /\ to \in Status
           /\ status = "READY" => to \notin {"absent", "PENDING", "PROVISIONING", "READY"}
           /\ Claimed => to \notin {"absent", "PENDING", "PROVISIONING", "READY"}
           /\ status = "ACTIVE" => to # "ACTIVE"
           /\ Left => to # "ACTIVE"
<1>1. CASE status \in {"absent", "PENDING", "PROVISIONING"}
    BY <1>1 DEF Transitions, Status, Claimed, Left
<1>2. CASE status \in {"READY", "ACTIVE"}
    BY <1>2 DEF Transitions, Status, Claimed, Left
<1>3. CASE status \in {"EXPIRING", "DESTROYING", "DESTROYED", "FAILED"}
    BY <1>3 DEF Transitions, Status, Claimed, Left
<1> QED BY <1>1, <1>2, <1>3 DEF Status

\* Whoever moves the record, what it has been told of it stays true.
Onward ==
    /\ status' \in Status
    /\ Claimed => Claimed'
    /\ Left => Left'
    /\ status = "READY" => status' = "READY" \/ Claimed'
    /\ status = "ACTIVE" => status' = "ACTIVE" \/ Left'

LEMMA StepsOnward ==
    ASSUME TypeOK, NEW c \in Calls, CompareAndSet(c),
           c \in Heartbeats => call[c].seen \in {"READY", "ACTIVE"}
    PROVE  Onward
    BY DEF CompareAndSet, Target, Onward, Claimed, Left, TypeOK, Status

LEMMA ElsewhereOnward ==
    ASSUME TypeOK, Elsewhere
    PROVE  Onward
    BY MovesOn DEF Elsewhere, Onward, Claimed, Left, TypeOK

-----------------------------------------------------------------------------
(***************************************************************************)
(* The invariant                                                           *)
(***************************************************************************)

\* What a loop is made of.
LEMMA LoopType ==
    ASSUME call \in [Calls -> Call], NEW c \in Calls
    PROVE  call[c].pc \in Pc /\ call[c].left \in 0..CasRetries /\ call[c].seen \in Status
    BY DEF Call

\* A step of a request changes the state of its loop only.
LEMMA LoopGoes ==
    ASSUME call \in [Calls -> Call], NEW c \in Calls, NEW pc \in Pc,
           NEW left \in 0..CasRetries, NEW st \in Status, Goes(c, pc, left, st)
    PROVE  /\ call' \in [Calls -> Call]
           /\ call'[c].pc = pc /\ call'[c].left = left /\ call'[c].seen = st
           /\ \A d \in Calls : d # c => call'[d] = call[d]
    BY DEF Goes, Call

\* The invariant is of each loop by itself, and the record.
LEMMA RetriesNext ==
    ASSUME CasRetries \in Nat, CasRetries >= 3, RetriesInv, [Next]_vars
    PROVE  RetriesInv'
<1> USE DEF RetriesInv, TypeOK, ReadsHaveAttempts, AttemptsTell, HeartbeatRefusalIsReal
<1>1. ASSUME NEW c \in Calls, Start(c) PROVE RetriesInv'
  <2>1. /\ call' \in [Calls -> Call] /\ status' = status
        /\ call'[c].pc = "read" /\ call'[c].left = CasRetries
        /\ \A d \in Calls : d # c => call'[d] = call[d]
    BY <1>1, LoopGoes DEF Start, Attempts, Pc, Status
  <2> QED BY <2>1 DEF Claimed, Left
<1>2. ASSUME NEW c \in Calls, Read(c) PROVE RetriesInv'
  <2>1. /\ call[c].pc = "read" /\ status' = status /\ status \in Status
        /\ call[c].left \in 0..CasRetries /\ call[c].left > 0
    BY <1>2, LoopType DEF Read
  <2>2. CASE status \in Concerns(c)
    <3>0. /\ Goes(c, "cas", call[c].left - 1, status) /\ "cas" \in Pc
          /\ call[c].left - 1 \in 0..CasRetries
      BY <1>2, <2>1, <2>2 DEF Read, Pc
    <3>1. /\ call' \in [Calls -> Call]
          /\ call'[c].pc = "cas" /\ call'[c].left = call[c].left - 1 /\ call'[c].seen = status
          /\ \A d \in Calls : d # c => call'[d] = call[d]
      BY <2>1, <3>0, LoopGoes
    <3>2. TypeOK' /\ ReadsHaveAttempts' /\ HeartbeatRefusalIsReal'
      BY <2>1, <3>1
    <3>3. c \in Heartbeats => status \in {"READY", "ACTIVE"}
      BY <2>2 DEF Concerns
    <3> QED BY <2>1, <3>1, <3>2, <3>3 DEF Claimed, Left
  <2>3. CASE status \notin Concerns(c)
    <3>0. Goes(c, "refused", 0, status) /\ "refused" \in Pc /\ 0 \in 0..CasRetries
      BY <1>2, <2>3 DEF Read, Pc
    <3>1. /\ call' \in [Calls -> Call] /\ call'[c].pc = "refused" /\ call'[c].seen = status
          /\ \A d \in Calls : d # c => call'[d] = call[d]
      BY <2>1, <3>0, LoopGoes
    <3>2. c \in Heartbeats => status \notin {"READY", "ACTIVE"}
      BY <2>3 DEF Concerns
    <3> QED BY <2>1, <3>1, <3>2 DEF Claimed, Left
  <2> QED BY <2>2, <2>3
<1>3. ASSUME NEW c \in Calls, CompareAndSet(c) PROVE RetriesInv'
  <2>1. Onward
    BY <1>3, StepsOnward DEF CompareAndSet
  <2>2. call[c].pc = "cas" /\ call[c].left \in 0..CasRetries /\ call[c].seen \in Status
    BY <1>3, LoopType DEF CompareAndSet
  <2>3. CASE status = call[c].seen
    <3>1. Goes(c, "moved", 0, call[c].seen) /\ "moved" \in Pc /\ 0 \in 0..CasRetries
      BY <1>3, <2>3 DEF CompareAndSet, Pc
    <3>2. /\ call' \in [Calls -> Call] /\ call'[c].pc = "moved"
          /\ \A d \in Calls : d # c => call'[d] = call[d]
      BY <2>2, <3>1, LoopGoes
    <3> QED BY <2>1, <3>2 DEF Onward, Left
  <2>4. CASE status # call[c].seen
    <3> DEFINE next == IF call[c].left = 0 THEN "last" ELSE "read"
    <3>1. Goes(c, next, call[c].left, "absent") /\ next \in Pc /\ "absent" \in Status
      BY <1>3, <2>4 DEF CompareAndSet, Pc, Status
    <3> HIDE DEF next
    <3>2. /\ call' \in [Calls -> Call] /\ call'[c].pc = next /\ call'[c].left = call[c].left
          /\ \A d \in Calls : d # c => call'[d] = call[d]
      BY <2>2, <3>1, LoopGoes
    <3>3. status' = status
      BY <1>3, <2>4 DEF CompareAndSet
    <3>4. TypeOK' /\ ReadsHaveAttempts' /\ HeartbeatRefusalIsReal'
      BY <2>2, <3>2, <3>3 DEF next
    <3>5. ASSUME c \in Heartbeats
          PROVE  /\ call[c].left \in {CasRetries - 1, CasRetries - 2} /\ Claimed
                 /\ call[c].left < CasRetries - 1 => Left
      BY <2>2, <2>4, <3>5 DEF Claimed, Left
    <3>6. AttemptsTell'
      BY <2>2, <3>2, <3>3, <3>5 DEF next, Claimed, Left
    <3> QED BY <3>4, <3>6
  <2> QED BY <2>3, <2>4
<1>4. ASSUME NEW c \in Calls, ReadLast(c) PROVE RetriesInv'
  <2>1. /\ Goes(c, "exhausted", 0, status) /\ "exhausted" \in Pc /\ 0 \in 0..CasRetries
        /\ call[c].pc = "last" /\ status' = status
    BY <1>4 DEF ReadLast, Pc
  <2>2. c \notin Heartbeats
    BY <2>1
  <2>3. /\ call' \in [Calls -> Call] /\ call'[c].pc = "exhausted"
        /\ \A d \in Calls : d # c => call'[d] = call[d]
    BY <2>1, LoopGoes
  <2> QED BY <2>1, <2>2, <2>3 DEF Claimed, Left
<1>5. CASE Elsewhere
  <2>1. Onward /\ call' = call
    BY <1>5, ElsewhereOnward DEF Elsewhere
  <2> QED BY <2>1 DEF Onward, Left
<1>6. CASE UNCHANGED vars
    BY <1>6 DEF vars, Claimed, Left
<1> QED BY <1>1, <1>2, <1>3, <1>4, <1>5, <1>6 DEF Next

\* A heartbeat is refused only for a record that is not in use, if it has
\* three attempts, whatever races with it (scheduler.ts, heartbeat).
THEOREM HeartbeatsAreRefusedRightly ==
    ASSUME CasRetries \in Nat, CasRetries >= 3
    PROVE  Spec => []HeartbeatRefusalIsReal
<1>1. Init => RetriesInv
    BY DEF Init, RetriesInv, TypeOK, ReadsHaveAttempts, AttemptsTell, HeartbeatRefusalIsReal,
        Call, Pc, Status
<1>2. RetriesInv /\ [Next]_vars => RetriesInv'
    BY RetriesNext
<1>3. RetriesInv => HeartbeatRefusalIsReal
    BY DEF RetriesInv
<1> QED BY <1>1, <1>2, <1>3, PTL DEF Spec


-----------------------------------------------------------------------------
(***************************************************************************)
(* Replays: the inductive invariant                                        *)
(***************************************************************************)

\* The databases from one script to the next, of the first n.
Follows(h, scripts, n) ==
    /\ h[0] = P!Empty
    /\ \A i \in 1..n : h[i] = P!Outcome(h[i - 1], scripts[i]).db

Sequence(s) == \E S : s \in Seq(S)

\* What the author's runs have made of an empty database, if nothing was lost.
AuthorFits ==
    /\ Sequence(runs) /\ reader.pc = "closed"
    /\ apart = {} => \E h : Follows(h, P!ScriptsOf(runs), Len(runs)) /\ h[Len(runs)] = authored

\* What the scripts that were sent make of one, and how far the reader is.
ReaderFits ==
    /\ Sequence(sent.scripts) /\ reader.done \in 0..Len(sent.scripts)
    /\ reader.pc = "rebuilt" => reader.done = Len(sent.scripts)
    /\ apart = {} => \E h :
          /\ Follows(h, sent.scripts, Len(sent.scripts))
          /\ h[Len(sent.scripts)].tables = sent.tables
          /\ h[reader.done] = built

ReplaysInv ==
    /\ kind \in {"link", "project"} /\ sent.made \in BOOLEAN
    /\ reader \in [status : {"opening", "ready", "failed", "running"},
                   pc : {"closed", "reading", "waiting", "replaying", "rebuilt", "invalid"},
                   done : Nat]
    /\ reader.pc \in {"closed", "reading", "waiting", "invalid"} =>
          reader.done = 0 /\ (apart = {} => built = P!Empty)
    /\ ~sent.made => AuthorFits
    /\ sent.made => ReaderFits

\* The instance counts as this module does.
LEMMA ReplaysCount == \A S : P!Cardinality(S) = Cardinality(S)
    BY DEF P!Cardinality, Cardinality

LEMMA SequenceFacts ==
    ASSUME NEW s, Sequence(s)
    PROVE  Len(s) \in Nat /\ DOMAIN s = 1..Len(s) /\ (s # <<>> => Len(s) > 0)
    BY DEF Sequence

LEMMA AppendFacts ==
    ASSUME NEW s, Sequence(s), NEW e
    PROVE  /\ Sequence(Append(s, e)) /\ Len(Append(s, e)) = Len(s) + 1
           /\ Append(s, e)[Len(s) + 1] = e
           /\ \A i \in 1..Len(s) : Append(s, e)[i] = s[i]
<1>1. PICK S : s \in Seq(S)
    BY DEF Sequence
<1> DEFINE X == S \cup {e}
<1>2. s \in Seq(X) /\ e \in X
    BY <1>1
<1>3. Append(s, e) \in Seq(X) /\ Len(Append(s, e)) = Len(s) + 1 /\ Len(s) \in Nat
    BY <1>2
<1>4. Append(s, e)[Len(s) + 1] = e /\ \A i \in 1..Len(s) : Append(s, e)[i] = s[i]
    BY <1>2
<1> QED BY <1>3, <1>4 DEF Sequence

LEMMA ScriptsFacts ==
    ASSUME NEW s, Sequence(s)
    PROVE  /\ Sequence(P!ScriptsOf(s)) /\ Len(P!ScriptsOf(s)) = Len(s)
           /\ \A i \in 1..Len(s) : P!ScriptsOf(s)[i] = s[i].script
<1> DEFINE X == {s[i].script : i \in DOMAIN s}
           t == P!ScriptsOf(s)
<1>1. Len(s) \in Nat /\ DOMAIN s = 1..Len(s)
    BY SequenceFacts
<1>2. t = [i \in 1..Len(s) |-> s[i].script] /\ t \in [1..Len(s) -> X]
    BY <1>1 DEF P!ScriptsOf
<1>3. t \in Seq(X) /\ Len(t) = Len(s)
    BY <1>1, <1>2
<1> QED BY <1>2, <1>3 DEF Sequence

\* What save() sends is all of it, if all of it succeeded.
LEMMA SavedIsShared ==
    ASSUME Sequence(runs), \A i \in DOMAIN runs : runs[i].ok
    PROVE  P!Saved = P!ScriptsOf(runs)
<1> DEFINE n == Len(runs)
<1>1. n \in Nat /\ DOMAIN runs = 1..n
    BY SequenceFacts
<1>2. P!Succeeded = 1..n
    BY <1>1 DEF P!Succeeded
<1> HIDE DEF n
<1>3. \A i \in 0..n : P!Cardinality(1..i) = i
    <2> SUFFICES ASSUME NEW i \in 0..n PROVE P!Cardinality(1..i) = i
      OBVIOUS
    <2>1. Cardinality(1..i) = i
      BY <1>1, FS_Interval
    <2> QED BY <2>1, ReplaysCount
<1>4. ASSUME NEW j \in 1..n PROVE P!Nth(1..n, j) = j
    <2>1. \A i \in 1..n : (1..n) \cap (1..i) = 1..i
      BY <1>1
    <2>2. ASSUME NEW i \in 1..n PROVE P!Cardinality((1..n) \cap (1..i)) = i
      <3>1. i \in 0..n
        BY <1>1
      <3>2. P!Cardinality(1..i) = i
        BY <1>3, <3>1
      <3>3. (1..n) \cap (1..i) = 1..i
        BY <2>1
      <3> QED BY <3>2, <3>3
    <2> QED BY <1>1, <2>2 DEF P!Nth
<1>5. P!Cardinality(1..n) = n
    BY <1>1, <1>3
<1>6. P!Saved = [j \in 1..n |-> runs[j].script]
    BY <1>2, <1>4, <1>5 DEF P!Saved
<1> QED BY <1>1, <1>6 DEF P!ScriptsOf


\* A script that is run is one step more.
LEMMA FollowsOn ==
    ASSUME NEW n \in Nat, NEW h, NEW s, NEW t, NEW e, Follows(h, s, n),
           \A i \in 1..n : t[i] = s[i], t[n + 1] = e
    PROVE  \E g : Follows(g, t, n + 1) /\ g[n + 1] = P!Outcome(h[n], e).db
<1> DEFINE g == [i \in 0..(n + 1) |-> IF i = n + 1 THEN P!Outcome(h[n], e).db ELSE h[i]]
<1>1. g[n + 1] = P!Outcome(h[n], e).db /\ \A i \in 0..n : g[i] = h[i]
    OBVIOUS
<1> HIDE DEF g
<1>2. g[0] = P!Empty
    BY <1>1 DEF Follows
<1>3. ASSUME NEW i \in 1..(n + 1) PROVE g[i] = P!Outcome(g[i - 1], t[i]).db
    <2>1. CASE i = n + 1
      <3>1. g[i - 1] = h[n] /\ t[i] = e
        BY <1>1, <2>1
      <3> QED BY <1>1, <2>1, <3>1
    <2>2. CASE i \in 1..n
      <3>1. i - 1 \in 0..n /\ i \in 0..n
        BY <2>2
      <3>2. g[i - 1] = h[i - 1] /\ g[i] = h[i] /\ t[i] = s[i]
        BY <1>1, <2>2, <3>1
      <3> QED BY <2>2, <3>2 DEF Follows
    <2> QED BY <2>1, <2>2
<1> QED BY <1>1, <1>2, <1>3 DEF Follows

LEMMA NothingFollows ==
    ASSUME NEW s
    PROVE  \E h : Follows(h, s, 0) /\ h[0] = P!Empty
<1> DEFINE h == [i \in {0} |-> P!Empty]
<1>1. h[0] = P!Empty
    OBVIOUS
<1> HIDE DEF h
<1>2. Follows(h, s, 0)
    BY <1>1 DEF Follows
<1> QED BY <1>1, <1>2

LEMMA AuthorKeeps ==
    ASSUME ReplaysInv, NEW s \in Scripts, P!AuthorRuns(s)
    PROVE  ReplaysInv'
<1> DEFINE e == [script |-> s, ok |-> P!Outcome(authored, s).ok]
<1>1. /\ ~sent.made /\ runs' = Append(runs, e) /\ authored' = P!Outcome(authored, s).db
      /\ UNCHANGED <<kind, sent, reader, built, mishaps, apart>>
    BY DEF P!AuthorRuns
<1>2. e.script = s
    OBVIOUS
<1> HIDE DEF e
<1>3. Sequence(runs) /\ reader.pc = "closed"
    BY <1>1 DEF ReplaysInv, AuthorFits
<1>4. /\ Sequence(runs') /\ Len(runs') = Len(runs) + 1 /\ Len(runs) \in Nat
      /\ runs'[Len(runs) + 1] = e /\ \A i \in 1..Len(runs) : runs'[i] = runs[i]
    BY <1>1, <1>3, AppendFacts, SequenceFacts
<1>5. ASSUME apart = {}
      PROVE  \E h : Follows(h, P!ScriptsOf(runs'), Len(runs')) /\ h[Len(runs')] = authored'
    <2>1. PICK h : Follows(h, P!ScriptsOf(runs), Len(runs)) /\ h[Len(runs)] = authored
      BY <1>1, <1>5 DEF ReplaysInv, AuthorFits
    <2>2. \A i \in 1..Len(runs) : P!ScriptsOf(runs)[i] = runs[i].script
      BY <1>3, ScriptsFacts
    <2>3. \A i \in 1..Len(runs') : P!ScriptsOf(runs')[i] = runs'[i].script
      BY <1>4, ScriptsFacts
    <2>4. \A i \in 1..Len(runs) : P!ScriptsOf(runs')[i] = P!ScriptsOf(runs)[i]
      BY <1>4, <2>2, <2>3
    <2>5. P!ScriptsOf(runs')[Len(runs) + 1] = s
      BY <1>2, <1>4, <2>3
    <2>6. PICK g : /\ Follows(g, P!ScriptsOf(runs'), Len(runs) + 1)
                   /\ g[Len(runs) + 1] = P!Outcome(h[Len(runs)], s).db
      <3> HIDE DEF ReplaysInv
      <3> QED BY <1>4, <2>1, <2>4, <2>5, FollowsOn
    <2> QED BY <1>1, <1>4, <2>1, <2>6
<1>6. P!ScriptsOf(runs)' = P!ScriptsOf(runs')
    BY DEF P!ScriptsOf
<1>7. AuthorFits'
    BY <1>1, <1>3, <1>4, <1>5, <1>6 DEF AuthorFits
<1> QED BY <1>1, <1>7 DEF ReplaysInv

LEMMA SendKeeps ==
    ASSUME ReplaysInv, P!Send
    PROVE  ReplaysInv'
<1> DEFINE scripts == IF kind = "link" THEN P!Shared ELSE P!Saved
<1>1. /\ ~sent.made /\ sent' = [made |-> TRUE, scripts |-> scripts, tables |-> authored.tables]
      /\ UNCHANGED <<kind, authored, runs, reader, built, mishaps>>
      /\ apart' = {} => apart = {} /\ (kind # "link" => \A i \in DOMAIN runs : runs[i].ok)
    BY DEF P!Send, ReplaysInv
<1>2. /\ Sequence(runs) /\ reader.pc = "closed" /\ reader.done = 0
      /\ apart = {} => built = P!Empty
    BY <1>1 DEF ReplaysInv, AuthorFits
<1>3. Sequence(P!ScriptsOf(runs)) /\ Len(P!ScriptsOf(runs)) = Len(runs)
    BY <1>2, ScriptsFacts
<1>4. Sequence(scripts)
    <2>1. P!Cardinality(P!Succeeded) \in Nat
      <3>1. IsFiniteSet(P!Succeeded)
        BY <1>2, SequenceFacts, FS_Interval, FS_Subset DEF P!Succeeded
      <3> QED BY <3>1, FS_CardinalityType, ReplaysCount
    <2>2. P!Saved \in Seq({P!Saved[j] : j \in DOMAIN P!Saved})
      BY <2>1 DEF P!Saved
    <2> QED BY <1>3, <2>2 DEF Sequence, P!Shared
<1>5. apart' = {} => scripts = P!ScriptsOf(runs)
    BY <1>1, <1>2, SavedIsShared DEF P!Shared
<1> HIDE DEF scripts
<1>6. Len(scripts) \in Nat
    BY <1>4, SequenceFacts
<1>7. ASSUME apart' = {}
      PROVE  \E h : /\ Follows(h, scripts, Len(scripts)) /\ h[Len(scripts)].tables = authored.tables
                    /\ h[0] = built
    <2>1. PICK h : Follows(h, P!ScriptsOf(runs), Len(runs)) /\ h[Len(runs)] = authored
      BY <1>1, <1>7 DEF ReplaysInv, AuthorFits
    <2>2. h[0] = built
      BY <1>1, <1>2, <1>7, <2>1 DEF Follows
    <2> QED BY <1>3, <1>5, <1>7, <2>1, <2>2
<1>8. /\ sent'.made /\ sent'.scripts = scripts /\ sent'.tables = authored.tables
      /\ reader' = reader /\ built' = built
    BY <1>1
<1>9. ReaderFits'
    BY <1>2, <1>4, <1>6, <1>7, <1>8 DEF ReaderFits
<1> QED BY <1>1, <1>2, <1>8, <1>9 DEF ReplaysInv


\* Steps of the reader before the replay, in which nothing is built.
LEMMA WaitingKeeps ==
    ASSUME ReplaysInv, sent.made, UNCHANGED <<kind, sent, built>>, apart' = {} => apart = {},
           NEW st \in {"opening", "ready", "failed", "running"},
           NEW pc \in {"closed", "reading", "waiting", "replaying", "invalid"},
           reader.pc \in {"closed", "reading", "waiting"},
           reader' = [reader EXCEPT !.status = st, !.pc = pc]
    PROVE  ReplaysInv'
<1>1. /\ reader' = [status |-> st, pc |-> pc, done |-> reader.done]
      /\ reader.done = 0 /\ (apart = {} => built = P!Empty)
    BY DEF ReplaysInv
<1>2. reader'.pc = pc /\ reader'.done = reader.done /\ reader'.status = st /\ pc # "rebuilt"
    BY <1>1
<1>3. ReaderFits'
    BY <1>2 DEF ReaderFits, ReplaysInv
<1> QED BY <1>1, <1>2, <1>3 DEF ReplaysInv

LEMMA OpenedProjectKeeps ==
    ASSUME ReplaysInv, sent.made, reader.pc = "closed", NEW t,
           reader' = [reader EXCEPT !.pc = "reading"],
           built' = [built EXCEPT !.tables = t],
           apart' = IF t = {} THEN apart ELSE apart \cup {"not empty"},
           UNCHANGED <<kind, sent>>
    PROVE  ReplaysInv'
<1>1. apart' = {} => apart = {} /\ t = {} /\ built = P!Empty
    BY DEF ReplaysInv
<1>2. apart' = {} => built' = built
  <2> SUFFICES ASSUME apart' = {} PROVE built' = built
    OBVIOUS
  <2>1. built = P!Empty /\ built' = [built EXCEPT !.tables = t] /\ t = {}
    BY <1>1
  <2>2. P!Empty = [tables |-> P!Empty.tables, tx |-> P!Empty.tx, kept |-> P!Empty.kept]
        /\ P!Empty.tables = {}
    BY DEF P!Empty
  <2>3. [P!Empty EXCEPT !.tables = {}] = P!Empty
    BY <2>2
  <2> QED BY <2>1, <2>3
<1>3. /\ reader' = [status |-> reader.status, pc |-> "reading", done |-> reader.done]
      /\ reader.done = 0
    BY DEF ReplaysInv
<1>4. reader'.pc = "reading" /\ reader'.done = reader.done /\ reader'.status = reader.status
    BY <1>3
<1>5. ReaderFits'
    BY <1>1, <1>2, <1>4 DEF ReaderFits, ReplaysInv
<1> QED BY <1>1, <1>2, <1>3, <1>4, <1>5 DEF ReplaysInv

LEMMA ReplayKeeps ==
    ASSUME ReplaysInv, P!Replay
    PROVE  ReplaysInv'
<1>1. /\ reader.pc = "replaying" /\ reader.done < Len(sent.scripts)
      /\ reader' = [reader EXCEPT !.done = @ + 1]
      /\ UNCHANGED <<kind, authored, runs, sent>>
      /\ apart' = {} => apart = {} /\ built' = P!Outcome(built, sent.scripts[reader.done + 1]).db
    BY DEF P!Replay, P!Mishap
<1>2. sent.made
    BY <1>1 DEF ReplaysInv, AuthorFits
<1>3. ReaderFits /\ reader.done \in Nat
    BY <1>2 DEF ReplaysInv
<1>4. Len(sent.scripts) \in Nat
    BY <1>3, SequenceFacts DEF ReaderFits
<1>5. /\ reader' = [status |-> reader.status, pc |-> "replaying", done |-> reader.done + 1]
      /\ reader.status \in {"opening", "ready", "failed", "running"}
    BY <1>1 DEF ReplaysInv
<1>6. /\ reader'.pc = "replaying" /\ reader'.done = reader.done + 1
      /\ reader'.done \in 1..Len(sent.scripts)
    BY <1>1, <1>3, <1>4, <1>5
<1>7. ASSUME apart' = {}
      PROVE  \E h : /\ Follows(h, sent.scripts, Len(sent.scripts))
                    /\ h[Len(sent.scripts)].tables = sent.tables
                    /\ h[reader'.done] = built'
    <2>1. PICK h : /\ Follows(h, sent.scripts, Len(sent.scripts))
                   /\ h[Len(sent.scripts)].tables = sent.tables
                   /\ h[reader.done] = built
      BY <1>1, <1>3, <1>7 DEF ReaderFits
    <2>2. h[reader'.done] = P!Outcome(h[reader'.done - 1], sent.scripts[reader'.done]).db
      BY <1>6, <2>1 DEF Follows
    <2>3. reader'.done - 1 = reader.done
      BY <1>3, <1>6
    <2> QED BY <1>1, <1>6, <1>7, <2>1, <2>2, <2>3
<1>8. ReaderFits'
    BY <1>1, <1>3, <1>6, <1>7 DEF ReaderFits
<1> QED BY <1>1, <1>2, <1>3, <1>5, <1>6, <1>8 DEF ReplaysInv

\* The reader's store changes, or the replay has come to its end.
LEMMA ReaderKeeps ==
    ASSUME ReplaysInv, sent.made, UNCHANGED <<kind, sent, built, apart>>,
           NEW st \in {"opening", "ready", "failed", "running"},
           NEW pc \in {reader.pc, "rebuilt"},
           reader' = [reader EXCEPT !.status = st, !.pc = pc],
           pc # reader.pc => reader.pc = "replaying" /\ reader.done = Len(sent.scripts)
    PROVE  ReplaysInv'
<1>1. reader' = [status |-> st, pc |-> pc, done |-> reader.done]
    BY DEF ReplaysInv
<1>2. reader'.pc = pc /\ reader'.done = reader.done /\ reader'.status = st
    BY <1>1
<1>3. ReaderFits'
    BY <1>2 DEF ReaderFits, ReplaysInv
<1>4. reader'.pc \in {"closed", "reading", "waiting", "invalid"} => pc = reader.pc
    BY <1>2
<1> QED BY <1>1, <1>2, <1>3, <1>4 DEF ReplaysInv

LEMMA ReplaysStart == P!Init => ReplaysInv
<1> SUFFICES ASSUME P!Init PROVE ReplaysInv
    OBVIOUS
<1>1. Sequence(runs) /\ Len(runs) = 0
    BY EmptySeq DEF P!Init, Sequence
<1>2. \E h : Follows(h, P!ScriptsOf(runs), Len(runs)) /\ h[Len(runs)] = authored
    BY <1>1, NothingFollows DEF P!Init
<1>3. AuthorFits
    BY <1>1, <1>2 DEF AuthorFits, P!Init
<1> QED BY <1>3 DEF ReplaysInv, P!Init

LEMMA ReplaysStep ==
    ASSUME ReplaysInv, [P!Next]_(P!vars)
    PROVE  ReplaysInv'
<1>0. /\ sent.made \/ (reader.pc = "closed" /\ sent.made \in BOOLEAN)
      /\ reader.status \in {"opening", "ready", "failed", "running"}
      /\ reader = [status |-> reader.status, pc |-> reader.pc, done |-> reader.done]
    BY DEF ReplaysInv, AuthorFits
<1>1. CASE \E s \in Scripts : P!AuthorRuns(s)
    BY <1>1, AuthorKeeps
<1>2. CASE \E s \in Scripts : P!AnswerLost(s)
  <2>1. /\ ~sent.made /\ apart' # {} /\ UNCHANGED <<kind, runs, sent, reader, built>>
    BY <1>2 DEF P!AnswerLost, P!Mishap
  <2> QED BY <2>1 DEF ReplaysInv, AuthorFits
<1>3. CASE P!Reload
  <2>1. /\ ~sent.made /\ apart' # {} /\ runs' = <<>> /\ UNCHANGED <<kind, sent, reader, built>>
    BY <1>3 DEF P!Reload, P!Mishap
  <2>2. Sequence(runs')
    BY <2>1, EmptySeq DEF Sequence
  <2> QED BY <2>1, <2>2 DEF ReplaysInv, AuthorFits
<1>4. CASE P!Send
    BY <1>4, SendKeeps
<1>5. CASE P!Open
  <2>1. sent.made /\ reader.pc = "closed" /\ UNCHANGED <<kind, sent>>
    BY <1>5 DEF P!Open
  <2>2. CASE kind = "link"
    <3>1. PICK pc \in {"waiting", "invalid"} : reader' = [reader EXCEPT !.pc = pc]
      BY <1>5, <2>2 DEF P!Open
    <3>2. reader' = [reader EXCEPT !.status = reader.status, !.pc = pc]
      BY <1>0, <3>1
    <3>3. UNCHANGED <<built, apart>>
      BY <1>5, <2>2 DEF P!Open
    <3> QED BY <1>0, <2>1, <3>1, <3>2, <3>3, WaitingKeeps
  <2>3. CASE kind # "link"
    BY <1>5, <2>1, <2>3, OpenedProjectKeeps DEF P!Open
  <2> QED BY <2>2, <2>3
<1>6. CASE P!Opened
  <2>1. sent.made /\ reader.pc \in {"reading", "waiting"} /\ UNCHANGED <<kind, sent, built>>
        /\ (apart' = {} => apart = {})
    BY <1>0, <1>6 DEF P!Opened, P!Mishap
  <2>2. PICK st \in {"ready", "failed"} : reader' = [reader EXCEPT !.status = st]
    BY <1>6 DEF P!Opened
  <2>3. reader' = [reader EXCEPT !.status = st, !.pc = reader.pc]
    BY <1>0, <2>2
  <2> QED BY <2>1, <2>2, <2>3, WaitingKeeps
<1>7. CASE P!ProjectRead \/ P!Settled
  <2>1. sent.made /\ reader.pc \in {"reading", "waiting"} /\ UNCHANGED <<kind, sent, built, apart>>
    BY <1>0, <1>7 DEF P!ProjectRead, P!Settled
  <2>2. PICK pc \in {"waiting", "replaying", "invalid"} : reader' = [reader EXCEPT !.pc = pc]
    BY <1>7 DEF P!ProjectRead, P!Settled
  <2>3. reader' = [reader EXCEPT !.status = reader.status, !.pc = pc]
    BY <1>0, <2>2
  <2> QED BY <1>0, <2>1, <2>2, <2>3, WaitingKeeps
<1>8. CASE \E s \in Scripts : P!ReaderRuns(s)
  <2>1. /\ sent.made /\ reader.pc \in {"reading", "waiting"} /\ apart' # {}
        /\ reader' = [reader EXCEPT !.status = "running"] /\ UNCHANGED <<kind, sent>>
    BY <1>0, <1>8 DEF P!ReaderRuns
  <2>2. /\ reader' = [status |-> "running", pc |-> reader.pc, done |-> reader.done]
    BY <1>0, <2>1
  <2> QED BY <2>1, <2>2 DEF ReplaysInv, ReaderFits
<1>9. CASE P!ReaderAnswered
  <2>1. /\ reader.status = "running" /\ reader' = [reader EXCEPT !.status = "ready"]
        /\ UNCHANGED <<kind, authored, runs, sent, built, apart>>
    BY <1>9 DEF P!ReaderAnswered
  <2>2. /\ reader' = [status |-> "ready", pc |-> reader.pc, done |-> reader.done]
        /\ reader' = [reader EXCEPT !.status = "ready", !.pc = reader.pc]
    BY <1>0, <2>1
  <2>3. CASE sent.made
    BY <2>1, <2>2, <2>3, ReaderKeeps
  <2>4. CASE ~sent.made
    BY <2>1, <2>2, <2>4 DEF ReplaysInv, AuthorFits, P!ScriptsOf
  <2> QED BY <2>3, <2>4
<1>10. CASE P!Replay
    BY <1>10, ReplayKeeps
<1>11. CASE P!Finish
  <2>1. /\ sent.made /\ reader.pc = "replaying" /\ reader.done = Len(sent.scripts)
        /\ reader' = [reader EXCEPT !.pc = "rebuilt"] /\ UNCHANGED <<kind, sent, built, apart>>
    BY <1>0, <1>11 DEF P!Finish
  <2>2. reader' = [reader EXCEPT !.status = reader.status, !.pc = "rebuilt"]
    BY <1>0, <2>1
  <2> QED BY <1>0, <2>1, <2>2, ReaderKeeps
<1>12. CASE UNCHANGED P!vars
    BY <1>12 DEF P!vars, ReplaysInv, AuthorFits, ReaderFits, P!ScriptsOf
<1> QED BY <1>1, <1>2, <1>3, <1>4, <1>5, <1>6, <1>7, <1>8, <1>9, <1>10, <1>11, <1>12 DEF P!Next

\* What was shared or saved builds the schema its author had, for any scripts,
\* runs and limits, but for the reasons the property names (share.ts,
\* SharedWorkspace.tsx, useProjectReplay): both went through the same
\* databases, and the reader is at one of them.
THEOREM ReplaysRebuild == PartsSpec => []ReplayRebuilds
<1>1. PartsInit => ReplaysInv
    BY ReplaysStart DEF PartsInit
<1>2. ReplaysInv /\ [PartsNext]_partsVars => ReplaysInv'
  <2>1. [PartsNext]_partsVars => [P!Next]_(P!vars)
    BY DEF PartsNext, partsVars, replayVars, P!vars
  <2> QED BY <2>1, ReplaysStep
<1>3. ReplaysInv => ReplayRebuilds
  <2> SUFFICES ASSUME ReplaysInv, reader.pc = "rebuilt", apart = {} PROVE built.tables = sent.tables
    BY DEF ReplayRebuilds, P!ReplayRebuilds
  <2>1. ReaderFits
    BY DEF ReplaysInv, AuthorFits
  <2> QED BY <2>1 DEF ReaderFits
<1> QED BY <1>1, <1>2, <1>3, PTL DEF PartsSpec

-----------------------------------------------------------------------------
(***************************************************************************)
(* Connections: the inductive invariant                                    *)
(***************************************************************************)
PairState == {"none", "opening", "open", "failed"}
CallerPc == {"idle", "read", "ask", "opening", "queued", "release", "closing"}
UseRecord == [pc : CallerPc, kind : L!Kind, on : L!Pair \cup {0}]

ConsoleKinds ==
    /\ row \in BOOLEAN /\ sandbox \in BOOLEAN /\ known \in BOOLEAN
    /\ entry \in L!Pair \cup {0} /\ doomed \subseteq L!Pair
    /\ pair \in [L!Pair -> PairState]
    /\ client \in [L!Pair -> [L!Kind -> L!ClientState]]
    /\ queue \in [L!Pair -> [L!Kind -> Seq(Uses)]]
    /\ caller \in [L!Caller -> UseRecord]
    /\ used \in 0..MaxUses /\ faults \in 0..MaxFaults

NoneFailed == \A q \in L!Pair : pair[q] # "failed"

\* The clients of a pair are as far as the pair is; none is connected to a
\* sandbox that has gone; and a pair the map does not hold is on its way out,
\* unless a pair could not be opened.
PairFits(p) ==
    /\ pair[p] = "none" => \A k \in L!Kind : client[p][k] = "none"
    /\ pair[p] = "opening" => \A k \in L!Kind : client[p][k] \in {"connecting", "up", "lost", "ending"}
    /\ pair[p] = "open" => \A k \in L!Kind : client[p][k] \in {"up", "lost", "ending", "over"}
    /\ \A k \in L!Kind : client[p][k] = "up" => sandbox
    /\ NoneFailed /\ p # entry /\ pair[p] = "opening" => p \in doomed
    /\ NoneFailed /\ p # entry /\ pair[p] = "open" => \A k \in L!Kind : client[p][k] # "up"

\* The map holds no pair whose end has been heard.
EntryFits ==
    entry # 0 =>
        /\ pair[entry] \in {"opening", "open"}
        /\ \A k \in L!Kind : client[entry][k] # "over"

\* A pair that somebody waits to see closed is closed, or will be.
Leaving(p) ==
    \/ pair[p] = "failed"
    \/ pair[p] = "opening" /\ p \in doomed
    \/ pair[p] = "open" /\ \A k \in L!Kind : client[p][k] \in {"lost", "ending", "over"}

PairsInv ==
    /\ \A p \in L!Pair : PairFits(p)
    /\ EntryFits
    /\ \A c \in L!Caller : caller[c].pc = "closing" /\ caller[c].on # 0 => Leaving(caller[c].on)

\* Who awaits a pair awaits one that has begun; who is in a queue is there
\* once, and where it thinks it is.
QueueFits(p, k) ==
    /\ \A i \in 1..Len(queue[p][k]) :
          LET u == queue[p][k][i] IN
          caller[u].pc = "queued" /\ caller[u].on = p /\ caller[u].kind = k
    /\ \A i, j \in 1..Len(queue[p][k]) : queue[p][k][i] = queue[p][k][j] => i = j

WaitFits(c) ==
    LET p == caller[c].on IN
    /\ caller[c].pc = "opening" => p # 0 /\ pair[p] # "none"
    /\ caller[c].pc = "queued" =>
          p # 0 /\ \E i \in 1..Len(queue[p][caller[c].kind]) : queue[p][caller[c].kind][i] = c

QueuesInv ==
    /\ \A p \in L!Pair, k \in L!Kind : QueueFits(p, k)
    /\ \A c \in L!Caller : WaitFits(c)

\* There is a pair left for each request that may still have to open one.
Busy == {c \in L!Caller : caller[c].pc \in {"read", "ask"}}
Taken == {p \in L!Pair : pair[p] # "none"}
Room == IsFiniteSet(Busy) /\ Cardinality(Taken) + Cardinality(Busy) <= used

ConsoleInv == ConsoleKinds /\ PairsInv /\ QueuesInv /\ Room

-----------------------------------------------------------------------------
(***************************************************************************)
(* Connections: what a caller does                                         *)
(***************************************************************************)
LEMMA CallerIs ==
    ASSUME ConsoleKinds, NEW c \in L!Caller
    PROVE  /\ caller[c] \in UseRecord /\ caller[c].pc \in CallerPc
           /\ caller[c].kind \in L!Kind /\ caller[c].on \in L!Pair \cup {0}
    BY DEF ConsoleKinds, UseRecord

\* A caller goes on, of the same kind, and the others stay where they are.
CallerGoes(c, pc, on) ==
    /\ caller' \in [L!Caller -> UseRecord]
    /\ caller'[c].pc = pc /\ caller'[c].on = on /\ caller'[c].kind = caller[c].kind
    /\ \A d \in L!Caller \ {c} : caller'[d] = caller[d]

LEMMA Going ==
    ASSUME ConsoleKinds, NEW c \in L!Caller, NEW pc \in CallerPc, L!Goes(c, pc)
    PROVE  CallerGoes(c, pc, caller[c].on)
<1>1. caller' = [caller EXCEPT ![c] = [caller[c] EXCEPT !.pc = pc]]
    BY DEF L!Goes
<1>2. [caller[c] EXCEPT !.pc = pc] = [pc |-> pc, kind |-> caller[c].kind, on |-> caller[c].on]
    BY CallerIs DEF UseRecord
<1>3. caller' = [caller EXCEPT ![c] = [pc |-> pc, kind |-> caller[c].kind, on |-> caller[c].on]]
    BY <1>1, <1>2
<1> QED BY <1>3, CallerIs DEF CallerGoes, ConsoleKinds, UseRecord

LEMMA GoingOn ==
    ASSUME ConsoleKinds, NEW c \in L!Caller, NEW pc \in CallerPc, NEW on \in L!Pair \cup {0},
           caller' = [caller EXCEPT ![c].pc = pc, ![c].on = on]
    PROVE  CallerGoes(c, pc, on)
<1>1. caller' = [caller EXCEPT ![c] = [[caller[c] EXCEPT !.pc = pc] EXCEPT !.on = on]]
    BY DEF ConsoleKinds
<1> DEFINE r == [pc |-> pc, kind |-> caller[c].kind, on |-> on]
<1>2. [caller[c] EXCEPT !.pc = pc] = [pc |-> pc, kind |-> caller[c].kind, on |-> caller[c].on]
    BY CallerIs DEF UseRecord
<1>3. caller' = [caller EXCEPT ![c] = r]
    BY <1>1, <1>2
<1>4. r \in UseRecord /\ r.pc = pc /\ r.kind = caller[c].kind /\ r.on = on
    BY CallerIs DEF UseRecord
<1> HIDE DEF r
<1> QED BY <1>3, <1>4 DEF CallerGoes, ConsoleKinds

LEMMA Ending ==
    ASSUME ConsoleKinds, NEW c \in L!Caller, L!Ends(c)
    PROVE  CallerGoes(c, "idle", 0)
    BY GoingOn DEF L!Ends, CallerPc

\* Steps after which nobody else waits to see a pair closed.
NoNewCloser ==
    \A c \in L!Caller : caller'[c].pc = "closing" =>
        caller[c].pc = "closing" /\ caller'[c].on = caller[c].on

LEMMA QuietPairs ==
    ASSUME ConsoleKinds, PairsInv, UNCHANGED <<pair, client, entry, doomed, sandbox>>, NoNewCloser
    PROVE  PairsInv'
    BY DEF PairsInv, PairFits, EntryFits, Leaving, NoneFailed, NoNewCloser

\* Steps after which the queues are as they were.
LEMMA QuietQueues ==
    ASSUME ConsoleKinds, QueuesInv, queue' = queue,
           \A p \in L!Pair : pair[p] # "none" => pair'[p] # "none",
           \A c \in L!Caller :
              \/ caller'[c] = caller[c]
              \/ /\ caller[c].pc # "queued" /\ caller'[c].pc # "queued"
                 /\ caller'[c].pc = "opening" =>
                       caller'[c].on # 0 /\ pair'[caller'[c].on] # "none"
    PROVE  QueuesInv'
<1>1. ASSUME NEW p \in L!Pair, NEW k \in L!Kind PROVE QueueFits(p, k)'
  <2>1. /\ queue[p][k] \in Seq(Uses) /\ QueueFits(p, k)
    BY DEF ConsoleKinds, QueuesInv
  <2>2. \A i \in 1..Len(queue[p][k]) : queue[p][k][i] \in L!Caller
    BY <2>1 DEF L!Caller
  <2> QED BY <2>1, <2>2 DEF QueueFits
<1>2. ASSUME NEW c \in L!Caller PROVE WaitFits(c)'
  <2>1. WaitFits(c)
    BY DEF QueuesInv
  <2>2. caller[c].on \in L!Pair \cup {0}
    BY CallerIs
  <2> QED BY <2>1, <2>2 DEF WaitFits
<1> QED BY <1>1, <1>2 DEF QueuesInv

LEMMA PairsFinite == ConsoleKinds => IsFiniteSet(Taken) /\ L!Pair = 1..MaxUses /\ MaxUses \in Nat
<1> SUFFICES ASSUME ConsoleKinds PROVE IsFiniteSet(Taken) /\ MaxUses \in Nat
    BY DEF L!Pair
<1>1. MaxUses \in Nat
    BY PartsAssumption DEF PartsAssumption, L!LabConsoleAssumption
<1>2. IsFiniteSet(1..MaxUses)
    BY <1>1, FS_Interval
<1> QED BY <1>1, <1>2, FS_Subset DEF Taken, L!Pair

\* Steps that take no pair and bring no request that may want one.
LEMMA QuietRoom ==
    ASSUME ConsoleKinds, Room, used' = used, Taken' = Taken,
           \A c \in L!Caller : caller'[c].pc \in {"read", "ask"} => caller[c].pc \in {"read", "ask"}
    PROVE  Room'
<1>1. Busy' \subseteq Busy /\ IsFiniteSet(Busy)
    BY DEF Busy, Room
<1>2. IsFiniteSet(Busy') /\ Cardinality(Busy') <= Cardinality(Busy)
    BY <1>1, FS_Subset
<1>3. Cardinality(Busy) \in Nat /\ Cardinality(Busy') \in Nat /\ Cardinality(Taken) \in Nat /\ used \in Nat
    BY <1>1, <1>2, PairsFinite, FS_CardinalityType DEF ConsoleKinds
<1> QED BY <1>2, <1>3 DEF Room

\* Whoever may have to open a pair finds one.
LEMMA RoomToOpen ==
    ASSUME ConsoleKinds, Room, NEW c \in L!Caller, caller[c].pc \in {"read", "ask"}
    PROVE  \E p \in L!Pair : pair[p] = "none"
<1>1. c \in Busy /\ IsFiniteSet(Busy)
    BY DEF Busy, Room
<1>2. Cardinality(Busy) \in Nat /\ Cardinality(Busy) # 0
    BY <1>1, FS_CardinalityType, FS_EmptySet
<1>3. Cardinality(Taken) \in Nat /\ IsFiniteSet(Taken) /\ used \in 0..MaxUses /\ MaxUses \in Nat
    BY PairsFinite, FS_CardinalityType DEF ConsoleKinds
<1>4. Cardinality(Taken) < MaxUses
    BY <1>2, <1>3 DEF Room
<1>5. Cardinality(1..MaxUses) = MaxUses
    BY <1>3, FS_Interval
<1>6. Taken # L!Pair
    BY <1>3, <1>4, <1>5, PairsFinite
<1> QED BY <1>6 DEF Taken, ConsoleKinds, PairState

-----------------------------------------------------------------------------
(***************************************************************************)
(* Connections: what becomes of the pairs                                  *)
(***************************************************************************)

\* A client connects, or is lost: the map stays as it is.
LEMMA ClientsKeep ==
    ASSUME ConsoleKinds, PairsInv, UNCHANGED <<pair, entry, doomed, caller>>,
           \A p \in L!Pair, k \in L!Kind :
              /\ \/ client'[p][k] = client[p][k]
                 \/ client[p][k] = "connecting" /\ client'[p][k] \in {"up", "ending"}
                 \/ client[p][k] = "up" /\ client'[p][k] = "lost"
              /\ client'[p][k] = "up" => sandbox'
    PROVE  PairsInv'
<1>1. ASSUME NEW p \in L!Pair PROVE PairFits(p)'
  <2>1. PairFits(p)
    BY DEF PairsInv
  <2>2. \A k \in L!Kind :
           /\ client[p][k] = "none" => client'[p][k] = "none"
           /\ client[p][k] \in {"connecting", "up", "lost", "ending"} =>
                 client'[p][k] \in {"connecting", "up", "lost", "ending"}
           /\ client[p][k] \in {"up", "lost", "ending", "over"} =>
                 client'[p][k] \in {"up", "lost", "ending", "over"}
           /\ client[p][k] \notin {"connecting", "up"} => client'[p][k] # "up"
    OBVIOUS
  <2> QED BY <2>1, <2>2 DEF PairFits, NoneFailed
<1>2. EntryFits'
  <2>1. EntryFits
    BY DEF PairsInv
  <2>2. entry \in L!Pair \cup {0}
    BY DEF ConsoleKinds
  <2> QED BY <2>1, <2>2 DEF EntryFits
<1>3. ASSUME NEW p \in L!Pair, Leaving(p) PROVE Leaving(p)'
    BY <1>3 DEF Leaving
<1> QED BY <1>1, <1>2, <1>3, CallerIs DEF PairsInv

\* open() is fulfilled.
LEMMA OpenedKeeps ==
    ASSUME ConsoleKinds, PairsInv, NEW p \in L!Pair, L!Opened(p)
    PROVE  PairsInv'
<1>1. /\ pair[p] = "opening" /\ \A k \in L!Kind : client[p][k] = "up"
      /\ pair' = [pair EXCEPT ![p] = "open"] /\ doomed' = doomed \ {p}
      /\ UNCHANGED <<sandbox, entry, caller>>
    BY DEF L!Opened
<1>2. /\ pair'[p] = "open" /\ p \notin doomed'
      /\ \A q \in L!Pair \ {p} :
            /\ pair'[q] = pair[q] /\ client'[q] = client[q]
            /\ q \in doomed <=> q \in doomed'
    BY <1>1 DEF ConsoleKinds, L!Opened
<1>3. \A k \in L!Kind : client'[p][k] = IF p \in doomed THEN "ending" ELSE "up"
  <2>1. client[p] \in [L!Kind -> L!ClientState]
    BY DEF ConsoleKinds
  <2>2. L!Closed(client[p]) = [k \in L!Kind |-> IF client[p][k] = "up" THEN "ending" ELSE client[p][k]]
    BY DEF L!Closed
  <2>3. CASE p \in doomed
    <3>1. client' = [client EXCEPT ![p] = L!Closed(client[p])]
      BY <2>3 DEF L!Opened
    <3>2. client'[p] = L!Closed(client[p])
      BY <3>1 DEF ConsoleKinds
    <3> QED BY <1>1, <2>2, <2>3, <3>2
  <2>4. CASE p \notin doomed
    BY <1>1, <2>4 DEF L!Opened
  <2> QED BY <2>3, <2>4
<1>4. NoneFailed' => NoneFailed
    BY <1>1, <1>2 DEF NoneFailed
<1>5. PairFits(p)'
    BY <1>1, <1>2, <1>3, <1>4 DEF PairsInv, PairFits
<1>6. ASSUME NEW q \in L!Pair \ {p} PROVE PairFits(q)' /\ (Leaving(q) => Leaving(q)')
  <2>1. PairFits(q)
    BY DEF PairsInv
  <2> QED BY <1>1, <1>2, <1>4, <2>1 DEF PairFits, Leaving
<1>7. Leaving(p) => Leaving(p)'
    BY <1>1, <1>2, <1>3 DEF Leaving
<1>8. EntryFits'
  <2>1. EntryFits /\ entry \in L!Pair \cup {0}
    BY DEF PairsInv, ConsoleKinds
  <2> QED BY <1>1, <1>2, <1>3, <2>1 DEF EntryFits
<1> QED BY <1>1, <1>5, <1>6, <1>7, <1>8, CallerIs DEF PairsInv

\* open() is rejected: the map forgets whichever pair it holds.
LEMMA OpenFailsKeeps ==
    ASSUME ConsoleKinds, PairsInv, NEW p \in L!Pair, L!OpenFails(p)
    PROVE  PairsInv'
<1>1. /\ pair' = [pair EXCEPT ![p] = "failed"] /\ doomed' = doomed \ {p} /\ entry' = 0
      /\ UNCHANGED <<sandbox, client, caller>>
    BY DEF L!OpenFails
<1>2. /\ pair'[p] = "failed" /\ \A q \in L!Pair \ {p} : pair'[q] = pair[q]
      /\ \A q \in L!Pair \ {p} : q \in doomed => q \in doomed'
    BY <1>1 DEF ConsoleKinds
<1>3. ~NoneFailed'
    BY <1>2 DEF NoneFailed
<1>4. ASSUME NEW q \in L!Pair PROVE PairFits(q)' /\ (Leaving(q) => Leaving(q)')
  <2>1. PairFits(q)
    BY DEF PairsInv
  <2>2. CASE q = p
    BY <1>1, <1>2, <1>3, <2>1, <2>2 DEF PairFits, Leaving
  <2>3. CASE q # p
    BY <1>1, <1>2, <1>3, <2>1, <2>3 DEF PairFits, Leaving
  <2> QED BY <2>2, <2>3
<1> QED BY <1>1, <1>4, CallerIs DEF PairsInv, EntryFits

\* The map forgets the pair it holds, which is closed or will be; meanwhile
\* the end of a client may be told.
LEMMA ReleasedKeeps ==
    ASSUME ConsoleKinds, PairsInv, NEW clients \in [L!Pair -> [L!Kind -> L!ClientState]],
           L!Released(clients), UNCHANGED <<pair, sandbox>>,
           \A p \in L!Pair, k \in L!Kind :
              \/ clients[p][k] = client[p][k]
              \/ client[p][k] = "lost" /\ clients[p][k] = "ending"
              \/ client[p][k] = "ending" /\ clients[p][k] = "over" /\ pair[p] # "opening",
           \A c \in L!Caller : caller'[c].pc = "closing" =>
              \/ caller[c].pc = "closing" /\ caller'[c].on = caller[c].on
              \/ caller'[c].on = entry
    PROVE  PairsInv' /\ client' \in [L!Pair -> [L!Kind -> L!ClientState]] /\ doomed' \subseteq L!Pair
<1>0. entry \in L!Pair \cup {0} /\ doomed \subseteq L!Pair /\ 0 \notin L!Pair
    BY DEF ConsoleKinds, L!Pair
<1>1. \A p \in L!Pair : clients[p] \in [L!Kind -> L!ClientState]
    OBVIOUS
<1>2. \A p \in L!Pair :
         L!Closed(clients[p]) = [k \in L!Kind |-> IF clients[p][k] = "up" THEN "ending" ELSE clients[p][k]]
    BY DEF L!Closed
<1>3. \A p \in L!Pair : L!Closed(clients[p]) \in [L!Kind -> L!ClientState]
    BY <1>1, <1>2 DEF L!ClientState
<1>4. /\ client' \in [L!Pair -> [L!Kind -> L!ClientState]]
      /\ \A p \in L!Pair : client'[p] =
            IF p = entry /\ pair[p] = "open" THEN L!Closed(clients[p]) ELSE clients[p]
  <2>1. CASE entry # 0 /\ pair[entry] = "open"
    <3>1. client' = [clients EXCEPT ![entry] = L!Closed(clients[entry])]
      BY <2>1 DEF L!Released
    <3> QED BY <1>0, <1>3, <2>1, <3>1
  <2>2. CASE ~(entry # 0 /\ pair[entry] = "open")
    BY <1>0, <2>2 DEF L!Released
  <2> QED BY <2>1, <2>2
<1>5. \A p \in L!Pair, k \in L!Kind : client'[p][k] =
         IF p = entry /\ pair[p] = "open" /\ clients[p][k] = "up" THEN "ending" ELSE clients[p][k]
    BY <1>2, <1>4
<1> HIDE DEF L!Closed
<1>6. /\ doomed \subseteq doomed' /\ doomed' \subseteq L!Pair /\ entry' = 0
      /\ entry # 0 /\ pair[entry] = "opening" => entry \in doomed'
    BY <1>0 DEF L!Released
<1>7. ASSUME NEW p \in L!Pair PROVE PairFits(p)' /\ (Leaving(p) => Leaving(p)')
  <2>1. PairFits(p)
    BY DEF PairsInv
  <2>2. \A k \in L!Kind :
           \/ client'[p][k] = client[p][k] /\ (p = entry /\ pair[p] = "open" => client'[p][k] # "up")
           \/ client[p][k] = "up" /\ client'[p][k] = "ending"
           \/ client[p][k] = "lost" /\ client'[p][k] = "ending"
           \/ client[p][k] = "ending" /\ client'[p][k] = "over" /\ pair[p] # "opening"
    BY <1>5
  <2>3. Leaving(p) => Leaving(p)'
    BY <1>6, <2>2 DEF Leaving
  <2>4. /\ pair[p] = "none" => \A k \in L!Kind : client'[p][k] = "none"
        /\ pair[p] = "opening" =>
              \A k \in L!Kind : client'[p][k] \in {"connecting", "up", "lost", "ending"}
        /\ pair[p] = "open" => \A k \in L!Kind : client'[p][k] \in {"up", "lost", "ending", "over"}
        /\ \A k \in L!Kind : client'[p][k] = "up" => sandbox
    BY <2>1, <2>2 DEF PairFits
  <2>5. NoneFailed /\ pair[p] = "opening" => p \in doomed'
    BY <1>6, <2>1 DEF PairFits, L!Pair
  <2>6. NoneFailed /\ pair[p] = "open" => \A k \in L!Kind : client'[p][k] # "up"
    BY <2>1, <2>2 DEF PairFits
  <2>7. NoneFailed' <=> NoneFailed
    BY DEF NoneFailed
  <2> QED BY <2>3, <2>4, <2>5, <2>6, <2>7 DEF PairFits
<1>8. ASSUME NEW e \in L!Pair, e = entry PROVE Leaving(e)'
  <2>1. EntryFits /\ PairFits(e) /\ e # 0
    BY <1>0, <1>8 DEF PairsInv
  <2>2. CASE pair[e] = "opening"
    BY <1>6, <1>8, <2>1, <2>2 DEF Leaving
  <2>3. CASE pair[e] = "open"
    <3>1. \A k \in L!Kind : client[e][k] \in {"up", "lost", "ending", "over"}
      BY <2>1, <2>3 DEF PairFits
    <3>2. \A k \in L!Kind : client'[e][k] \in {"lost", "ending", "over"}
      BY <1>5, <1>8, <2>3, <3>1
    <3> QED BY <2>3, <3>2 DEF Leaving
  <2> QED BY <1>8, <2>1, <2>2, <2>3 DEF EntryFits
<1>9. ASSUME NEW c \in L!Caller, NEW e \in L!Pair, caller'[c].pc = "closing", e = caller'[c].on
      PROVE  Leaving(e)'
  <2>1. CASE caller[c].pc = "closing" /\ caller'[c].on = caller[c].on
    <3>1. Leaving(e)
      BY <1>0, <1>9, <2>1 DEF PairsInv
    <3> QED BY <1>7, <3>1
  <2>2. CASE caller'[c].on = entry
    BY <1>8, <1>9, <2>2
  <2> QED BY <1>9, <2>1, <2>2
<1>10. EntryFits'
    BY <1>6 DEF EntryFits
<1>11. ASSUME NEW c \in L!Caller, caller'[c].pc = "closing", caller'[c].on # 0
       PROVE  Leaving(caller[c].on)'
  <2>1. caller'[c].on \in L!Pair
    BY <1>0, <1>11, CallerIs
  <2>2. PICK e \in L!Pair : e = caller'[c].on
    BY <2>1
  <2>3. Leaving(e)'
    BY <1>9, <1>11, <2>2
  <2> QED BY <2>2, <2>3 DEF Leaving
<1>12. \A p \in L!Pair : PairFits(p)'
    BY <1>7
<1>13. PairsInv'
    BY <1>10, <1>11, <1>12 DEF PairsInv
<1> QED BY <1>4, <1>6, <1>13

\* What the requests and the pairs are.
NetKinds ==
    /\ entry \in L!Pair \cup {0} /\ doomed \subseteq L!Pair
    /\ pair \in [L!Pair -> PairState]
    /\ client \in [L!Pair -> [L!Kind -> L!ClientState]]
    /\ queue \in [L!Pair -> [L!Kind -> Seq(Uses)]]
    /\ caller \in [L!Caller -> UseRecord]

\* A request awaits the pair the map holds, or opens one.
LEMMA AcquireKeeps ==
    ASSUME ConsoleInv, NEW c \in L!Caller, caller[c].pc \in {"read", "ask"}, L!Acquire(c),
           UNCHANGED <<sandbox, used>>
    PROVE  NetKinds' /\ PairsInv' /\ QueuesInv' /\ Room'
<1> USE DEF ConsoleInv
<1>0. entry \in L!Pair \cup {0} /\ doomed \subseteq L!Pair /\ 0 \notin L!Pair
    BY DEF ConsoleKinds, L!Pair
<1>1. CASE entry # 0 /\ caller' = [caller EXCEPT ![c].pc = "opening", ![c].on = entry]
           /\ UNCHANGED <<entry, pair, client, doomed, queue>>
  <2>1. PICK e \in L!Pair : e = entry
    BY <1>0, <1>1
  <2>2. CallerGoes(c, "opening", e)
    BY <1>1, <2>1, GoingOn DEF CallerPc
  <2>3. NetKinds'
    BY <1>1, <2>2 DEF NetKinds, ConsoleKinds, CallerGoes
  <2>4. NoNewCloser
    BY <2>2 DEF NoNewCloser, CallerGoes
  <2>5. pair[e] # "none" /\ e # 0
    BY <1>0, <2>1 DEF PairsInv, EntryFits
  <2>6. \A d \in L!Caller :
           \/ caller'[d] = caller[d]
           \/ /\ caller[d].pc # "queued" /\ caller'[d].pc # "queued"
              /\ caller'[d].pc = "opening" => caller'[d].on # 0 /\ pair'[caller'[d].on] # "none"
    BY <1>1, <2>2, <2>5 DEF CallerGoes
  <2>7. QueuesInv'
    BY <1>1, <2>6, QuietQueues
  <2>8. Taken' = Taken
    BY <1>1 DEF Taken
  <2>9. \A d \in L!Caller : caller'[d].pc \in {"read", "ask"} => caller[d].pc \in {"read", "ask"}
    BY <2>2 DEF CallerGoes
  <2> QED BY <1>1, <2>3, <2>4, <2>7, <2>8, <2>9, QuietPairs, QuietRoom
<1>2. ASSUME entry = 0, NEW p \in L!Pair, pair[p] = "none", entry' = p,
             pair' = [pair EXCEPT ![p] = "opening"],
             client' = [client EXCEPT ![p] = [k \in L!Kind |-> "connecting"]],
             caller' = [caller EXCEPT ![c].pc = "opening", ![c].on = p],
             UNCHANGED <<doomed, queue>>
      PROVE  NetKinds' /\ PairsInv' /\ QueuesInv' /\ Room'
  <2>1. CallerGoes(c, "opening", p)
    BY <1>2, GoingOn DEF CallerPc
  <2>2. [k \in L!Kind |-> "connecting"] \in [L!Kind -> L!ClientState]
    BY DEF L!ClientState
  <2>3. NetKinds'
    BY <1>2, <2>1, <2>2 DEF NetKinds, ConsoleKinds, CallerGoes, PairState
  <2>4. /\ pair'[p] = "opening" /\ \A k \in L!Kind : client'[p][k] = "connecting"
        /\ \A q \in L!Pair \ {p} : pair'[q] = pair[q] /\ client'[q] = client[q]
    BY <1>2 DEF ConsoleKinds
  <2>5. NoneFailed' => NoneFailed
    BY <1>2, <2>4 DEF NoneFailed
  <2>6. PairFits(p)'
    BY <1>2, <2>4 DEF PairFits
  <2>7. ASSUME NEW q \in L!Pair \ {p} PROVE PairFits(q)' /\ (Leaving(q) => Leaving(q)')
    <3>1. PairFits(q) /\ q # entry /\ q # entry'
      BY <1>0, <1>2 DEF PairsInv
    <3> QED BY <1>2, <2>4, <2>5, <3>1 DEF PairFits, Leaving
  <2>8. ~Leaving(p)
    BY <1>2 DEF Leaving
  <2>9. EntryFits'
    BY <1>2, <2>4 DEF EntryFits
  <2>10. ASSUME NEW d \in L!Caller, caller'[d].pc = "closing", caller'[d].on # 0
         PROVE  Leaving(caller[d].on)'
    <3>1. d # c /\ caller'[d] = caller[d]
      BY <2>1, <2>10 DEF CallerGoes
    <3>2. PICK q \in L!Pair : q = caller[d].on
      BY <2>10, <3>1, CallerIs
    <3>3. Leaving(q)
      BY <2>10, <3>1, <3>2 DEF PairsInv
    <3>4. Leaving(q)'
      BY <2>7, <2>8, <3>3
    <3> QED BY <3>1, <3>2, <3>4 DEF Leaving
  <2>11. PairsInv'
    BY <2>6, <2>7, <2>9, <2>10 DEF PairsInv
  <2>12. \A d \in L!Caller :
            \/ caller'[d] = caller[d]
            \/ /\ caller[d].pc # "queued" /\ caller'[d].pc # "queued"
               /\ caller'[d].pc = "opening" => caller'[d].on # 0 /\ pair'[caller'[d].on] # "none"
    BY <1>0, <2>1, <2>4 DEF CallerGoes
  <2>13. QueuesInv'
    BY <1>2, <2>4, <2>12, QuietQueues
  <2>14. Taken' = Taken \cup {p} /\ p \notin Taken
    BY <1>2, <2>4 DEF Taken
  <2>15. Busy' = Busy \ {c} /\ c \in Busy
    BY <2>1 DEF Busy, CallerGoes
  <2>16. IsFiniteSet(Taken) /\ IsFiniteSet(Busy)
    BY PairsFinite DEF Room
  <2>17. /\ Cardinality(Taken') = Cardinality(Taken) + 1
         /\ IsFiniteSet(Busy') /\ Cardinality(Busy') = Cardinality(Busy) - 1
         /\ Cardinality(Taken) \in Nat /\ Cardinality(Busy) \in Nat
    BY <2>14, <2>15, <2>16, FS_AddElement, FS_RemoveElement, FS_CardinalityType
  <2>18. Room'
    BY <2>17 DEF Room, ConsoleKinds
  <2> QED BY <2>3, <2>11, <2>13, <2>18
<1> QED BY <1>1, <1>2 DEF L!Acquire, L!net

\* A queue whose requests are all there, and once.
LEMMA QueueStands ==
    ASSUME NEW q \in L!Pair, NEW h \in L!Kind, NEW s \in Seq(Uses), queue'[q][h] = s,
           \A i \in 1..Len(s) :
              caller'[s[i]].pc = "queued" /\ caller'[s[i]].on = q /\ caller'[s[i]].kind = h,
           \A i, j \in 1..Len(s) : s[i] = s[j] => i = j
    PROVE  QueueFits(q, h)'
<1>1. \A i \in 1..Len(queue'[q][h]) :
         /\ caller'[queue'[q][h][i]].pc = "queued" /\ caller'[queue'[q][h][i]].on = q
         /\ caller'[queue'[q][h][i]].kind = h
    OBVIOUS
<1>2. \A i, j \in 1..Len(queue'[q][h]) : queue'[q][h][i] = queue'[q][h][j] => i = j
    OBVIOUS
<1> QED BY <1>1, <1>2 DEF QueueFits

\* A request takes its place in the queue of its pair.
LEMMA EnterKeeps ==
    ASSUME ConsoleInv, NEW u \in Uses, L!Enter(u)
    PROVE  ConsoleInv'
<1> USE DEF ConsoleInv
<1> DEFINE p == caller[u].on
           k == caller[u].kind
<1>0. u \in L!Caller /\ k \in L!Kind /\ p \in L!Pair \cup {0} /\ 0 \notin L!Pair
    BY CallerIs DEF L!Caller, L!Pair
<1>1. /\ caller[u].pc = "opening"
      /\ UNCHANGED <<row, sandbox, known, entry, pair, client, doomed, used, faults>>
    BY DEF L!Enter
<1>2. p \in L!Pair /\ pair[p] # "none"
    BY <1>0, <1>1 DEF QueuesInv, WaitFits
<1>3. ASSUME NEW pc \in {"queued", "idle"}, NEW on, CallerGoes(u, pc, on)
      PROVE  PairsInv' /\ Room' /\ caller' \in [L!Caller -> UseRecord]
  <2>1. NoNewCloser
    BY <1>0, <1>3 DEF NoNewCloser, CallerGoes
  <2>2. \A d \in L!Caller : caller'[d].pc \in {"read", "ask"} => caller[d].pc \in {"read", "ask"}
    BY <1>0, <1>3 DEF CallerGoes
  <2> QED BY <1>1, <1>3, <2>1, <2>2, QuietPairs, QuietRoom DEF Taken, CallerGoes
<1>4. CASE pair[p] = "open" /\ queue' = [queue EXCEPT ![p][k] = Append(@, u)] /\ L!Goes(u, "queued")
  <2>1. CallerGoes(u, "queued", p)
    BY <1>0, <1>4, Going DEF CallerPc
  <2>2. queue[p] \in [L!Kind -> Seq(Uses)] /\ queue[p][k] \in Seq(Uses)
    BY <1>0, <1>2 DEF ConsoleKinds
  <2>3. PICK a \in L!Pair, b \in L!Kind : a = p /\ b = k
    BY <1>0, <1>2
  <2> HIDE DEF p, k
  <2>4. /\ queue' \in [L!Pair -> [L!Kind -> Seq(Uses)]]
        /\ queue'[a][b] = Append(queue[a][b], u)
        /\ \A q \in L!Pair, h \in L!Kind : q # a \/ h # b => queue'[q][h] = queue[q][h]
    <3>1. queue' = [queue EXCEPT ![a] = [queue[a] EXCEPT ![b] = Append(queue[a][b], u)]]
      BY <1>4, <2>3
    <3>2. [queue[a] EXCEPT ![b] = Append(queue[a][b], u)] \in [L!Kind -> Seq(Uses)]
      BY <2>2, <2>3
    <3> QED BY <2>2, <2>3, <3>1, <3>2 DEF ConsoleKinds
  <2>5. /\ Len(queue[a][b]) \in Nat /\ Len(queue'[a][b]) = Len(queue[a][b]) + 1
        /\ queue'[a][b][Len(queue[a][b]) + 1] = u
        /\ \A i \in 1..Len(queue[a][b]) : queue'[a][b][i] = queue[a][b][i] /\ queue[a][b][i] \in L!Caller
    BY <2>2, <2>3, <2>4 DEF L!Caller
  <2>6. \A q \in L!Pair, h \in L!Kind : \A i \in 1..Len(queue[q][h]) :
           queue[q][h][i] # u /\ queue[q][h][i] \in L!Caller
    <3> SUFFICES ASSUME NEW q \in L!Pair, NEW h \in L!Kind, NEW i \in 1..Len(queue[q][h])
                 PROVE  queue[q][h][i] # u /\ queue[q][h][i] \in L!Caller
      OBVIOUS
    <3>1. queue[q][h] \in Seq(Uses) /\ QueueFits(q, h)
      BY DEF ConsoleKinds, QueuesInv
    <3> QED BY <1>1, <3>1 DEF QueueFits, L!Caller
  <2>7. /\ caller'[u].pc = "queued" /\ caller'[u].on = a /\ caller'[u].kind = b
        /\ \A d \in L!Caller \ {u} : caller'[d] = caller[d]
    BY <2>1, <2>3 DEF CallerGoes, p, k
  <2>8. QueueFits(a, b)'
    <3>1. QueueFits(a, b)
      BY DEF QueuesInv
    <3>2. \A i \in 1..Len(queue'[a][b]) : i \in 1..Len(queue[a][b]) \/ i = Len(queue[a][b]) + 1
      BY <2>5
    <3>3. PICK s \in Seq(Uses) : s = queue'[a][b]
      BY <2>4
    <3>4. PICK t \in Seq(Uses) : t = queue[a][b]
      BY <2>2, <2>3
    <3>5. /\ Len(s) = Len(t) + 1 /\ s[Len(t) + 1] = u /\ Len(t) \in Nat
          /\ \A i \in 1..Len(t) : s[i] = t[i] /\ t[i] # u /\ t[i] \in L!Caller
      BY <2>5, <2>6, <3>3, <3>4
    <3>6. /\ \A i \in 1..Len(t) :
                caller[t[i]].pc = "queued" /\ caller[t[i]].on = a /\ caller[t[i]].kind = b
          /\ \A i, j \in 1..Len(t) : t[i] = t[j] => i = j
      BY <3>1, <3>4 DEF QueueFits
    <3>7. ASSUME NEW i \in 1..Len(s)
          PROVE  caller'[s[i]].pc = "queued" /\ caller'[s[i]].on = a /\ caller'[s[i]].kind = b
      <4>1. CASE i \in 1..Len(t)
        <5>1. caller'[s[i]] = caller[t[i]]
          BY <2>7, <3>5, <4>1
        <5> QED BY <3>6, <4>1, <5>1
      <4>2. CASE i = Len(t) + 1
        BY <2>7, <3>5, <4>2
      <4> QED BY <3>5, <4>1, <4>2
    <3>8. \A i, j \in 1..Len(s) : s[i] = s[j] => i = j
      BY <3>5, <3>6
    <3> QED BY <3>3, <3>7, <3>8, QueueStands
  <2>9. ASSUME NEW q \in L!Pair, NEW h \in L!Kind, q # a \/ h # b PROVE QueueFits(q, h)'
    <3>1. QueueFits(q, h)
      BY DEF QueuesInv
    <3>2. PICK s \in Seq(Uses) : s = queue[q][h] /\ s = queue'[q][h]
      BY <2>4, <2>9 DEF ConsoleKinds
    <3>3. \A i \in 1..Len(s) :
             caller'[s[i]].pc = "queued" /\ caller'[s[i]].on = q /\ caller'[s[i]].kind = h
      <4>1. \A i \in 1..Len(s) :
               caller[s[i]].pc = "queued" /\ caller[s[i]].on = q /\ caller[s[i]].kind = h
        BY <3>1, <3>2 DEF QueueFits
      <4>2. \A i \in 1..Len(s) : s[i] # u /\ s[i] \in L!Caller
        BY <2>6, <3>2
      <4>3. \A i \in 1..Len(s) : caller'[s[i]] = caller[s[i]]
        BY <2>7, <4>2
      <4> QED BY <4>1, <4>3
    <3>4. \A i, j \in 1..Len(s) : s[i] = s[j] => i = j
      BY <3>1, <3>2 DEF QueueFits
    <3> QED BY <3>2, <3>3, <3>4, QueueStands
  <2>10. ASSUME NEW d \in L!Caller PROVE WaitFits(d)'
    <3>1. CASE d = u
      <4>1. Len(queue[a][b]) + 1 \in 1..Len(queue'[a][b])
        BY <2>5
      <4>2. a # 0
        BY <1>0
      <4> QED BY <2>5, <2>7, <3>1, <4>1, <4>2 DEF WaitFits
    <3>2. CASE d # u
      <4>1. WaitFits(d) /\ caller'[d] = caller[d]
        BY <2>7, <3>2 DEF QueuesInv
      <4>2. caller[d].on \in L!Pair \cup {0} /\ caller[d].kind \in L!Kind
        BY CallerIs
      <4>3. CASE caller[d].pc = "queued" /\ caller[d].on = a /\ caller[d].kind = b
        <5>1. PICK i \in 1..Len(queue[a][b]) : queue[a][b][i] = d
          BY <4>1, <4>3 DEF WaitFits
        <5>2. i \in 1..Len(queue'[a][b]) /\ queue'[a][b][i] = d
          BY <2>5, <5>1
        <5> QED BY <4>1, <4>3, <5>2 DEF WaitFits
      <4>4. CASE ~(caller[d].pc = "queued" /\ caller[d].on = a /\ caller[d].kind = b)
        <5>1. ASSUME caller[d].pc = "queued"
              PROVE  queue'[caller[d].on][caller[d].kind] = queue[caller[d].on][caller[d].kind]
          <6>1. caller[d].on \in L!Pair
            BY <4>1, <4>2, <5>1 DEF WaitFits
          <6> QED BY <2>4, <4>2, <4>4, <5>1, <6>1
        <5>2. caller[d].pc = "opening" => pair'[caller[d].on] # "none"
          BY <1>1, <4>1 DEF WaitFits
        <5> QED BY <4>1, <5>1, <5>2 DEF WaitFits
      <4> QED BY <4>3, <4>4
    <3> QED BY <3>1, <3>2
  <2>11. QueuesInv'
    BY <2>8, <2>9, <2>10 DEF QueuesInv
  <2>12. ConsoleKinds'
    BY <1>1, <1>3, <2>1, <2>4 DEF ConsoleKinds
  <2> QED BY <1>3, <2>1, <2>11, <2>12
<1>5. CASE L!Ends(u) /\ UNCHANGED queue
  <2>1. CallerGoes(u, "idle", 0)
    BY <1>0, <1>5, Ending
  <2>2. \A d \in L!Caller :
           \/ caller'[d] = caller[d]
           \/ /\ caller[d].pc # "queued" /\ caller'[d].pc # "queued"
              /\ caller'[d].pc = "opening" => caller'[d].on # 0 /\ pair'[caller'[d].on] # "none"
    BY <1>1, <2>1 DEF CallerGoes
  <2>3. QueuesInv'
    BY <1>1, <1>5, <2>2, QuietQueues
  <2>4. ConsoleKinds'
    BY <1>1, <1>3, <1>5, <2>1 DEF ConsoleKinds
  <2> QED BY <1>3, <2>1, <2>3, <2>4
<1> QED BY <1>4, <1>5 DEF L!Enter

\* The request at the head of its queue is done, and the next has its turn.
LEMMA WorkKeeps ==
    ASSUME ConsoleInv, NEW u \in Uses, L!Work(u)
    PROVE  ConsoleInv'
<1> USE DEF ConsoleInv
<1> DEFINE p == caller[u].on
           k == caller[u].kind
<1>0. u \in L!Caller /\ k \in L!Kind /\ p \in L!Pair \cup {0} /\ 0 \notin L!Pair
    BY CallerIs DEF L!Caller, L!Pair
<1>1. /\ caller[u].pc = "queued" /\ Head(queue[p][k]) = u
      /\ queue' = [queue EXCEPT ![p][k] = Tail(@)] /\ L!Ends(u)
      /\ UNCHANGED <<row, sandbox, known, entry, pair, client, doomed, used, faults>>
    BY DEF L!Work
<1>2. p \in L!Pair /\ \E i \in 1..Len(queue[p][k]) : queue[p][k][i] = u
    BY <1>0, <1>1 DEF QueuesInv, WaitFits
<1>3. CallerGoes(u, "idle", 0)
    BY <1>0, <1>1, Ending
<1>4. PairsInv' /\ Room' /\ caller' \in [L!Caller -> UseRecord]
  <2>1. NoNewCloser
    BY <1>0, <1>3 DEF NoNewCloser, CallerGoes
  <2>2. \A d \in L!Caller : caller'[d].pc \in {"read", "ask"} => caller[d].pc \in {"read", "ask"}
    BY <1>0, <1>3 DEF CallerGoes
  <2> QED BY <1>1, <1>3, <2>1, <2>2, QuietPairs, QuietRoom DEF Taken, CallerGoes
<1>5. PICK a \in L!Pair, b \in L!Kind : a = p /\ b = k
    BY <1>0, <1>2
<1>6. PICK t \in Seq(Uses) : t = queue[a][b]
    BY DEF ConsoleKinds
<1>7. /\ Len(t) \in Nat /\ t # <<>> /\ t[1] = u
      /\ Tail(t) \in Seq(Uses) /\ Len(Tail(t)) = Len(t) - 1
      /\ \A i \in 1..Len(Tail(t)) : Tail(t)[i] = t[i + 1]
  <2>1. t # <<>> /\ Head(t) = u
    BY <1>1, <1>2, <1>5, <1>6
  <2> QED BY <2>1
<1>8. caller[u].on = a /\ caller[u].kind = b
    BY <1>5
<1>9. caller'[u].pc = "idle" /\ \A d \in L!Caller \ {u} : caller'[d] = caller[d]
    BY <1>3 DEF CallerGoes
<1>10. /\ \A i \in 1..Len(t) :
             t[i] \in L!Caller /\ caller[t[i]].pc = "queued" /\ caller[t[i]].on = a /\ caller[t[i]].kind = b
       /\ \A i, j \in 1..Len(t) : t[i] = t[j] => i = j
  <2>1. QueueFits(a, b)
    BY DEF QueuesInv
  <2> QED BY <1>6, <2>1 DEF QueueFits, L!Caller
<1>11. /\ queue' \in [L!Pair -> [L!Kind -> Seq(Uses)]]
       /\ queue'[a][b] = Tail(t)
       /\ \A q \in L!Pair, h \in L!Kind : q # a \/ h # b => queue'[q][h] = queue[q][h]
  <2>1. queue' = [queue EXCEPT ![a] = [queue[a] EXCEPT ![b] = Tail(t)]]
    BY <1>1, <1>5, <1>6
  <2>2. [queue[a] EXCEPT ![b] = Tail(t)] \in [L!Kind -> Seq(Uses)]
    BY <1>7 DEF ConsoleKinds
  <2> QED BY <2>1, <2>2 DEF ConsoleKinds
<1> HIDE DEF p, k
<1>12. QueueFits(a, b)'
  <2>1. PICK s \in Seq(Uses) : s = Tail(t)
    BY <1>7
  <2>2. Len(s) = Len(t) - 1 /\ \A i \in 1..Len(s) : s[i] = t[i + 1]
    BY <1>7, <2>1
  <2>3. \A i \in 1..Len(s) : i + 1 \in 1..Len(t) /\ t[i + 1] # u
    BY <1>7, <1>10, <2>2
  <2>4. \A i \in 1..Len(s) : caller'[s[i]] = caller[t[i + 1]]
    BY <1>9, <1>10, <2>2, <2>3
  <2>5. \A i \in 1..Len(s) : caller'[s[i]].pc = "queued" /\ caller'[s[i]].on = a /\ caller'[s[i]].kind = b
    BY <1>10, <2>3, <2>4
  <2>6. \A i, j \in 1..Len(s) : s[i] = s[j] => i = j
    <3> SUFFICES ASSUME NEW i \in 1..Len(s), NEW j \in 1..Len(s), s[i] = s[j] PROVE i = j
      OBVIOUS
    <3>1. t[i + 1] = t[j + 1] /\ i + 1 \in 1..Len(t) /\ j + 1 \in 1..Len(t)
      BY <2>2, <2>3
    <3>2. i + 1 = j + 1
      BY <1>10, <3>1
    <3> QED BY <3>2
  <2> QED BY <1>11, <2>1, <2>5, <2>6, QueueStands
<1>13. ASSUME NEW q \in L!Pair, NEW h \in L!Kind, q # a \/ h # b PROVE QueueFits(q, h)'
  <2>1. QueueFits(q, h)
    BY DEF QueuesInv
  <2>2. PICK s \in Seq(Uses) : s = queue[q][h] /\ s = queue'[q][h]
    BY <1>11, <1>13 DEF ConsoleKinds
  <2>3. \A i \in 1..Len(s) : /\ s[i] \in L!Caller
                             /\ caller[s[i]].pc = "queued" /\ caller[s[i]].on = q /\ caller[s[i]].kind = h
    BY <2>1, <2>2 DEF QueueFits, L!Caller
  <2>4. \A i \in 1..Len(s) : caller'[s[i]] = caller[s[i]]
    BY <1>8, <1>9, <1>13, <2>3
  <2>5. \A i \in 1..Len(s) : caller'[s[i]].pc = "queued" /\ caller'[s[i]].on = q /\ caller'[s[i]].kind = h
    BY <2>3, <2>4
  <2>6. \A i, j \in 1..Len(s) : s[i] = s[j] => i = j
    BY <2>1, <2>2 DEF QueueFits
  <2> QED BY <2>2, <2>5, <2>6, QueueStands
<1>14. ASSUME NEW d \in L!Caller PROVE WaitFits(d)'
  <2>1. CASE d = u
    BY <1>9, <2>1 DEF WaitFits
  <2>2. CASE d # u
    <3>1. WaitFits(d) /\ caller'[d] = caller[d]
      BY <1>9, <2>2 DEF QueuesInv
    <3>2. caller[d].on \in L!Pair \cup {0} /\ caller[d].kind \in L!Kind
      BY CallerIs
    <3>3. CASE caller[d].pc = "queued" /\ caller[d].on = a /\ caller[d].kind = b
      <4>1. PICK i \in 1..Len(t) : t[i] = d
        BY <1>6, <3>1, <3>3 DEF WaitFits
      <4>2. i # 1 /\ i \in Nat
        BY <1>7, <2>2, <4>1
      <4>3. PICK j \in 1..Len(Tail(t)) : i = j + 1
        <5>1. i - 1 \in 1..Len(Tail(t)) /\ i = (i - 1) + 1
          BY <1>7, <4>1, <4>2
        <5> QED BY <5>1
      <4>4. Tail(t)[j] = d
        BY <1>7, <4>1, <4>3
      <4>5. \E m \in 1..Len(queue'[a][b]) : queue'[a][b][m] = d
        BY <1>11, <4>3, <4>4
      <4> QED BY <3>1, <3>3, <4>5 DEF WaitFits
    <3>4. CASE ~(caller[d].pc = "queued" /\ caller[d].on = a /\ caller[d].kind = b)
      <4>1. pair' = pair /\ 0 \notin L!Pair
        BY <1>0, <1>1
      <4>2. CASE caller[d].pc = "queued"
        <5>1. PICK q \in L!Pair, h \in L!Kind : q = caller[d].on /\ h = caller[d].kind
          BY <3>1, <3>2, <4>2 DEF WaitFits
        <5>2. queue'[q][h] = queue[q][h]
          BY <1>11, <3>4, <4>2, <5>1
        <5> QED BY <3>1, <4>2, <5>1, <5>2 DEF WaitFits
      <4>3. CASE caller[d].pc # "queued"
        BY <3>1, <4>1, <4>3 DEF WaitFits
      <4> QED BY <4>2, <4>3
    <3> QED BY <3>3, <3>4
  <2> QED BY <2>1, <2>2
<1>15. QueuesInv'
    BY <1>12, <1>13, <1>14 DEF QueuesInv
<1>16. ConsoleKinds'
    BY <1>1, <1>4, <1>11 DEF ConsoleKinds
<1> QED BY <1>4, <1>15, <1>16

-----------------------------------------------------------------------------
(***************************************************************************)
(* Connections: the remaining steps                                        *)
(***************************************************************************)

\* A caller goes on without a pair or a queue.
LEMMA MoveKeeps ==
    ASSUME ConsoleInv, NEW c \in L!Caller, NEW pc \in {"idle", "ask", "release"}, NEW on,
           CallerGoes(c, pc, on), caller[c].pc # "queued",
           pc = "ask" => caller[c].pc = "read",
           UNCHANGED <<sandbox, entry, pair, client, doomed, queue, used>>,
           row' \in BOOLEAN, known' \in BOOLEAN, faults' \in 0..MaxFaults
    PROVE  ConsoleInv'
<1> USE DEF ConsoleInv
<1>1. NoNewCloser
    BY DEF NoNewCloser, CallerGoes
<1>2. \A d \in L!Caller : caller'[d] = caller[d] \/ (caller[d].pc # "queued" /\ caller'[d].pc = pc)
    BY DEF CallerGoes
<1>3. QueuesInv'
    BY <1>2, QuietQueues
<1>4. \A d \in L!Caller : caller'[d].pc \in {"read", "ask"} => caller[d].pc \in {"read", "ask"}
    BY DEF CallerGoes
<1>5. Room'
    BY <1>4, QuietRoom DEF Taken
<1>6. ConsoleKinds'
    BY DEF ConsoleKinds, CallerGoes
<1> QED BY <1>1, <1>3, <1>5, <1>6, QuietPairs

\* A fault stays within its bound.
LEMMA FaultBounds == ConsoleKinds /\ L!Fault => faults' \in 0..MaxFaults
<1>1. MaxFaults \in Nat
    BY PartsAssumption DEF PartsAssumption, L!LabConsoleAssumption
<1> QED BY <1>1 DEF ConsoleKinds, L!Fault

LEMMA UseKeeps ==
    ASSUME ConsoleInv, NEW u \in Uses, NEW k \in L!Kind, L!Use(u, k)
    PROVE  ConsoleInv'
<1> USE DEF ConsoleInv
<1> DEFINE r == [pc |-> "read", kind |-> k, on |-> 0]
<1>1. /\ caller[u].pc = "idle" /\ used' = used + 1 /\ used < MaxUses
      /\ caller' = [caller EXCEPT ![u] = r]
      /\ UNCHANGED <<row, sandbox, known, entry, pair, client, doomed, queue, faults>>
    BY DEF L!Use, L!net
<1>2. r \in UseRecord /\ r.pc = "read" /\ u \in L!Caller
    BY DEF UseRecord, CallerPc, L!Caller
<1> HIDE DEF r
<1>3. /\ caller' \in [L!Caller -> UseRecord] /\ caller'[u].pc = "read"
      /\ \A d \in L!Caller \ {u} : caller'[d] = caller[d]
    BY <1>1, <1>2 DEF ConsoleKinds
<1>4. NoNewCloser
    BY <1>3 DEF NoNewCloser
<1>5. \A d \in L!Caller : caller'[d] = caller[d] \/ (caller[d].pc # "queued" /\ caller'[d].pc = "read")
    BY <1>1, <1>3
<1>6. QueuesInv'
    BY <1>1, <1>5, QuietQueues
<1>7. Busy' = Busy \cup {u} /\ u \notin Busy /\ Taken' = Taken
    BY <1>1, <1>2, <1>3 DEF Busy, Taken
<1>8. IsFiniteSet(Busy) /\ IsFiniteSet(Taken) /\ used \in 0..MaxUses /\ MaxUses \in Nat
    BY PairsFinite DEF Room, ConsoleKinds
<1>9. /\ IsFiniteSet(Busy') /\ Cardinality(Busy') = Cardinality(Busy) + 1
      /\ Cardinality(Busy) \in Nat /\ Cardinality(Taken) \in Nat
    BY <1>7, <1>8, FS_AddElement, FS_CardinalityType
<1>10. Room'
    BY <1>1, <1>7, <1>8, <1>9 DEF Room
<1>11. ConsoleKinds'
    BY <1>1, <1>3, <1>8 DEF ConsoleKinds
<1> QED BY <1>1, <1>4, <1>6, <1>10, <1>11, QuietPairs

LEMMA ReadKeeps ==
    ASSUME ConsoleInv, NEW u \in Uses, L!Read(u)
    PROVE  ConsoleInv'
<1> USE DEF ConsoleInv
<1>1. u \in L!Caller /\ caller[u].pc = "read" /\ UNCHANGED <<row, sandbox, known, used, faults>>
    BY DEF L!Caller, L!Read
<1>2. CASE L!Acquire(u)
  <2>1. NetKinds' /\ PairsInv' /\ QueuesInv' /\ Room'
    BY <1>1, <1>2, AcquireKeeps
  <2> QED BY <1>1, <2>1 DEF NetKinds, ConsoleKinds
<1>3. CASE L!Goes(u, "ask") /\ UNCHANGED <<entry, pair, client, doomed, queue>>
  <2>1. CallerGoes(u, "ask", caller[u].on)
    BY <1>1, <1>3, Going DEF CallerPc
  <2> QED BY <1>1, <1>3, <2>1, MoveKeeps DEF ConsoleKinds
<1> QED BY <1>2, <1>3 DEF L!Read, L!net

LEMMA AskKeeps ==
    ASSUME ConsoleInv, NEW u \in Uses, L!Ask(u)
    PROVE  ConsoleInv'
<1> USE DEF ConsoleInv
<1>1. u \in L!Caller /\ caller[u].pc = "ask" /\ UNCHANGED <<row, sandbox, used>>
    BY DEF L!Caller, L!Ask
<1>2. CASE known' = TRUE /\ L!Acquire(u) /\ UNCHANGED faults
  <2>1. NetKinds' /\ PairsInv' /\ QueuesInv' /\ Room'
    BY <1>1, <1>2, AcquireKeeps
  <2> QED BY <1>1, <1>2, <2>1 DEF NetKinds, ConsoleKinds
<1>3. CASE L!Goes(u, "release") /\ UNCHANGED <<known, entry, pair, client, doomed, queue, faults>>
  <2>1. CallerGoes(u, "release", caller[u].on)
    BY <1>1, <1>3, Going DEF CallerPc
  <2> QED BY <1>1, <1>3, <2>1, MoveKeeps DEF ConsoleKinds
<1>4. CASE L!Fault /\ L!Ends(u) /\ UNCHANGED <<known, entry, pair, client, doomed, queue>>
  <2>1. CallerGoes(u, "idle", 0)
    BY <1>1, <1>4, Ending
  <2> QED BY <1>1, <1>4, <2>1, MoveKeeps, FaultBounds DEF ConsoleKinds
<1> QED BY <1>2, <1>3, <1>4 DEF L!Ask, L!net

LEMMA BeginFinishKeeps == ConsoleInv /\ L!BeginFinish => ConsoleInv'
<1> SUFFICES ASSUME ConsoleInv, L!BeginFinish PROVE ConsoleInv'
    OBVIOUS
<1> USE DEF ConsoleInv
<1>1. /\ "finish" \in L!Caller /\ caller["finish"].pc = "idle" /\ L!Goes("finish", "release")
      /\ UNCHANGED <<row, sandbox, known, entry, pair, client, doomed, queue, used, faults>>
    BY DEF L!Caller, L!BeginFinish, L!net
<1>2. CallerGoes("finish", "release", caller["finish"].on)
    BY <1>1, Going DEF CallerPc
<1> QED BY <1>1, <1>2, MoveKeeps DEF ConsoleKinds

LEMMA ForgetKeeps ==
    ASSUME ConsoleInv, NEW c \in L!Caller, L!Forget(c)
    PROVE  ConsoleInv'
<1> USE DEF ConsoleInv
<1>1. /\ caller[c].pc = "closing" /\ known' = FALSE /\ row' = FALSE /\ L!Ends(c)
      /\ UNCHANGED <<sandbox, entry, pair, client, doomed, queue, used, faults>>
    BY DEF L!Forget, L!net
<1>2. CallerGoes(c, "idle", 0)
    BY <1>1, Ending
<1> QED BY <1>1, <1>2, MoveKeeps DEF ConsoleKinds

LEMMA ReleaseKeeps ==
    ASSUME ConsoleInv, NEW c \in L!Caller, L!Release(c)
    PROVE  ConsoleInv'
<1> USE DEF ConsoleInv
<1>1. /\ caller[c].pc = "release" /\ L!Released(client) /\ entry' = 0
      /\ caller' = [caller EXCEPT ![c].pc = "closing", ![c].on = entry]
      /\ UNCHANGED <<row, sandbox, known, pair, queue, used, faults>>
    BY DEF L!Release, L!Released
<1>2. CallerGoes(c, "closing", entry)
    BY <1>1, GoingOn DEF CallerPc, ConsoleKinds
<1>3. \A d \in L!Caller : caller'[d].pc = "closing" =>
         \/ caller[d].pc = "closing" /\ caller'[d].on = caller[d].on
         \/ caller'[d].on = entry
    BY <1>2 DEF CallerGoes
<1>4. client \in [L!Pair -> [L!Kind -> L!ClientState]]
    BY DEF ConsoleKinds
<1>5. PairsInv' /\ client' \in [L!Pair -> [L!Kind -> L!ClientState]] /\ doomed' \subseteq L!Pair
    BY <1>1, <1>3, <1>4, ReleasedKeeps
<1>6. \A d \in L!Caller : caller'[d] = caller[d] \/ (caller[d].pc # "queued" /\ caller'[d].pc = "closing")
    BY <1>1, <1>2 DEF CallerGoes
<1>7. QueuesInv'
    BY <1>1, <1>6, QuietQueues
<1>8. Room'
    BY <1>1, <1>6, QuietRoom DEF Taken
<1>9. ConsoleKinds'
    BY <1>1, <1>2, <1>5 DEF ConsoleKinds, CallerGoes
<1> QED BY <1>5, <1>7, <1>8, <1>9

LEMMA EmitsKeeps ==
    ASSUME ConsoleInv, NEW p \in L!Pair, NEW k \in L!Kind, L!Emits(p, k)
    PROVE  ConsoleInv'
<1> USE DEF ConsoleInv
<1> DEFINE told == IF client[p][k] = "lost" THEN "ending" ELSE "over"
           clients == [client EXCEPT ![p] = [client[p] EXCEPT ![k] = told]]
<1>1. /\ client[p][k] \in {"lost", "ending"} /\ pair[p] # "opening"
      /\ L!Released(clients) /\ entry' = 0
      /\ UNCHANGED <<row, sandbox, known, pair, queue, caller, used, faults>>
    BY DEF L!Emits, L!Released
<1>2. told \in L!ClientState
    BY DEF L!ClientState
<1>3. [client[p] EXCEPT ![k] = told] \in [L!Kind -> L!ClientState]
    BY <1>2 DEF ConsoleKinds
<1>4. /\ clients \in [L!Pair -> [L!Kind -> L!ClientState]]
      /\ \A q \in L!Pair, h \in L!Kind :
            clients[q][h] = IF q = p /\ h = k THEN told ELSE client[q][h]
    BY <1>3 DEF ConsoleKinds
<1>5. \A q \in L!Pair, h \in L!Kind :
         \/ clients[q][h] = client[q][h]
         \/ client[q][h] = "lost" /\ clients[q][h] = "ending"
         \/ client[q][h] = "ending" /\ clients[q][h] = "over" /\ pair[q] # "opening"
    BY <1>1, <1>4
<1> HIDE DEF clients
<1>6. PairsInv' /\ client' \in [L!Pair -> [L!Kind -> L!ClientState]] /\ doomed' \subseteq L!Pair
    BY <1>1, <1>4, <1>5, ReleasedKeeps
<1>7. QueuesInv'
    BY <1>1, QuietQueues
<1>8. Room'
    BY <1>1, QuietRoom DEF Taken
<1>9. ConsoleKinds'
    BY <1>1, <1>6 DEF ConsoleKinds
<1> QED BY <1>6, <1>7, <1>8, <1>9

LEMMA OpenedStep ==
    ASSUME ConsoleInv, NEW p \in L!Pair, L!Opened(p)
    PROVE  ConsoleInv'
<1> USE DEF ConsoleInv
<1>1. /\ pair[p] = "opening" /\ pair' = [pair EXCEPT ![p] = "open"] /\ doomed' = doomed \ {p}
      /\ UNCHANGED <<row, sandbox, known, entry, queue, caller, used, faults>>
    BY DEF L!Opened
<1>2. PairsInv'
    BY OpenedKeeps
<1>3. L!Closed(client[p]) \in [L!Kind -> L!ClientState]
    BY DEF L!Closed, L!ClientState, ConsoleKinds
<1> HIDE DEF L!Closed
<1>4. client' \in [L!Pair -> [L!Kind -> L!ClientState]]
    BY <1>3 DEF ConsoleKinds, L!Opened
<1>5. pair' \in [L!Pair -> PairState] /\ \A q \in L!Pair : pair[q] = "none" <=> pair'[q] = "none"
    BY <1>1 DEF ConsoleKinds, PairState
<1>6. QueuesInv'
    BY <1>1, <1>5, QuietQueues
<1>7. Taken' = Taken
    BY <1>5 DEF Taken
<1>8. Room'
    BY <1>1, <1>7, QuietRoom
<1>9. ConsoleKinds'
    BY <1>1, <1>4, <1>5 DEF ConsoleKinds
<1> QED BY <1>2, <1>6, <1>8, <1>9

LEMMA OpenFailsStep ==
    ASSUME ConsoleInv, NEW p \in L!Pair, L!OpenFails(p)
    PROVE  ConsoleInv'
<1> USE DEF ConsoleInv
<1>1. /\ pair[p] = "opening" /\ pair' = [pair EXCEPT ![p] = "failed"] /\ doomed' = doomed \ {p}
      /\ entry' = 0
      /\ UNCHANGED <<row, sandbox, known, client, queue, caller, used, faults>>
    BY DEF L!OpenFails
<1>2. PairsInv'
    BY OpenFailsKeeps
<1>3. pair' \in [L!Pair -> PairState] /\ \A q \in L!Pair : pair[q] = "none" <=> pair'[q] = "none"
    BY <1>1 DEF ConsoleKinds, PairState
<1>4. QueuesInv'
    BY <1>1, <1>3, QuietQueues
<1>5. Taken' = Taken
    BY <1>3 DEF Taken
<1>6. Room'
    BY <1>1, <1>5, QuietRoom
<1>7. ConsoleKinds'
    BY <1>1, <1>3 DEF ConsoleKinds
<1> QED BY <1>2, <1>4, <1>6, <1>7

\* A client connects or cannot, or is lost with its connection or its sandbox.
LEMMA ClientsStep ==
    ASSUME ConsoleInv, UNCHANGED <<row, known, entry, pair, doomed, queue, caller, used>>,
           sandbox' \in BOOLEAN, faults' \in 0..MaxFaults,
           client' \in [L!Pair -> [L!Kind -> L!ClientState]],
           \A p \in L!Pair, k \in L!Kind :
              /\ \/ client'[p][k] = client[p][k]
                 \/ client[p][k] = "connecting" /\ client'[p][k] \in {"up", "ending"}
                 \/ client[p][k] = "up" /\ client'[p][k] = "lost"
              /\ client'[p][k] = "up" => sandbox'
    PROVE  ConsoleInv'
<1> USE DEF ConsoleInv
<1>1. PairsInv'
    BY ClientsKeep
<1>2. QueuesInv'
    BY QuietQueues
<1>3. Room'
    BY QuietRoom DEF Taken
<1>4. ConsoleKinds'
    BY DEF ConsoleKinds
<1> QED BY <1>1, <1>2, <1>3, <1>4

\* One client changes.
LEMMA ClientGoes ==
    ASSUME ConsoleKinds, NEW p \in L!Pair, NEW k \in L!Kind, NEW to \in L!ClientState,
           client' = [client EXCEPT ![p][k] = to]
    PROVE  /\ client' \in [L!Pair -> [L!Kind -> L!ClientState]]
           /\ \A q \in L!Pair, h \in L!Kind :
                 client'[q][h] = IF q = p /\ h = k THEN to ELSE client[q][h]
<1>1. client' = [client EXCEPT ![p] = [client[p] EXCEPT ![k] = to]]
    OBVIOUS
<1>2. [client[p] EXCEPT ![k] = to] \in [L!Kind -> L!ClientState]
    BY DEF ConsoleKinds
<1> QED BY <1>1, <1>2 DEF ConsoleKinds

LEMMA UpInSandbox ==
    ASSUME ConsoleInv, NEW p \in L!Pair, NEW k \in L!Kind, client[p][k] = "up" PROVE sandbox
    BY DEF ConsoleInv, PairsInv, PairFits

LEMMA ConnectsKeeps ==
    ASSUME ConsoleInv, NEW p \in L!Pair, NEW k \in L!Kind, L!Connects(p, k)
    PROVE  ConsoleInv'
<1>1. /\ client[p][k] = "connecting" /\ ConsoleKinds
      /\ UNCHANGED <<row, sandbox, known, entry, pair, doomed, queue, caller, used>>
    BY DEF L!Connects, ConsoleInv
<1>2. \E to \in {"up", "ending"} :
         client' = [client EXCEPT ![p][k] = to] /\ (to = "up" => sandbox)
    BY DEF L!Connects
<1>3. PICK to \in {"up", "ending"} :
         client' = [client EXCEPT ![p][k] = to] /\ (to = "up" => sandbox)
    BY <1>2
<1>4. faults' \in 0..MaxFaults
  <2>1. L!Fault \/ faults' = faults
    BY DEF L!Connects
  <2> QED BY <1>1, <2>1, FaultBounds DEF ConsoleKinds
<1>5. /\ client' \in [L!Pair -> [L!Kind -> L!ClientState]]
      /\ \A q \in L!Pair, h \in L!Kind :
            client'[q][h] = IF q = p /\ h = k THEN to ELSE client[q][h]
  <2>1. to \in L!ClientState
    BY DEF L!ClientState
  <2> QED BY <1>1, <1>3, <2>1, ClientGoes
<1>6. \A q \in L!Pair, h \in L!Kind : client'[q][h] = "up" => sandbox'
    BY <1>1, <1>3, <1>5, UpInSandbox
<1>7. sandbox' \in BOOLEAN
    BY <1>1 DEF ConsoleKinds
<1> QED BY <1>1, <1>4, <1>5, <1>6, <1>7, ClientsStep

LEMMA LoseKeeps ==
    ASSUME ConsoleInv, NEW p \in L!Pair, NEW k \in L!Kind, L!Lose(p, k)
    PROVE  ConsoleInv'
<1>1. /\ client[p][k] = "up" /\ L!Fault /\ client' = [client EXCEPT ![p][k] = "lost"]
      /\ ConsoleKinds
      /\ UNCHANGED <<row, sandbox, known, entry, pair, doomed, queue, caller, used>>
    BY DEF L!Lose, ConsoleInv
<1>2. /\ client' \in [L!Pair -> [L!Kind -> L!ClientState]]
      /\ \A q \in L!Pair, h \in L!Kind :
            client'[q][h] = IF q = p /\ h = k THEN "lost" ELSE client[q][h]
  <2>1. PICK to \in L!ClientState : to = "lost" /\ client' = [client EXCEPT ![p][k] = to]
    BY <1>1 DEF L!ClientState
  <2>2. ConsoleKinds
    BY <1>1
  <2>3. /\ client' \in [L!Pair -> [L!Kind -> L!ClientState]]
        /\ \A q \in L!Pair, h \in L!Kind :
              client'[q][h] = IF q = p /\ h = k THEN to ELSE client[q][h]
    BY <2>1, <2>2, ClientGoes
  <2> QED BY <2>1, <2>3
<1>3. \A q \in L!Pair, h \in L!Kind : client'[q][h] = "up" => sandbox'
    BY <1>1, <1>2, UpInSandbox
<1>4. sandbox' \in BOOLEAN /\ faults' \in 0..MaxFaults
    BY <1>1, FaultBounds DEF ConsoleKinds
<1> QED BY <1>1, <1>2, <1>3, <1>4, ClientsStep

LEMMA SandboxGoesKeeps == ConsoleInv /\ L!SandboxGoes => ConsoleInv'
<1> SUFFICES ASSUME ConsoleInv, L!SandboxGoes PROVE ConsoleInv'
    OBVIOUS
<1>1. /\ sandbox' = FALSE /\ ConsoleKinds
      /\ client' = [p \in L!Pair |-> [k \in L!Kind |->
                      IF client[p][k] = "up" THEN "lost" ELSE client[p][k]]]
      /\ UNCHANGED <<row, known, entry, pair, doomed, queue, caller, used, faults>>
    BY DEF L!SandboxGoes, ConsoleInv
<1>2. /\ client' \in [L!Pair -> [L!Kind -> L!ClientState]]
      /\ \A p \in L!Pair, k \in L!Kind :
            client'[p][k] = IF client[p][k] = "up" THEN "lost" ELSE client[p][k]
    BY <1>1 DEF ConsoleKinds, L!ClientState
<1>3. faults' \in 0..MaxFaults
    BY <1>1 DEF ConsoleKinds
<1> QED BY <1>1, <1>2, <1>3, ClientsStep

-----------------------------------------------------------------------------
(***************************************************************************)
(* Connections: the result                                                 *)
(***************************************************************************)
LEMMA ConsoleStart == L!Init => ConsoleInv
<1> SUFFICES ASSUME L!Init PROVE ConsoleInv
    OBVIOUS
<1>1. MaxUses \in Nat /\ MaxFaults \in Nat
    BY PartsAssumption DEF PartsAssumption, L!LabConsoleAssumption
<1>2. ConsoleKinds
  <2>1. pair \in [L!Pair -> PairState] /\ client \in [L!Pair -> [L!Kind -> L!ClientState]]
    BY DEF L!Init, PairState, L!ClientState
  <2>2. queue \in [L!Pair -> [L!Kind -> Seq(Uses)]]
    BY DEF L!Init
  <2>3. [pc |-> "idle", kind |-> "app", on |-> 0] \in UseRecord
    BY DEF UseRecord, CallerPc, L!Kind
  <2>4. caller \in [L!Caller -> UseRecord]
    BY <2>3 DEF L!Init
  <2> QED BY <1>1, <2>1, <2>2, <2>4 DEF L!Init, ConsoleKinds
<1>3. /\ \A p \in L!Pair, k \in L!Kind :
            pair[p] = "none" /\ client[p][k] = "none" /\ queue[p][k] = <<>>
      /\ \A c \in L!Caller : caller[c].pc = "idle"
      /\ entry = 0 /\ used = 0
    BY DEF L!Init
<1>4. PairsInv
  <2>1. ASSUME NEW p \in L!Pair PROVE PairFits(p)
    <3>1. pair[p] = "none"
      BY DEF L!Init
    <3> QED BY <1>3, <3>1 DEF PairFits
  <2> QED BY <1>3, <2>1 DEF PairsInv, EntryFits
<1>5. QueuesInv
    BY <1>3 DEF QueuesInv, QueueFits, WaitFits
<1>6. Room
  <2>1. Busy = {} /\ Taken = {}
    BY <1>3 DEF L!Init, Busy, Taken
  <2> QED BY <1>3, <2>1, FS_EmptySet DEF Room
<1> QED BY <1>2, <1>4, <1>5, <1>6 DEF ConsoleInv

LEMMA ConsoleStep == ConsoleInv /\ [L!Next]_(L!vars) => ConsoleInv'
<1> SUFFICES ASSUME ConsoleInv, [L!Next]_(L!vars) PROVE ConsoleInv'
    OBVIOUS
<1>1. CASE L!Settles
  <2>1. CASE \E p \in L!Pair : L!Opened(p) \/ L!OpenFails(p)
    BY <2>1, OpenedStep, OpenFailsStep
  <2>2. CASE \E p \in L!Pair, k \in L!Kind : L!Connects(p, k) \/ L!Emits(p, k)
    BY <2>2, ConnectsKeeps, EmitsKeeps
  <2>3. CASE \E u \in Uses : L!Read(u) \/ L!Ask(u) \/ L!Enter(u) \/ L!Work(u)
    BY <2>3, ReadKeeps, AskKeeps, EnterKeeps, WorkKeeps
  <2>4. CASE \E c \in L!Caller : L!Release(c) \/ L!Forget(c)
    BY <2>4, ReleaseKeeps, ForgetKeeps
  <2> QED BY <1>1, <2>1, <2>2, <2>3, <2>4 DEF L!Settles
<1>2. CASE \E u \in Uses, k \in L!Kind : L!Use(u, k)
    BY <1>2, UseKeeps
<1>3. CASE L!BeginFinish
    BY <1>3, BeginFinishKeeps
<1>4. CASE L!SandboxGoes
    BY <1>4, SandboxGoesKeeps
<1>5. CASE \E p \in L!Pair, k \in L!Kind : L!Lose(p, k)
    BY <1>5, LoseKeeps
<1>6. CASE UNCHANGED L!vars
  <2>1. UNCHANGED <<row, sandbox, known, entry, pair, client, doomed, queue, caller, used, faults>>
    BY <1>6 DEF L!vars, L!net
  <2>2. \A p \in L!Pair, k \in L!Kind : client'[p][k] = "up" => sandbox'
    BY <2>1, UpInSandbox
  <2>3. /\ sandbox' \in BOOLEAN /\ faults' \in 0..MaxFaults
        /\ client' \in [L!Pair -> [L!Kind -> L!ClientState]]
    BY <2>1 DEF ConsoleInv, ConsoleKinds
  <2> QED BY <2>1, <2>2, <2>3, ClientsStep
<1> QED BY <1>1, <1>2, <1>3, <1>4, <1>5, <1>6 DEF L!Next

\* Once everything has settled, nobody is left waiting: whoever awaits a pair
\* awaits one that is there, the head of a queue can always go, and a pair
\* that is to be closed is.
LEMMA NobodyWaits ==
    ASSUME ConsoleInv, L!Settled, NEW c \in L!Caller
    PROVE  caller[c].pc = "idle"
<1> USE DEF ConsoleInv
<1>1. /\ \A p \in L!Pair : pair[p] # "opening"
      /\ \A p \in L!Pair, k \in L!Kind : client[p][k] \notin {"connecting", "lost", "ending"}
      /\ \A d \in L!Caller : ~L!MayGo(d)
    BY DEF L!Settled
<1>2. caller[c].pc \in CallerPc /\ caller[c].kind \in L!Kind /\ caller[c].on \in L!Pair \cup {0}
    BY CallerIs
<1>3. caller[c].pc \notin {"read", "ask"}
  <2> SUFFICES ASSUME caller[c].pc \in {"read", "ask"} PROVE FALSE
    OBVIOUS
  <2>1. L!MayAcquire
    BY RoomToOpen DEF L!MayAcquire
  <2> QED BY <1>1, <2>1 DEF L!MayGo
<1>4. caller[c].pc # "opening"
  <2> SUFFICES ASSUME caller[c].pc = "opening" PROVE FALSE
    OBVIOUS
  <2>1. caller[c].on # 0 /\ pair[caller[c].on] # "none"
    BY DEF QueuesInv, WaitFits
  <2>2. pair[caller[c].on] \in {"open", "failed"}
    BY <1>1, <1>2, <2>1 DEF ConsoleKinds, PairState
  <2> QED BY <1>1, <2>2 DEF L!MayGo
<1>5. caller[c].pc # "queued"
  <2> SUFFICES ASSUME caller[c].pc = "queued" PROVE FALSE
    OBVIOUS
  <2>1. PICK p \in L!Pair, k \in L!Kind :
           p = caller[c].on /\ k = caller[c].kind /\ \E i \in 1..Len(queue[p][k]) : queue[p][k][i] = c
    BY <1>2 DEF QueuesInv, WaitFits
  <2>2. queue[p][k] \in Seq(Uses) /\ QueueFits(p, k)
    BY DEF ConsoleKinds, QueuesInv
  <2>3. 1 \in 1..Len(queue[p][k]) /\ Head(queue[p][k]) = queue[p][k][1]
    BY <2>1, <2>2
  <2>4. PICK d \in L!Caller : d = queue[p][k][1]
    BY <2>2, <2>3 DEF L!Caller
  <2>5. caller[d].pc = "queued" /\ caller[d].on = p /\ caller[d].kind = k
    BY <2>2, <2>3, <2>4 DEF QueueFits
  <2>6. L!MayGo(d)
    BY <2>3, <2>4, <2>5 DEF L!MayGo
  <2> QED BY <1>1, <2>6
<1>6. caller[c].pc # "release"
    BY <1>1 DEF L!MayGo
<1>7. caller[c].pc # "closing"
  <2> SUFFICES ASSUME caller[c].pc = "closing" PROVE FALSE
    OBVIOUS
  <2>1. caller[c].on # 0
    BY <1>1 DEF L!MayGo
  <2>2. PICK p \in L!Pair : p = caller[c].on
    BY <1>2, <2>1
  <2>3. Leaving(p)
    BY <2>1, <2>2 DEF PairsInv
  <2>4. pair[p] = "failed" \/ \A k \in L!Kind : client[p][k] = "over"
    BY <1>1, <2>3 DEF Leaving
  <2>5. L!MayGo(c)
    BY <2>2, <2>4 DEF L!MayGo
  <2> QED BY <1>1, <2>5
<1> QED BY <1>2, <1>3, <1>4, <1>5, <1>6, <1>7 DEF CallerPc

LEMMA ConsoleHasSettled == ConsoleInv => ConsoleSettles
<1> SUFFICES ASSUME ConsoleInv, L!Settled
             PROVE  /\ \A c \in L!Caller : caller[c].pc = "idle"
                    /\ entry # 0 => pair[entry] = "open" /\ \A k \in L!Kind : client[entry][k] = "up"
                    /\ \A p \in L!Pair, k \in L!Kind :
                          /\ client[p][k] \in {"none", "up", "over"}
                          /\ client[p][k] = "up" =>
                                p = entry \/ (sandbox /\ \E q \in L!Pair : pair[q] = "failed")
    BY DEF ConsoleSettles, L!ConsoleSettles
<1>1. \A c \in L!Caller : caller[c].pc = "idle"
    BY NobodyWaits
<1>2. /\ \A p \in L!Pair : pair[p] # "opening"
      /\ \A p \in L!Pair, k \in L!Kind : client[p][k] \notin {"connecting", "lost", "ending"}
    BY DEF L!Settled
<1>3. ASSUME NEW e \in L!Pair, e = entry, entry # 0
      PROVE  pair[e] = "open" /\ \A k \in L!Kind : client[e][k] = "up"
  <2>1. EntryFits /\ PairFits(e)
    BY DEF ConsoleInv, PairsInv
  <2>2. pair[e] = "open" /\ \A k \in L!Kind : client[e][k] # "over"
    BY <1>2, <1>3, <2>1 DEF EntryFits
  <2> QED BY <1>2, <2>1, <2>2 DEF PairFits
<1>4. entry # 0 => pair[entry] = "open" /\ \A k \in L!Kind : client[entry][k] = "up"
    BY <1>3 DEF ConsoleInv, ConsoleKinds
<1>5. ASSUME NEW p \in L!Pair, NEW k \in L!Kind
      PROVE  /\ client[p][k] \in {"none", "up", "over"}
             /\ client[p][k] = "up" => p = entry \/ (sandbox /\ \E q \in L!Pair : pair[q] = "failed")
  <2>1. client[p][k] \in L!ClientState /\ pair[p] \in PairState /\ PairFits(p)
    BY DEF ConsoleInv, ConsoleKinds, PairsInv
  <2>2. client[p][k] \in {"none", "up", "over"}
    BY <1>2, <2>1 DEF L!ClientState
  <2>3. ASSUME client[p][k] = "up", p # entry PROVE sandbox /\ ~NoneFailed
    BY <1>2, <2>1, <2>3 DEF PairFits, PairState, NoneFailed
  <2> QED BY <2>2, <2>3 DEF NoneFailed
<1> QED BY <1>1, <1>4, <1>5

\* However the opening, losing and closing of the connections of a lab run
\* overlap, and whichever pair a late event drops (labs/lab-connections.ts),
\* once everything has settled every request is answered and the map holds a
\* pair that works, or none.
THEOREM ConsolesSettle == PartsSpec => []ConsoleSettles
<1>1. PartsInit => ConsoleInv
    BY ConsoleStart DEF PartsInit
<1>2. ConsoleInv /\ [PartsNext]_partsVars => ConsoleInv'
  <2> SUFFICES ASSUME ConsoleInv, [PartsNext]_partsVars PROVE [L!Next]_(L!vars)
    BY ConsoleStep
  <2> QED BY DEF PartsNext, partsVars, consoleVars, L!vars, L!net
<1> QED BY <1>1, <1>2, ConsoleHasSettled, PTL DEF PartsSpec

-----------------------------------------------------------------------------
(***************************************************************************)
(* Challenges: rows in any order                                           *)
(***************************************************************************)

\* Cardinality, as the instance has it.
LEMMA ChallengesCount == \A S : C!Cardinality(S) = Cardinality(S)
    BY DEF C!Cardinality, Cardinality

\* A finite set goes into one with at least as many elements.
LEMMA SmallerGoesInto ==
    ASSUME NEW S, NEW Big, IsFiniteSet(S), IsFiniteSet(Big), Cardinality(S) <= Cardinality(Big)
    PROVE  \E f \in [S -> Big] : \A x, y \in S : f[x] = f[y] => x = y
<1>1. /\ Cardinality(S) \in Nat /\ Cardinality(Big) \in Nat
      /\ ExistsBijection(1..Cardinality(S), S) /\ ExistsBijection(1..Cardinality(Big), Big)
    BY FS_CardinalityType
<1> DEFINE m == Cardinality(S)
           n == Cardinality(Big)
<1> HIDE DEF m, n
<1>2. m \in Nat /\ n \in Nat /\ m <= n /\ ExistsBijection(1..m, S) /\ ExistsBijection(1..n, Big)
    BY <1>1 DEF m, n
<1>3. PICK f \in Bijection(1..m, S) : TRUE
    BY <1>2 DEF ExistsBijection
<1>4. PICK g \in Bijection(1..n, Big) : TRUE
    BY <1>2 DEF ExistsBijection
<1>5. /\ g \in [1..n -> Big] /\ \A i, j \in 1..n : g[i] = g[j] => i = j
    BY <1>4 DEF Bijection, Injection, IsInjective
<1>6. /\ f \in [1..m -> S] /\ \A x \in S : \E i \in 1..m : f[i] = x
    BY <1>3 DEF Bijection, Surjection
<1> DEFINE place == [x \in S |-> CHOOSE i \in 1..m : f[i] = x]
<1>7. \A x \in S : place[x] \in 1..m /\ f[place[x]] = x
    BY <1>6
<1> HIDE DEF place
<1>8. \A x \in S : place[x] \in 1..n
    BY <1>2, <1>7
<1> DEFINE h == [x \in S |-> g[place[x]]]
<1>9. h \in [S -> Big]
    BY <1>5, <1>8
<1>10. \A x, y \in S : h[x] = h[y] => x = y
    BY <1>5, <1>7, <1>8
<1> QED BY <1>9, <1>10

\* The places at which a row is.
PlacesOf(s, r) == {i \in DOMAIN s : s[i] = r}

LEMMA PlacesCount ==
    ASSUME NEW s \in Seq(Nat), NEW r
    PROVE  IsFiniteSet(PlacesOf(s, r)) /\ C!Count(s, r) = Cardinality(PlacesOf(s, r))
<1>1. PlacesOf(s, r) \subseteq 1..Len(s) /\ IsFiniteSet(1..Len(s))
    BY FS_Interval DEF PlacesOf
<1>2. IsFiniteSet(PlacesOf(s, r))
    BY <1>1, FS_Subset
<1> QED BY <1>2, ChallengesCount DEF C!Count, PlacesOf

\* The rows of one can be paired with those of the other.
Paired(a, b) ==
    \E pairing \in [DOMAIN a -> DOMAIN a] :
        /\ \A i, j \in DOMAIN pairing : pairing[i] = pairing[j] => i = j
        /\ \A i \in DOMAIN pairing : a[i] = b[pairing[i]]

LEMMA PairedAreSame ==
    ASSUME NEW a \in Seq(Nat), NEW b \in Seq(Nat), Len(a) = Len(b), Paired(a, b)
    PROVE  C!SameMultiset(a, b)
<1> DEFINE Here == 1..Len(a)
<1>0. Len(a) \in Nat /\ DOMAIN a = Here /\ DOMAIN b = Here
    OBVIOUS
<1>1. PICK f \in [Here -> Here] :
         /\ \A i, j \in Here : f[i] = f[j] => i = j
         /\ \A i \in Here : a[i] = b[f[i]]
    BY <1>0 DEF Paired
<1>2. IsFiniteSet(Here)
    BY <1>0, FS_Interval
<1> HIDE DEF Here
<1>3. \A j \in Here : \E i \in Here : f[i] = j
  <2>1. f \in Injection(Here, Here)
    BY <1>1 DEF Injection, IsInjective
  <2>2. f \in Surjection(Here, Here)
    BY <1>2, <2>1, FS_Injection
  <2> QED BY <2>2 DEF Surjection
<1>4. ASSUME NEW r PROVE C!Count(b, r) <= C!Count(a, r)
  <2> DEFINE back == [j \in PlacesOf(b, r) |-> CHOOSE i \in Here : f[i] = j]
  <2>1. \A j \in PlacesOf(b, r) : j \in Here /\ b[j] = r
    BY <1>0 DEF PlacesOf
  <2>2. \A j \in PlacesOf(b, r) : back[j] \in Here /\ f[back[j]] = j
    BY <1>3, <2>1
  <2> HIDE DEF back
  <2>3. \A j \in PlacesOf(b, r) : back[j] \in PlacesOf(a, r)
    BY <1>0, <1>1, <2>1, <2>2 DEF PlacesOf
  <2>4. back \in [PlacesOf(b, r) -> PlacesOf(a, r)]
    BY <2>3 DEF back
  <2>5. \A j, k \in PlacesOf(b, r) : back[j] = back[k] => j = k
    BY <2>2
  <2>6. back \in Injection(PlacesOf(b, r), PlacesOf(a, r))
    BY <2>4, <2>5 DEF Injection, IsInjective
  <2> QED BY <2>6, PlacesCount, FS_Injection
<1> QED BY <1>4 DEF C!SameMultiset

\* sameMultiset() finds a pairing: each row of b has a place of its own in a,
\* and there are as many, so that no place of a is left over.
LEMMA SameArePaired ==
    ASSUME NEW a \in Seq(Nat), NEW b \in Seq(Nat), C!SameMultiset(a, b)
    PROVE  Len(a) = Len(b) /\ Paired(a, b)
<1> DEFINE Here == 1..Len(a)
           Into(r, f) == /\ f \in [PlacesOf(b, r) -> PlacesOf(a, r)]
                         /\ \A i, j \in PlacesOf(b, r) : f[i] = f[j] => i = j
           way == [r \in Nat |-> CHOOSE f : Into(r, f)]
           g == [j \in Here |-> way[b[j]][j]]
<1>0. /\ Len(a) = Len(b) /\ DOMAIN a = Here /\ DOMAIN b = Here
      /\ \A j \in Here : a[j] \in Nat /\ b[j] \in Nat
      /\ Len(a) \in Nat
    BY DEF C!SameMultiset
<1>1. ASSUME NEW j \in Here PROVE Into(b[j], way[b[j]])
  <2>1. PICK r \in Nat : r = b[j]
    BY <1>0
  <2>2. C!Count(b, r) <= C!Count(a, r)
    BY <1>0, <2>1 DEF C!SameMultiset
  <2>3. \E f : Into(r, f)
    BY <2>2, PlacesCount, SmallerGoesInto
  <2> QED BY <2>1, <2>3
<1> HIDE DEF way
<1>2. \A j \in Here : j \in PlacesOf(b, b[j])
    BY <1>0 DEF PlacesOf
<1>3. \A j \in Here : way[b[j]][j] \in PlacesOf(a, b[j])
    BY <1>1, <1>2
<1>4. /\ g \in [Here -> Here]
      /\ \A j \in Here : a[g[j]] = b[j]
    BY <1>0, <1>3 DEF PlacesOf
<1>5. ASSUME NEW i \in Here, NEW j \in Here, g[i] = g[j] PROVE i = j
  <2>1. b[i] = b[j]
    BY <1>4, <1>5
  <2>2. PICK r : r = b[i] /\ r = b[j]
    BY <2>1
  <2>3. Into(r, way[r]) /\ i \in PlacesOf(b, r) /\ j \in PlacesOf(b, r)
    BY <1>1, <1>2, <2>2
  <2>4. way[r][i] = way[r][j]
    BY <1>5, <2>2
  <2> QED BY <2>3, <2>4
<1> HIDE DEF g, Here
<1>6. \A i \in Here : \E j \in Here : g[j] = i
  <2>1. g \in Injection(Here, Here)
    BY <1>4, <1>5 DEF Injection, IsInjective
  <2>2. IsFiniteSet(Here)
    BY <1>0, FS_Interval DEF Here
  <2>3. g \in Surjection(Here, Here)
    BY <2>1, <2>2, FS_Injection
  <2> QED BY <2>3 DEF Surjection
<1> DEFINE pairing == [i \in Here |-> CHOOSE j \in Here : g[j] = i]
<1>7. \A i \in Here : pairing[i] \in Here /\ g[pairing[i]] = i
    BY <1>6
<1>8. pairing \in [Here -> Here] /\ DOMAIN pairing = Here
    BY <1>7
<1> HIDE DEF pairing
<1>9. \A i \in Here : a[i] = b[pairing[i]]
    BY <1>4, <1>7
<1>10. \A i, j \in Here : pairing[i] = pairing[j] => i = j
    BY <1>7
<1>11. \E p \in [Here -> Here] :
          /\ \A i, j \in DOMAIN p : p[i] = p[j] => i = j
          /\ \A i \in DOMAIN p : a[i] = b[p[i]]
    BY <1>8, <1>9, <1>10
<1>12. Paired(a, b)
    BY <1>0, <1>11 DEF Paired
<1> QED BY <1>0, <1>12

\* Who returned what the solution returns, row by row.
Agrees(q, a, w) ==
    C!Agree(Questions[q].solution[w], a.returns[w], Questions[q].ordered)

\* compare() finds no mismatch exactly when there is a pairing.
LEMMA CompareIsRight ==
    ASSUME NEW x \in C!Output, NEW y \in C!Output, NEW o \in BOOLEAN, y.ok
    PROVE  /\ C!Compare(x, y, o) \in {"none", "columns", "rows", "order"}
           /\ C!Compare(x, y, o) = "none" <=> C!Agree(x, y, o)
<1>1. PICK a \in Seq(Nat), b \in Seq(Nat) : a = x.rows /\ b = y.rows
    BY DEF C!Output
<1>2. ASSUME C!Compare(x, y, o) = "none" PROVE C!Agree(x, y, o)
  <2>1. x.columns = y.columns /\ C!SameMultiset(a, b) /\ (o => a = b)
    BY <1>1, <1>2 DEF C!Compare
  <2>2. Len(a) = Len(b) /\ Paired(a, b)
    BY <2>1, SameArePaired
  <2>3. CASE o
    <3> DEFINE pairing == [i \in DOMAIN a |-> i]
    <3>1. /\ pairing \in [DOMAIN a -> DOMAIN a] /\ DOMAIN pairing = DOMAIN a
          /\ \A i \in DOMAIN a : pairing[i] = i
      OBVIOUS
    <3> HIDE DEF pairing
    <3>2. \E p \in [DOMAIN a -> DOMAIN a] :
             /\ \A i, j \in DOMAIN p : p[i] = p[j] => i = j
             /\ \A i \in DOMAIN p : a[i] = b[p[i]]
             /\ o => \A i \in DOMAIN p : p[i] = i
      BY <2>1, <2>3, <3>1
    <3> QED BY <1>1, <2>1, <2>2, <3>2 DEF C!Agree
  <2>4. CASE ~o
    <3>1. \E p \in [DOMAIN a -> DOMAIN a] :
             /\ \A i, j \in DOMAIN p : p[i] = p[j] => i = j
             /\ \A i \in DOMAIN p : a[i] = b[p[i]]
             /\ o => \A i \in DOMAIN p : p[i] = i
      BY <2>2, <2>4 DEF Paired
    <3> QED BY <1>1, <2>1, <2>2, <3>1 DEF C!Agree
  <2> QED BY <2>3, <2>4
<1>3. ASSUME C!Agree(x, y, o) PROVE C!Compare(x, y, o) = "none"
  <2>1. /\ x.columns = y.columns /\ Len(a) = Len(b) /\ Paired(a, b)
        /\ o => \A i \in DOMAIN a : a[i] = b[i]
    BY <1>1, <1>3 DEF C!Agree, Paired
  <2>2. C!SameMultiset(a, b)
    BY <2>1, PairedAreSame
  <2>3. ASSUME o PROVE a = b
    <3>1. PICK s \in Seq(Nat), t \in Seq(Nat) : s = a /\ t = b
      BY <1>1
    <3>2. DOMAIN s = 1..Len(s) /\ DOMAIN t = 1..Len(s) /\ \A i \in 1..Len(s) : s[i] = t[i]
      BY <2>1, <2>3, <3>1
    <3>3. s = [i \in 1..Len(s) |-> s[i]] /\ t = [i \in 1..Len(s) |-> t[i]]
      BY <3>2
    <3>4. s = t
      BY <3>2, <3>3
    <3> QED BY <3>1, <3>4
  <2> QED BY <1>1, <2>1, <2>2, <2>3 DEF C!Compare
<1> QED BY <1>2, <1>3 DEF C!Compare

-----------------------------------------------------------------------------
(***************************************************************************)
(* Challenges: the inductive invariant                                     *)
(***************************************************************************)
Solved == {q \in DOMAIN Questions : \E t \in tried : t[1] = q /\ C!Solves(q, t[2])}

PanelRecord ==
    [shown : {"no", "yes", "left"}, index : DOMAIN Questions, progress : SUBSET DOMAIN Questions]

VerdictRecord ==
    [status : {"none", "correct", "invalid", "columns", "rows", "order"}, variant : C!Variant,
     asked : DOMAIN Questions, answer : Answers \cup {0}]

CheckRecord ==
    [pc : {"none", "parse", "open", "compare"}, asked : DOMAIN Questions,
     answer : Answers \cup {0}, variant : C!Variant, progress : SUBSET DOMAIN Questions]

PanelKinds ==
    /\ panel \in [Panels -> PanelRecord] /\ verdict \in [Panels -> VerdictRecord]
    /\ check \in [Panels -> CheckRecord]

\* A check in progress has found the variants before the one it is at to agree.
CheckFits(p) ==
    check[p].pc # "none" =>
        /\ check[p].answer \in Answers /\ <<check[p].asked, check[p].answer>> \in tried
        /\ check[p].asked = panel[p].index \/ p \in moved
        /\ check[p].progress \subseteq Solved
        /\ check[p].pc = "parse" => check[p].variant = 0
        /\ check[p].pc # "parse" => check[p].answer.kind = "read"
        /\ \A w \in 0..(check[p].variant - 1) : Agrees(check[p].asked, check[p].answer, w)

VerdictFits(p) ==
    verdict[p].status # "none" =>
        /\ verdict[p].asked = panel[p].index \/ p \in moved
        /\ verdict[p].status = "correct" <=> C!Solves(verdict[p].asked, verdict[p].answer)
        /\ verdict[p].status # "correct" /\ verdict[p].answer.kind = "read" =>
              /\ ~Agrees(verdict[p].asked, verdict[p].answer, verdict[p].variant)
              /\ \A w \in 0..(verdict[p].variant - 1) :
                    Agrees(verdict[p].asked, verdict[p].answer, w)

PanelFits(p) == CheckFits(p) /\ VerdictFits(p) /\ panel[p].progress \subseteq Solved

ChallengesInv ==
    /\ PanelKinds
    /\ \A p \in Panels : PanelFits(p)
    /\ stored \subseteq Solved

LEMMA ChallengesConstants ==
    /\ Variants \in Nat \ {0} /\ 1 \in DOMAIN Questions /\ 0 \in C!Variant
    /\ \A q \in DOMAIN Questions, w \in C!Variant :
          /\ Questions[q].solution[w] \in C!Output /\ Questions[q].ordered \in BOOLEAN
    /\ \A a \in Answers, w \in C!Variant : a.returns[w] \in C!Output
<1>1. C!ChallengesAssumption
    BY PartsAssumption DEF PartsAssumption
<1>2. /\ Variants \in Nat \ {0} /\ 0 \in C!Variant
      /\ Questions \in Seq([ordered : BOOLEAN, solution : C!Query]) /\ Len(Questions) > 0
      /\ \A a \in Answers : a.returns \in C!Query
    BY <1>1 DEF C!ChallengesAssumption, C!Variant
<1>3. 1 \in DOMAIN Questions
    BY <1>2
<1>4. ASSUME NEW q \in DOMAIN Questions, NEW w \in C!Variant
      PROVE  Questions[q].solution[w] \in C!Output /\ Questions[q].ordered \in BOOLEAN
  <2> DEFINE Kinds == [ordered : BOOLEAN, solution : C!Query]
  <2> HIDE DEF Kinds
  <2>2. Questions \in Seq(Kinds)
    BY <1>2 DEF Kinds
  <2>3. Questions[q] \in Kinds
    BY <2>2
  <2>4. Questions[q] \in [ordered : BOOLEAN, solution : C!Query]
    BY <2>3 DEF Kinds
  <2> QED BY <2>4 DEF C!Query
<1>5. \A a \in Answers, w \in C!Variant : a.returns[w] \in C!Output
    BY <1>2 DEF C!Query
<1> QED BY <1>2, <1>3, <1>4, <1>5

\* A step of one panel leaves the others as they were, and what was solved
\* stays solved.
LEMMA OnePanel ==
    ASSUME ChallengesInv, NEW p \in Panels,
           NEW x \in PanelRecord, NEW y \in VerdictRecord, NEW z \in CheckRecord,
           panel' = [panel EXCEPT ![p] = x], verdict' = [verdict EXCEPT ![p] = y],
           check' = [check EXCEPT ![p] = z],
           tried \subseteq tried', moved \subseteq moved', stored' \subseteq Solved',
           PanelFits(p)'
    PROVE  ChallengesInv'
<1>1. PanelKinds'
    BY DEF ChallengesInv, PanelKinds
<1>2. Solved \subseteq Solved'
    BY DEF Solved
<1>3. ASSUME NEW q \in Panels \ {p} PROVE PanelFits(q)'
  <2>1. PanelFits(q)
    BY DEF ChallengesInv
  <2>2. panel'[q] = panel[q] /\ verdict'[q] = verdict[q] /\ check'[q] = check[q]
    BY DEF ChallengesInv, PanelKinds
  <2>3. CheckFits(q)'
    BY <1>2, <2>1, <2>2 DEF PanelFits, CheckFits
  <2>4. VerdictFits(q)'
    BY <2>1, <2>2 DEF PanelFits, VerdictFits
  <2> QED BY <1>2, <2>1, <2>2, <2>3, <2>4 DEF PanelFits
<1> QED BY <1>1, <1>3 DEF ChallengesInv

LEMMA PanelIs ==
    ASSUME ChallengesInv, NEW p \in Panels
    PROVE  /\ panel[p] \in PanelRecord /\ verdict[p] \in VerdictRecord /\ check[p] \in CheckRecord
           /\ panel = [panel EXCEPT ![p] = panel[p]]
           /\ verdict = [verdict EXCEPT ![p] = verdict[p]]
           /\ check = [check EXCEPT ![p] = check[p]]
           /\ CheckFits(p) /\ VerdictFits(p) /\ panel[p].progress \subseteq Solved
           /\ stored \subseteq Solved /\ Solved \subseteq DOMAIN Questions
           /\ C!NoVerdict \in VerdictRecord /\ C!NoVerdict.status = "none"
           /\ C!NoCheck \in CheckRecord /\ C!NoCheck.pc = "none"
    BY ChallengesConstants DEF ChallengesInv, PanelKinds, PanelFits, Solved, C!NoVerdict, C!NoCheck,
       VerdictRecord, CheckRecord

LEMMA ChallengesStart == C!Init => ChallengesInv
<1> SUFFICES ASSUME C!Init PROVE ChallengesInv
    OBVIOUS
<1> DEFINE r == [shown |-> "no", index |-> 1, progress |-> {}]
<1>1. r \in PanelRecord /\ r.progress = {}
    BY ChallengesConstants DEF PanelRecord
<1> HIDE DEF r
<1>2. /\ C!NoVerdict \in VerdictRecord /\ C!NoVerdict.status = "none"
      /\ C!NoCheck \in CheckRecord /\ C!NoCheck.pc = "none"
    BY ChallengesConstants DEF C!NoVerdict, C!NoCheck, VerdictRecord, CheckRecord
<1>3. /\ panel = [p \in Panels |-> r] /\ verdict = [p \in Panels |-> C!NoVerdict]
      /\ check = [p \in Panels |-> C!NoCheck] /\ stored = {}
    BY DEF C!Init, r
<1>4. PanelKinds
    BY <1>1, <1>2, <1>3 DEF PanelKinds
<1>5. ASSUME NEW p \in Panels PROVE PanelFits(p)
    BY <1>1, <1>2, <1>3 DEF PanelFits, CheckFits, VerdictFits
<1> QED BY <1>3, <1>4, <1>5 DEF ChallengesInv

-----------------------------------------------------------------------------
(***************************************************************************)
(* Challenges: the steps                                                   *)
(***************************************************************************)
LEMMA MountKeeps ==
    ASSUME ChallengesInv, NEW p \in Panels, C!Mount(p)
    PROVE  ChallengesInv'
<1> DEFINE x == [shown |-> "yes", index |-> panel[p].index, progress |-> stored]
<1>1. panel' = [panel EXCEPT ![p] = [[panel[p] EXCEPT !.shown = "yes"] EXCEPT !.progress = stored]]
      /\ UNCHANGED <<verdict, check, stored, tried, moved>>
    BY DEF C!Mount, ChallengesInv, PanelKinds
<1>2. x \in PanelRecord /\ x.progress = stored /\ x.index = panel[p].index
    BY PanelIs DEF PanelRecord
<1>3. panel' = [panel EXCEPT ![p] = x]
  <2>1. [panel[p] EXCEPT !.shown = "yes"]
           = [shown |-> "yes", index |-> panel[p].index, progress |-> panel[p].progress]
    BY PanelIs DEF PanelRecord
  <2>2. [[shown |-> "yes", index |-> panel[p].index, progress |-> panel[p].progress]
            EXCEPT !.progress = stored] = x
    OBVIOUS
  <2>3. [[panel[p] EXCEPT !.shown = "yes"] EXCEPT !.progress = stored] = x
    BY ONLY <2>1, <2>2
  <2> QED BY <1>1, <2>3
<1> HIDE DEF x
<1>4. panel'[p] = x /\ Solved' = Solved
    BY <1>1, <1>3 DEF ChallengesInv, PanelKinds, Solved
<1>5. PanelFits(p)'
  <2>1. CheckFits(p)'
    BY <1>1, <1>2, <1>4, PanelIs DEF CheckFits
  <2>2. VerdictFits(p)'
    BY <1>1, <1>2, <1>4, PanelIs DEF VerdictFits
  <2> QED BY <1>2, <1>4, <2>1, <2>2, PanelIs DEF PanelFits
<1>6. /\ verdict[p] \in VerdictRecord /\ verdict' = [verdict EXCEPT ![p] = verdict[p]]
      /\ check[p] \in CheckRecord /\ check' = [check EXCEPT ![p] = check[p]]
    BY <1>1, PanelIs
<1>7. tried \subseteq tried' /\ moved \subseteq moved' /\ stored' \subseteq Solved'
    BY <1>1, <1>4, PanelIs
<1> QED BY <1>2, <1>3, <1>5, <1>6, <1>7, OnePanel

LEMMA UnmountKeeps ==
    ASSUME ChallengesInv, NEW p \in Panels, C!Unmount(p)
    PROVE  ChallengesInv'
<1> DEFINE x == [shown |-> "left", index |-> panel[p].index, progress |-> panel[p].progress]
<1>1. panel' = [panel EXCEPT ![p] = [panel[p] EXCEPT !.shown = "left"]]
      /\ UNCHANGED <<verdict, check, stored, tried, moved>>
    BY DEF C!Unmount
<1>2. x \in PanelRecord /\ x.progress = panel[p].progress /\ x.index = panel[p].index
    BY PanelIs DEF PanelRecord
<1>3. panel' = [panel EXCEPT ![p] = x]
  <2>1. [panel[p] EXCEPT !.shown = "left"] = x
    BY PanelIs DEF PanelRecord
  <2> QED BY <1>1, <2>1
<1> HIDE DEF x
<1>4. panel'[p] = x /\ Solved' = Solved
    BY <1>1, <1>3 DEF ChallengesInv, PanelKinds, Solved
<1>5. PanelFits(p)'
  <2>1. CheckFits(p)'
    BY <1>1, <1>2, <1>4, PanelIs DEF CheckFits
  <2>2. VerdictFits(p)'
    BY <1>1, <1>2, <1>4, PanelIs DEF VerdictFits
  <2> QED BY <1>2, <1>4, <2>1, <2>2, PanelIs DEF PanelFits
<1> QED BY <1>1, <1>2, <1>3, <1>4, <1>5, PanelIs, OnePanel

LEMMA GoKeeps ==
    ASSUME ChallengesInv, NEW p \in Panels, NEW q \in DOMAIN Questions, C!Go(p, q)
    PROVE  ChallengesInv'
<1> DEFINE x == [shown |-> panel[p].shown, index |-> q, progress |-> panel[p].progress]
<1>1. /\ panel' = [panel EXCEPT ![p] = [panel[p] EXCEPT !.index = q]]
      /\ verdict' = [verdict EXCEPT ![p] = C!NoVerdict]
      /\ moved \subseteq moved' /\ (check[p].pc # "none" => p \in moved')
      /\ UNCHANGED <<check, stored, tried>>
    BY DEF C!Go
<1>2. x \in PanelRecord /\ x.progress = panel[p].progress
    BY PanelIs DEF PanelRecord
<1>3. panel' = [panel EXCEPT ![p] = x]
  <2>1. [panel[p] EXCEPT !.index = q] = x
    BY PanelIs DEF PanelRecord
  <2> QED BY <1>1, <2>1
<1> HIDE DEF x
<1>4. panel'[p] = x /\ verdict'[p] = C!NoVerdict /\ Solved' = Solved
    BY <1>1, <1>3 DEF ChallengesInv, PanelKinds, Solved
<1>5. PanelFits(p)'
  <2>1. CheckFits(p)'
    BY <1>1, <1>4, PanelIs DEF CheckFits
  <2>2. VerdictFits(p)'
    BY <1>4, PanelIs DEF VerdictFits
  <2> QED BY <1>2, <1>4, <2>1, <2>2, PanelIs DEF PanelFits
<1> QED BY <1>1, <1>2, <1>3, <1>4, <1>5, PanelIs, OnePanel

LEMMA ClickKeeps ==
    ASSUME ChallengesInv, NEW p \in Panels, NEW a \in Answers, C!Click(p, a)
    PROVE  ChallengesInv'
<1> DEFINE z == [pc |-> "parse", asked |-> panel[p].index, answer |-> a, variant |-> 0,
                 progress |-> panel[p].progress]
<1>1. /\ check' = [check EXCEPT ![p] = z]
      /\ verdict' = [verdict EXCEPT ![p] = C!NoVerdict]
      /\ tried' = tried \cup {<<panel[p].index, a>>}
      /\ UNCHANGED <<panel, stored, moved>>
    BY DEF C!Click
<1>2. /\ z \in CheckRecord /\ z.pc = "parse" /\ z.asked = panel[p].index /\ z.answer = a
      /\ z.variant = 0 /\ z.progress = panel[p].progress
    BY PanelIs, ChallengesConstants DEF PanelRecord, CheckRecord
<1> HIDE DEF z
<1>3. check'[p] = z /\ verdict'[p] = C!NoVerdict
    BY <1>1 DEF ChallengesInv, PanelKinds
<1>4. Solved \subseteq Solved' /\ tried \subseteq tried'
    BY <1>1 DEF Solved
<1>5. PanelFits(p)'
  <2>1. <<z.asked, z.answer>> \in tried'
    BY <1>1, <1>2
  <2>2. z.progress \subseteq Solved'
    BY <1>2, <1>4, PanelIs
  <2>3. \A w \in 0..(z.variant - 1) : Agrees(z.asked, z.answer, w)
    BY <1>2
  <2>4. CheckFits(p)'
    BY <1>1, <1>2, <1>3, <2>1, <2>2, <2>3 DEF CheckFits
  <2>5. VerdictFits(p)'
    BY <1>3, PanelIs DEF VerdictFits
  <2> QED BY <1>1, <1>4, <2>4, <2>5, PanelIs DEF PanelFits
<1>6. stored' \subseteq Solved'
    BY <1>1, <1>4, PanelIs
<1> QED BY <1>1, <1>2, <1>4, <1>5, <1>6, PanelIs, OnePanel

\* The check is over: what it said is the verdict, if the panel is there, and
\* its challenge counts as solved if that was "correct".
LEMMA EndsKeeps ==
    ASSUME ChallengesInv, NEW p \in Panels, check[p].pc # "none",
           NEW how \in {"correct", "invalid", "columns", "rows", "order"}, C!Ends(p, how),
           UNCHANGED <<tried, moved>>,
           how = "correct" <=> C!Solves(check[p].asked, check[p].answer),
           how # "correct" /\ check[p].answer.kind = "read" =>
              ~Agrees(check[p].asked, check[p].answer, check[p].variant)
    PROVE  ChallengesInv'
<1> DEFINE done == check[p].progress \cup {check[p].asked}
           y == [status |-> how, variant |-> check[p].variant, asked |-> check[p].asked,
                 answer |-> check[p].answer]
           x == [shown |-> panel[p].shown, index |-> panel[p].index, progress |-> done]
<1>0. /\ check' = [check EXCEPT ![p] = C!NoCheck]
      /\ stored' \in IF how = "correct" THEN {done, stored} ELSE {stored}
      /\ \/ /\ verdict' = [verdict EXCEPT ![p] = y]
            /\ panel' = IF how = "correct" THEN [panel EXCEPT ![p] = [panel[p] EXCEPT !.progress = done]]
                                              ELSE panel
         \/ UNCHANGED <<verdict, panel>>
    BY DEF C!Ends, C!Verdict, C!Asked
<1>1. /\ CheckFits(p) /\ check[p] \in CheckRecord /\ Solved' = Solved
      /\ <<check[p].asked, check[p].answer>> \in tried /\ check[p].progress \subseteq Solved
      /\ check[p].asked = panel[p].index \/ p \in moved
    BY PanelIs DEF CheckFits, Solved
<1>2. how = "correct" => done \subseteq Solved
  <2>1. ASSUME how = "correct" PROVE check[p].asked \in Solved
    <3>1. check[p].asked \in DOMAIN Questions
      BY <1>1 DEF CheckRecord
    <3>2. PICK t \in tried : t = <<check[p].asked, check[p].answer>>
      BY <1>1
    <3>3. t[1] = check[p].asked /\ C!Solves(check[p].asked, t[2])
      BY <2>1, <3>2
    <3> QED BY <3>1, <3>3 DEF Solved
  <2> QED BY <1>1, <2>1
<1>3. /\ y \in VerdictRecord /\ y.status = how /\ y.variant = check[p].variant
      /\ y.asked = check[p].asked /\ y.answer = check[p].answer
    BY <1>1 DEF CheckRecord, VerdictRecord
<1> HIDE DEF y
<1>4. stored' \subseteq Solved'
    BY <1>0, <1>1, <1>2, PanelIs
<1> HIDE DEF done
<1>5. [panel[p] EXCEPT !.progress = done] = x /\ x.index = panel[p].index /\ x.progress = done
    BY PanelIs DEF PanelRecord
<1>6. how = "correct" => x \in PanelRecord
    BY <1>2, PanelIs DEF PanelRecord
<1> HIDE DEF x
<1>7. check'[p].pc = "none"
    BY <1>0, PanelIs DEF ChallengesInv, PanelKinds
<1>8. CheckFits(p)'
    BY <1>7 DEF CheckFits
<1>9. CASE verdict' = [verdict EXCEPT ![p] = y] /\
           panel' = IF how = "correct" THEN [panel EXCEPT ![p] = [panel[p] EXCEPT !.progress = done]]
                                          ELSE panel
  <2>1. PICK u \in PanelRecord : /\ panel' = [panel EXCEPT ![p] = u] /\ u.index = panel[p].index
                                 /\ u.progress \subseteq Solved
    <3>1. CASE how = "correct"
      BY <1>2, <1>5, <1>6, <1>9, <3>1
    <3>2. CASE how # "correct"
      BY <1>9, <3>2, PanelIs
    <3> QED BY <3>1, <3>2
  <2>2. panel'[p] = u /\ verdict'[p] = y
    BY <1>9, <2>1 DEF ChallengesInv, PanelKinds
  <2>3. \A w \in 0..(y.variant - 1) : y.answer.kind = "read" => Agrees(y.asked, y.answer, w)
    BY <1>1, <1>3 DEF CheckFits
  <2>4. VerdictFits(p)'
    BY <1>1, <1>3, <2>1, <2>2, <2>3 DEF VerdictFits
  <2>5. PanelFits(p)'
    BY <1>1, <1>8, <2>1, <2>2, <2>4 DEF PanelFits
  <2> QED BY <1>0, <1>3, <1>4, <1>9, <2>1, <2>5, PanelIs, OnePanel
<1>10. CASE UNCHANGED <<verdict, panel>>
  <2>1. VerdictFits(p)'
    BY <1>10, PanelIs DEF VerdictFits
  <2>2. PanelFits(p)'
    BY <1>1, <1>8, <1>10, <2>1, PanelIs DEF PanelFits
  <2> QED BY <1>0, <1>4, <1>10, <2>2, PanelIs, OnePanel
<1> QED BY <1>0, <1>9, <1>10

\* The check goes on, or ends without a verdict.
LEMMA CheckGoes ==
    ASSUME ChallengesInv, NEW p \in Panels, NEW z \in CheckRecord,
           check' = [check EXCEPT ![p] = z], UNCHANGED <<panel, verdict, stored, tried, moved>>,
           z.pc # "none" =>
              /\ check[p].pc # "none"
              /\ z.asked = check[p].asked /\ z.answer = check[p].answer
              /\ z.progress = check[p].progress
              /\ z.pc # "parse" /\ z.answer.kind = "read"
              /\ \A w \in 0..(z.variant - 1) : Agrees(z.asked, z.answer, w)
    PROVE  ChallengesInv'
<1>1. check'[p] = z /\ Solved' = Solved
    BY DEF ChallengesInv, PanelKinds, Solved
<1>2. CheckFits(p)'
    BY <1>1, PanelIs DEF CheckFits
<1>3. VerdictFits(p)'
    BY PanelIs DEF VerdictFits
<1>4. PanelFits(p)'
    BY <1>1, <1>2, <1>3, PanelIs DEF PanelFits
<1> QED BY <1>1, <1>4, PanelIs, OnePanel

LEMMA ParseKeeps ==
    ASSUME ChallengesInv, NEW p \in Panels, C!Parse(p)
    PROVE  ChallengesInv'
<1>1. check[p].pc = "parse" /\ UNCHANGED <<tried, moved>> /\ check[p] \in CheckRecord /\ CheckFits(p)
    BY PanelIs DEF C!Parse
<1>2. CASE check[p].answer.kind = "read"
  <2> DEFINE z == [pc |-> "open", asked |-> check[p].asked, answer |-> check[p].answer,
                   variant |-> check[p].variant, progress |-> check[p].progress]
  <2>1. check' = [check EXCEPT ![p] = [check[p] EXCEPT !.pc = "open"]]
        /\ UNCHANGED <<panel, verdict, stored>>
    BY <1>2 DEF C!Parse
  <2>2. [check[p] EXCEPT !.pc = "open"] = z
    BY <1>1 DEF CheckRecord
  <2>3. /\ z \in CheckRecord /\ z.pc = "open" /\ z.asked = check[p].asked /\ z.answer = check[p].answer
        /\ z.progress = check[p].progress /\ z.variant = check[p].variant
    BY <1>1 DEF CheckRecord
  <2> HIDE DEF z
  <2>4. \A w \in 0..(z.variant - 1) : Agrees(z.asked, z.answer, w)
    BY <1>1, <2>3 DEF CheckFits
  <2> QED BY <1>1, <1>2, <2>1, <2>2, <2>3, <2>4, CheckGoes
<1>3. CASE check[p].answer.kind # "read"
  <2>1. C!Ends(p, "invalid")
    BY <1>3 DEF C!Parse
  <2>2. ~C!Solves(check[p].asked, check[p].answer)
    BY <1>3 DEF C!Solves
  <2> QED BY <1>1, <1>3, <2>1, <2>2, EndsKeeps
<1> QED BY <1>2, <1>3

LEMMA OpenKeeps ==
    ASSUME ChallengesInv, NEW p \in Panels, C!OpenVariant(p) \/ C!OpenFails(p)
    PROVE  ChallengesInv'
<1>1. /\ check[p].pc = "open" /\ check[p] \in CheckRecord /\ CheckFits(p)
      /\ UNCHANGED <<panel, verdict, stored, tried, moved>>
    BY PanelIs DEF C!OpenVariant, C!OpenFails
<1>2. CASE check' = [check EXCEPT ![p] = [check[p] EXCEPT !.pc = "compare"]]
  <2> DEFINE z == [pc |-> "compare", asked |-> check[p].asked, answer |-> check[p].answer,
                   variant |-> check[p].variant, progress |-> check[p].progress]
  <2>1. [check[p] EXCEPT !.pc = "compare"] = z
    BY <1>1 DEF CheckRecord
  <2>2. /\ z \in CheckRecord /\ z.pc = "compare" /\ z.asked = check[p].asked
        /\ z.answer = check[p].answer /\ z.progress = check[p].progress
        /\ z.variant = check[p].variant
    BY <1>1 DEF CheckRecord
  <2> HIDE DEF z
  <2>3. z.answer.kind = "read" /\ \A w \in 0..(z.variant - 1) : Agrees(z.asked, z.answer, w)
    BY <1>1, <2>2 DEF CheckFits
  <2> QED BY <1>1, <1>2, <2>1, <2>2, <2>3, CheckGoes
<1>3. CASE check' = [check EXCEPT ![p] = C!NoCheck]
    BY <1>1, <1>3, PanelIs, CheckGoes
<1> QED BY <1>2, <1>3 DEF C!OpenVariant, C!OpenFails

\* A mismatch ends the check at the first variant that shows it; after the
\* last variant the answer solves the challenge.
LEMMA RunBothKeeps ==
    ASSUME ChallengesInv, NEW p \in Panels, C!RunBoth(p)
    PROVE  ChallengesInv'
<1>1. /\ check[p].pc = "compare" /\ check[p] \in CheckRecord /\ CheckFits(p)
      /\ UNCHANGED <<tried, moved>>
    BY PanelIs DEF C!RunBoth
<1>2. PICK q \in DOMAIN Questions, a \in Answers, v \in C!Variant :
         q = check[p].asked /\ a = check[p].answer /\ v = check[p].variant
    BY <1>1 DEF CheckRecord, CheckFits
<1>3. /\ a.kind = "read" /\ \A w \in 0..(v - 1) : Agrees(q, a, w)
      /\ v \in Nat /\ v < Variants /\ Variants \in Nat /\ C!Variant = 0..(Variants - 1)
    BY <1>1, <1>2, ChallengesConstants DEF CheckFits, C!Variant
<1> DEFINE reason == C!Compare(Questions[q].solution[v], a.returns[v], Questions[q].ordered)
<1>4. /\ Questions[q].solution[v] \in C!Output /\ Questions[q].ordered \in BOOLEAN
      /\ a.returns[v] \in C!Output
    BY ChallengesConstants
<1>5. a.returns[v].ok => /\ reason \in {"none", "columns", "rows", "order"}
                         /\ reason = "none" <=> Agrees(q, a, v)
    BY <1>4, CompareIsRight DEF Agrees
<1>6. ~a.returns[v].ok => ~Agrees(q, a, v)
    BY DEF Agrees, C!Agree
<1>7. C!Solves(q, a) <=> \A w \in C!Variant : Agrees(q, a, w)
    BY <1>3 DEF C!Solves, Agrees
<1>8. \/ ~a.returns[v].ok /\ C!Ends(p, "invalid")
      \/ a.returns[v].ok /\ reason # "none" /\ C!Ends(p, reason)
      \/ a.returns[v].ok /\ reason = "none" /\ v + 1 \notin C!Variant /\ C!Ends(p, "correct")
      \/ /\ a.returns[v].ok /\ reason = "none" /\ v + 1 \in C!Variant
         /\ check' = [check EXCEPT ![p].pc = "open", ![p].variant = @ + 1]
         /\ UNCHANGED <<panel, verdict, stored>>
    BY <1>2 DEF C!RunBoth
<1> HIDE DEF reason
<1>9. CASE ~a.returns[v].ok /\ C!Ends(p, "invalid")
  <2>1. ~C!Solves(q, a) /\ ~Agrees(q, a, v)
    BY <1>6, <1>7, <1>9
  <2> QED BY <1>1, <1>2, <1>9, <2>1, EndsKeeps
<1>10. CASE a.returns[v].ok /\ reason # "none" /\ C!Ends(p, reason)
  <2>1. ~C!Solves(q, a) /\ ~Agrees(q, a, v) /\ reason \in {"columns", "rows", "order"}
    BY <1>5, <1>7, <1>10
  <2> QED BY <1>1, <1>2, <1>10, <2>1, EndsKeeps
<1>11. CASE a.returns[v].ok /\ reason = "none" /\ v + 1 \notin C!Variant /\ C!Ends(p, "correct")
  <2>1. \A w \in C!Variant : w \in 0..(v - 1) \/ w = v
    BY <1>3, <1>11
  <2>2. C!Solves(q, a)
    BY <1>3, <1>5, <1>7, <1>11, <2>1
  <2> QED BY <1>1, <1>2, <1>11, <2>2, EndsKeeps
<1>12. CASE /\ a.returns[v].ok /\ reason = "none" /\ v + 1 \in C!Variant
            /\ check' = [check EXCEPT ![p].pc = "open", ![p].variant = @ + 1]
            /\ UNCHANGED <<panel, verdict, stored>>
  <2> DEFINE z == [pc |-> "open", asked |-> q, answer |-> a, variant |-> v + 1,
                   progress |-> check[p].progress]
  <2>1. check' = [check EXCEPT ![p] = [[check[p] EXCEPT !.pc = "open"] EXCEPT !.variant = v + 1]]
    <3>1. [check[p] EXCEPT !.pc = "open"].variant = v
      BY <1>1, <1>2 DEF CheckRecord
    <3> QED BY <1>2, <1>12, <3>1 DEF ChallengesInv, PanelKinds
  <2>2. [check[p] EXCEPT !.pc = "open"]
           = [pc |-> "open", asked |-> q, answer |-> a, variant |-> v, progress |-> check[p].progress]
    BY <1>1, <1>2 DEF CheckRecord
  <2>3. [[check[p] EXCEPT !.pc = "open"] EXCEPT !.variant = v + 1] = z
    <3>1. [[pc |-> "open", asked |-> q, answer |-> a, variant |-> v, progress |-> check[p].progress]
              EXCEPT !.variant = v + 1] = z
      OBVIOUS
    <3> QED BY ONLY <2>2, <3>1
  <2>4. /\ z \in CheckRecord /\ z.pc = "open" /\ z.asked = q /\ z.answer = a
        /\ z.progress = check[p].progress /\ z.variant = v + 1
    BY <1>1, <1>12 DEF CheckRecord
  <2> HIDE DEF z
  <2>5. \A w \in 0..(z.variant - 1) : w \in 0..(v - 1) \/ w = v
    BY <1>3, <2>4
  <2>6. \A w \in 0..(z.variant - 1) : Agrees(z.asked, z.answer, w)
    BY <1>3, <1>5, <1>12, <2>4, <2>5
  <2>7. check' = [check EXCEPT ![p] = z]
    BY <2>1, <2>3
  <2>8. /\ z.asked = check[p].asked /\ z.answer = check[p].answer
        /\ z.progress = check[p].progress /\ z.answer.kind = "read"
    BY <1>2, <1>3, <2>4
  <2> QED BY <1>1, <1>12, <2>4, <2>6, <2>7, <2>8, CheckGoes
<1> QED BY <1>8, <1>9, <1>10, <1>11, <1>12

LEMMA ChallengesStep == ChallengesInv /\ [C!Next]_(C!vars) => ChallengesInv'
<1> SUFFICES ASSUME ChallengesInv, [C!Next]_(C!vars) PROVE ChallengesInv'
    OBVIOUS
<1>1. ASSUME NEW p \in Panels,
             \/ C!Mount(p) \/ C!Unmount(p)
             \/ \E q \in DOMAIN Questions : C!Go(p, q)
             \/ \E a \in Answers : C!Click(p, a)
             \/ C!Parse(p) \/ C!OpenVariant(p) \/ C!OpenFails(p) \/ C!RunBoth(p)
      PROVE  ChallengesInv'
    BY <1>1, MountKeeps, UnmountKeeps, GoKeeps, ClickKeeps, ParseKeeps, OpenKeeps, RunBothKeeps
<1>2. CASE UNCHANGED C!vars
  <2>1. UNCHANGED <<panel, verdict, check, stored, tried, moved>> /\ Solved' = Solved
    BY <1>2 DEF C!vars, Solved
  <2> QED BY <2>1 DEF ChallengesInv, PanelKinds, PanelFits, CheckFits, VerdictFits
<1> QED BY <1>1, <1>2 DEF C!Next

\* An answer to a challenge is said to be right exactly when it returns the
\* rows of the solution, in any order unless the order counts, on every variant
\* of the data, and otherwise the first variant that shows it is named; and
\* only what was solved counts as solved (check.ts, ChallengePanel.tsx), for
\* any challenges, answers, variants and panels.
THEOREM AnswersAreJudgedRightly == PartsSpec => []AnswersAreJudged
<1>1. PartsInit => ChallengesInv
    BY ChallengesStart DEF PartsInit
<1>2. ChallengesInv /\ [PartsNext]_partsVars => ChallengesInv'
  <2> SUFFICES ASSUME ChallengesInv, [PartsNext]_partsVars PROVE [C!Next]_(C!vars)
    BY ChallengesStep
  <2> QED BY DEF PartsNext, partsVars, panelVars, C!vars
<1>3. ChallengesInv => AnswersAreJudged
  <2> SUFFICES ASSUME ChallengesInv PROVE C!JudgedRightly
    BY DEF AnswersAreJudged
  <2>1. ASSUME NEW p \in Panels PROVE VerdictFits(p) /\ panel[p].progress \subseteq Solved
    BY DEF ChallengesInv, PanelFits
  <2>2. \A q \in stored \cup UNION {panel[p].progress : p \in Panels} :
           \E t \in tried : t[1] = q /\ C!Solves(q, t[2])
    BY <2>1 DEF ChallengesInv, Solved
  <2> QED BY <2>1, <2>2 DEF C!JudgedRightly, VerdictFits, Agrees
<1> QED BY <1>1, <1>2, <1>3, PTL DEF PartsSpec

=============================================================================

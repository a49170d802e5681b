------------------------------- MODULE Ledger -------------------------------
(***************************************************************************)
(* The request log: what becomes of the record every handler writes when   *)
(* it ends.  A bounded channel that never blocks the handler, one writer   *)
(* behind it, a table that an older binary may have created, and the       *)
(* readers of the dashboard.                                               *)
(*                                                                         *)
(* A record is the request it is about (KindOf, and the time its handler   *)
(* began); the table is the sequence of requests whose rows it holds.      *)
(* Readers change nothing: they are operators on the table, and a page     *)
(* that asks twice sees one prefix of it and then a longer one.            *)
(***************************************************************************)
EXTENDS Integers, FiniteSets, SequencesExt

CONSTANTS
  Requests,
  KindOf,        \* request -> what its record says (see Kind)
  Keys,          \* models and principals, in string order
  Viewers,       \* identities that open the dashboard
  Migrations,    \* columns added since the first release, oldest first
  IndexedCols,   \* the ones an index is made over
  Cap,           \* records the channel holds (256)
  Conns,         \* connections of the Postgres pool
  Sec, FracRank, \* ticks in a second, and their places when written as text
  Span, Width,   \* a traffic window and its buckets
  Day,           \* ticks in a day
  RowLimit,      \* series rows before the rest is folded (12)
  ListLimit,     \* rows of a session listing (100)
  Origin, MaxTime, MaxFaults   \* the clock runs from Origin to MaxTime

Columns == {Migrations[i] : i \in DOMAIN Migrations}
NoTable == {"no table"}
None == "none"

ASSUME LedgerAssumption ==
  /\ Cap \in Nat \ {0} /\ Conns \in Nat \ {0}
  /\ Sec \in Nat \ {0} /\ FracRank \in [0 .. Sec - 1 -> 0 .. Sec - 1]
  /\ Width \in Nat \ {0} /\ Day \in Nat \ {0} /\ Width % Sec = 0 /\ Day % Sec = 0
  /\ Span \in Nat /\ RowLimit \in Nat \ {0} /\ ListLimit \in Nat \ {0}
  /\ IndexedCols \subseteq Columns /\ None \notin Requests
  /\ MaxTime \in Nat /\ Origin \in Span .. MaxTime /\ MaxFaults \in Nat
  /\ Migrations \in Seq(STRING)

VARIABLES
  now,
  backend,   \* "postgres", "sqlite" or "off", by the flags of the process
  cols,      \* migrated columns the table has, or NoTable
  proc,      \* phase of the router process
  sink,      \* "table", or "nop" after a failed opening
  outage,    \* a store operation failed during this boot
  ch,        \* the channel: requests whose records wait
  closed,    \* close(s.ch) has happened
  cur,       \* the record the writer is inserting
  ended,     \* the writer has closed s.done
  held,      \* connections that dashboard queries hold
  stored,    \* the table, in insertion order
  req,       \* per request: [pc, ts]
  fate,      \* what kept a finished request's record out of the table
  logged,    \* history: records the channel accepted, in order
  faults

procVars == <<proc, sink, outage, closed, ended>>
vars == <<now, backend, cols, procVars, ch, cur, held, stored, req, fate, logged, faults>>

-----------------------------------------------------------------------------
(* What a record says.                                                     *)
Kind == [who : STRING, via : STRING, sess : STRING, transport : STRING,
         upstream : Nat, envelope : BOOLEAN, refused : STRING, status : Nat]

ASSUME RecordAssumption ==
  /\ KindOf \in [Requests -> Kind] /\ Keys \in Seq(STRING)
  /\ \A r \in Requests : {KindOf[r].who, KindOf[r].via} \subseteq ToSet(Keys)

ErrorClassOf(transport, upstream, envelope) ==
  CASE transport # "" -> transport
    [] transport = "" /\ upstream >= 500 -> "server_error"
    [] transport = "" /\ upstream = 429 -> "rate_limited"
    [] transport = "" /\ upstream >= 400 /\ upstream < 500 /\ upstream # 429 -> "client_error"
    [] OTHER -> IF envelope THEN "error_envelope" ELSE ""

Refusals == {"privacy_refused", "scope_refused"}

(* The class of the final attempt; a policy refusal overrides it.          *)
Class(r) ==
  LET k == KindOf[r] IN
  IF k.refused # "" THEN k.refused
  ELSE IF k.via = "" THEN "" ELSE ErrorClassOf(k.transport, k.upstream, k.envelope)

IsFailure(r) ==
  IF Class(r) # "" THEN Class(r) \notin {"client_error"} \cup Refusals
  ELSE KindOf[r].status >= 500

(* usageSQL has its own idea of a failure, which counts refusals.          *)
IsUsageFailure(r) ==
  IF Class(r) # "" THEN Class(r) # "client_error" ELSE KindOf[r].status >= 500

-----------------------------------------------------------------------------
(* Opening the log.  Any failure leaves a router that logs nothing.        *)
Idle == [pc |-> "idle", ts |-> 0]
(* An owner, or a dashboard without identities: nothing is filtered.       *)
Unrestricted == [who |-> "", owner |-> TRUE]

Init ==
  /\ now = Origin
  /\ backend \in {"postgres", "sqlite", "off"}
  /\ cols \in {NoTable} \cup SUBSET Columns
  /\ proc = "off" /\ sink = "table" /\ outage = FALSE /\ closed = FALSE /\ ended = FALSE
  /\ ch = <<>> /\ cur = None /\ held = 0 /\ stored = <<>> /\ logged = <<>>
  /\ req = [r \in Requests |-> Idle]
  /\ fate = [r \in Requests |-> ""]
  /\ faults = 0

Fault == faults < MaxFaults /\ faults' = faults + 1

(* A phase of the opening succeeds, or cannot: then the sink is a no-op.   *)
Reach(phase) == proc' = phase /\ UNCHANGED sink
GiveUp == proc' = "serving" /\ sink' = "nop"

Boot ==
  /\ proc = "off"
  /\ IF backend = "off" THEN GiveUp ELSE proc' = "schema" /\ sink' = "table"
  /\ outage' = FALSE /\ closed' = FALSE /\ ended' = FALSE
  /\ UNCHANGED <<now, backend, cols, ch, cur, held, stored, req, fate, logged, faults>>

(* Mutant: the indexes are made with the schema, before the migration.     *)
BootstrapIndexes ==
  /\ proc = "schema"
  /\ cols' = IF cols = NoTable \/ backend = "postgres" THEN Columns ELSE cols
  /\ IF backend = "postgres" THEN Reach("serving")
     ELSE IF cols = NoTable \/ IndexedCols \subseteq cols THEN Reach("migrate") ELSE GiveUp

(* The fresh schema has every column; Postgres adds the missing ones and   *)
(* their indexes in the same batch, SQLite afterwards and one by one.      *)
Bootstrap ==
  /\ proc = "schema"
  /\ cols' = IF cols = NoTable \/ backend = "postgres" THEN Columns ELSE cols
  /\ Reach(IF backend = "postgres" THEN "serving" ELSE "migrate")

Missing == {i \in DOMAIN Migrations : Migrations[i] \notin cols}

Migrate ==
  /\ proc = "migrate"
  /\ IF Missing = {}
     THEN Reach("index") /\ UNCHANGED cols
     ELSE /\ cols' = cols \cup {Migrations[CHOOSE i \in Missing : \A j \in Missing : i <= j]}
          /\ Reach("migrate")

(* Indexes over migrated columns, then the prepared insert; each fails     *)
(* when a column it names is not there.                                    *)
MakeIndexes ==
  /\ proc = "index"
  /\ IF IndexedCols \subseteq cols THEN Reach("prepare") ELSE GiveUp
  /\ UNCHANGED cols

Prepare ==
  /\ proc = "prepare"
  /\ IF Columns \subseteq cols THEN Reach("serving") ELSE GiveUp
  /\ UNCHANGED cols

Open ==
  /\ Bootstrap \/ Migrate \/ MakeIndexes \/ Prepare
  /\ UNCHANGED <<now, backend, outage, closed, ended, ch, cur, held, stored, req, fate, logged,
                 faults>>

OpenFails ==
  /\ proc \in {"schema", "migrate", "index", "prepare"}
  /\ Fault
  /\ GiveUp /\ outage' = TRUE
  /\ UNCHANGED <<now, backend, cols, closed, ended, ch, cur, held, stored, req, fate, logged>>

-----------------------------------------------------------------------------
(* Handlers.  A record carries the time its handler began and is written   *)
(* when the handler ends, so rows reach the table out of their own order.  *)
Running == {r \in Requests : req[r].pc = "running"}

Begin(r) ==
  /\ proc = "serving"
  /\ req[r].pc = "idle"
  /\ req' = [req EXCEPT ![r] = [pc |-> "running", ts |-> now]]
  /\ UNCHANGED <<now, backend, cols, procVars, ch, cur, held, stored, fate, logged, faults>>

(* Mutant: a full channel makes room by discarding its oldest record.      *)
LogEvictsOldest(r) ==
  /\ ~closed
  /\ logged' = Append(logged, r)
  /\ ch' = Append(IF Len(ch) < Cap THEN ch ELSE Tail(ch), r)
  /\ UNCHANGED fate

(* Sink.Log: never blocks.  Sending on the closed channel panics, which    *)
(* skips what comes after the record (httpx.Recover logs it).              *)
Log(r) ==
  \/ sink = "nop" /\ fate' = [fate EXCEPT ![r] = "off"] /\ UNCHANGED <<ch, logged>>
  \/ sink # "nop" /\ closed /\ fate' = [fate EXCEPT ![r] = "panic"] /\ UNCHANGED <<ch, logged>>
  \/ /\ sink # "nop" /\ ~closed /\ Len(ch) < Cap
     /\ ch' = Append(ch, r) /\ logged' = Append(logged, r) /\ UNCHANGED fate
  \/ /\ sink # "nop" /\ ~closed /\ Len(ch) = Cap
     /\ fate' = [fate EXCEPT ![r] = "dropped"] /\ UNCHANGED <<ch, logged>>

Finish(r) ==
  /\ r \in Running
  /\ req' = [req EXCEPT ![r].pc = "done"]
  /\ Log(r)
  /\ UNCHANGED <<now, backend, cols, procVars, cur, held, stored, faults>>

-----------------------------------------------------------------------------
(* The writer: for rec := range s.ch { insert }, then close(done).         *)
Writes == sink = "table" /\ proc \in {"serving", "draining", "closing"} /\ ~ended

Take ==
  /\ Writes /\ cur = None /\ ch # <<>>
  /\ cur' = Head(ch) /\ ch' = Tail(ch)
  /\ UNCHANGED <<now, backend, cols, procVars, held, stored, req, fate, logged, faults>>

(* SQLite has one connection, for the writer and for the dashboard.        *)
PoolSize == IF backend = "sqlite" THEN 1 ELSE Conns

(* One insert, on a free connection.  An error is logged and the record is *)
(* gone, though a deadline can also pass after the row was committed.      *)
(* With no connection free SQLite waits for one; on Postgres the wait is   *)
(* part of the insert and its deadline passes.                             *)
Insert ==
  /\ Writes /\ cur # None
  /\ cur' = None
  /\ \/ /\ held < PoolSize /\ stored' = Append(stored, cur)
        /\ UNCHANGED <<fate, faults>>
     \/ /\ held < PoolSize /\ Fault /\ stored' \in {stored, Append(stored, cur)}
        /\ fate' = [fate EXCEPT ![cur] = "failed"]
     \/ /\ held = PoolSize /\ backend = "postgres"
        /\ fate' = [fate EXCEPT ![cur] = "failed"]
        /\ UNCHANGED <<stored, faults>>
  /\ UNCHANGED <<now, backend, cols, procVars, ch, held, req, logged>>

(* Mutant: the writer never learns that the channel was closed.            *)
WriterNeverEnds ==
  /\ Writes /\ cur = None /\ ch = <<>> /\ closed /\ FALSE
  /\ UNCHANGED vars

WriterEnds ==
  /\ Writes /\ cur = None /\ ch = <<>> /\ closed
  /\ ended' = TRUE
  /\ UNCHANGED <<now, backend, cols, proc, sink, outage, closed, ch, cur, held, stored, req, fate,
                 logged, faults>>

Writer == Take \/ Insert \/ WriterEnds

-----------------------------------------------------------------------------
(* A dashboard query holds a connection until the store has answered it or *)
(* its reader leaves: it runs on the request's context, which has no       *)
(* deadline and which Shutdown does not cancel.  Handlers that outlive     *)
(* Shutdown start queries until Close comes to the pool.                   *)
QueryStarts ==
  /\ Writes /\ held < PoolSize
  /\ held' = held + 1
  /\ UNCHANGED <<now, backend, cols, procVars, ch, cur, stored, req, fate, logged, faults>>

QueryEnds ==
  /\ held > 0
  /\ held' = held - 1
  /\ UNCHANGED <<now, backend, cols, procVars, ch, cur, stored, req, fate, logged, faults>>

-----------------------------------------------------------------------------
(* Stopping.  Shutdown waits for the handlers until its deadline; then the *)
(* deferred Close runs, with handlers possibly still at work; then the     *)
(* process exits.                                                          *)
Stop ==
  /\ proc = "serving"
  /\ proc' = "draining"
  /\ UNCHANGED <<now, backend, cols, sink, outage, closed, ended, ch, cur, held, stored, req, fate,
                 logged, faults>>

ShutdownReturns ==
  /\ proc = "draining"
  /\ proc' = "closing" /\ closed' = TRUE
  /\ UNCHANGED <<now, backend, cols, sink, outage, ended, ch, cur, held, stored, req, fate, logged,
                 faults>>

(* The process is gone, and with it what it held in memory: its handlers   *)
(* and the records it had accepted but not written.                        *)
Gone(why) ==
  /\ proc' = "off" /\ ch' = <<>> /\ cur' = None /\ held' = 0
  /\ req' = [r \in Requests |-> IF r \in Running THEN [req[r] EXCEPT !.pc = "killed"] ELSE req[r]]
  /\ fate' = [r \in Requests |-> IF r = cur \/ r \in ToSet(ch) THEN why ELSE fate[r]]

(* Close has waited for the writer, on Postgres also for every connection  *)
(* of the pool, and main returns.                                          *)
Exit ==
  /\ proc = "closing" /\ (sink = "table" => ended) /\ (backend = "postgres" => held = 0)
  /\ Gone("abandoned")
  /\ UNCHANGED <<now, backend, cols, sink, outage, closed, ended, stored, logged, faults>>

(* A crash, also in the middle of an insert that may have been committed.  *)
Crash ==
  /\ proc # "off"
  /\ Fault
  /\ stored' \in {stored} \cup {Append(stored, r) : r \in {cur} \ {None}}
  /\ Gone("crash")
  /\ UNCHANGED <<now, backend, cols, sink, outage, closed, ended, logged>>

-----------------------------------------------------------------------------
(* Readers.  Every query is over the rows of a window.  SQLite compares    *)
(* times as text whose fraction has lost its trailing zeros, so within one *)
(* second they come in another order ("5.1Z" after "5.15Z", "5Z" last).    *)
StoreTime(t) == IF backend = "sqlite" THEN Sec * (t \div Sec) + FracRank[t % Sec] ELSE t

RowsOf(table, from) == {r \in ToSet(table) : StoreTime(req[r].ts) > StoreTime(from)}
Rows(from) == RowsOf(stored, from)

(* The usage cut-off is written by SQLite's driver, with a blank where ts  *)
(* has a T: its window begins with the whole day.                          *)
UsageRows(from) ==
  {r \in ToSet(stored) :
     req[r].ts > IF backend = "sqlite" THEN from - (from % Day) - 1 ELSE from}

UsageRow(who, R) ==
  LET mine == {r \in R : KindOf[r].who = who} IN
  [who |-> who, requests |-> Cardinality(mine),
   failures |-> Cardinality({r \in mine : IsUsageFailure(r)})]

UsageByPrincipal(from) ==
  LET R == UsageRows(from) IN {UsageRow(who, R) : who \in {KindOf[r].who : r \in R}}

(* handleDashUsage for an identity.                                        *)
DashUsage(id, from) ==
  {u \in UsageByPrincipal(from) : id.owner \/ u.who = id.who}

-----------------------------------------------------------------------------
(* What is sorted is given by its result: everybody's place is the number  *)
(* of those in front.                                                      *)
Ranked(S, front) ==
  [i \in 1 .. Cardinality(S) |-> CHOOSE x \in S : Cardinality(front[x]) = i - 1]

(* A session's requests, newest first as the store has it.                 *)
RowId(r) == SelectInSeq(stored, LAMBDA x : x = r)
Newer(a, b) ==
  \/ StoreTime(req[a].ts) > StoreTime(req[b].ts)
  \/ StoreTime(req[a].ts) = StoreTime(req[b].ts) /\ RowId(a) < RowId(b)

Newest(R) == Ranked(R, [r \in R |-> {t \in R : Newer(t, r)}])

(* Mutant: the limit is applied to the rows as they lie in the table.      *)
FirstRowsUnsorted(R) ==
  LET s == SelectSeq(stored, LAMBDA r : r \in R) IN SubSeq(s, 1, IF Len(s) < ListLimit THEN Len(s) ELSE ListLimit)

FirstRows(R) ==
  LET s == Newest(R) IN SubSeq(s, 1, IF Len(s) < ListLimit THEN Len(s) ELSE ListLimit)

RequestsBySession(sess, who) ==
  FirstRows({r \in ToSet(stored) : KindOf[r].sess = sess /\ (who # "" => KindOf[r].who = who)})

DashRequests(id, sess) ==
  IF id.owner THEN RequestsBySession(sess, "")
  ELSE IF id.who = "" THEN <<>>
  ELSE RequestsBySession(sess, id.who)

-----------------------------------------------------------------------------
(* The traffic series: one row per key, busiest first, every row with the  *)
(* whole grid of buckets; rows past the limit are added up in one.         *)
KeyOf(r, by) == IF by = "model" THEN KindOf[r].via ELSE KindOf[r].who

Start(from) == from - (from % Width)
Grid(from) == 0 .. (now - Start(from)) \div Width
BucketOf(r, from) == (req[r].ts - (req[r].ts % Width) - Start(from)) \div Width

SeriesRow(key, R, from) ==
  [key |-> key,
   buckets |-> [i \in Grid(from) |->
     LET slot == {r \in R : BucketOf(r, from) = i} IN
     [requests |-> Cardinality(slot), errors |-> Cardinality({r \in slot : IsFailure(r)})]]]

KeyRank(k) == CHOOSE i \in DOMAIN Keys : Keys[i] = k

(* Mutant: the rows past the limit are left out.                           *)
FoldedAway(keys, limit, from, R, by) ==
  [i \in 1 .. limit |-> SeriesRow(keys[i], {r \in R : KeyOf(r, by) = keys[i]}, from)]

Folded(keys, limit, from, R, by) ==
  [i \in 1 .. limit |-> SeriesRow(keys[i], {r \in R : KeyOf(r, by) = keys[i]}, from)]
    \o <<SeriesRow("other", {r \in R : \E i \in limit + 1 .. Len(keys) : KeyOf(r, by) = keys[i]}, from)>>

OfKey(R, by, k) == {r \in R : KeyOf(r, by) = k}
Busier(R, by, j, k) ==
  LET n(key) == Cardinality(OfKey(R, by, key))
  IN \/ n(j) > n(k)
     \/ n(j) = n(k) /\ KeyRank(j) < KeyRank(k)

Busiest(R, by) ==
  LET keys == {KeyOf(r, by) : r \in R} IN
  Ranked(keys, [k \in keys |-> {j \in keys : Busier(R, by, j, k)}])

Series(R, from, by) ==
  LET keys == Busiest(R, by) IN
  IF Len(keys) > RowLimit
  THEN Folded(keys, RowLimit, from, R, by)
  ELSE [i \in DOMAIN keys |-> SeriesRow(keys[i], OfKey(R, by, keys[i]), from)]

(* A person's own row.                                                     *)
Own(rows, id, by) ==
  IF ~id.owner /\ by = "principal"
  THEN LET mine == {i \in DOMAIN rows : rows[i].key = id.who}
           at == Ranked(mine, [i \in mine |-> {j \in mine : j < i}])
       IN [k \in DOMAIN at |-> rows[at[k]]]
  ELSE rows

(* The traffic page: the series from the first n rows, then the failures   *)
(* from all of them, with the same cut-off; "answered" are the queries the *)
(* store answers.  Without the series there is no page, without the list   *)
(* of failures the page shows an empty one.                                *)
TrafficSeries(n, by, from) == Series(RowsOf(SubSeq(stored, 1, n), from), from, by)

TrafficFailures(from) == {r \in Rows(from) : IsFailure(r)}

DashTraffic(series, id, by, from, answered) ==
  IF "series" \notin answered
  THEN [available |-> FALSE, rows |-> <<>>, failures |-> {}]
  ELSE [available |-> TRUE, rows |-> Own(series, id, by),
        failures |-> IF "failures" \in answered THEN TrafficFailures(from) ELSE {}]

-----------------------------------------------------------------------------
Tick ==
  /\ now < MaxTime /\ now' = now + 1
  /\ UNCHANGED <<backend, cols, procVars, ch, cur, held, stored, req, fate, logged, faults>>

Next ==
  \/ Boot \/ Open \/ OpenFails
  \/ \E r \in Requests : Begin(r) \/ Finish(r)
  \/ Writer
  \/ QueryStarts \/ QueryEnds
  \/ Stop \/ ShutdownReturns \/ Exit \/ Crash
  \/ Tick

Spec == Init /\ [][Next]_vars

(* The writer is a goroutine; its inserts have a deadline on Postgres and  *)
(* none on SQLite, and no query has one.  Shutdown does, and main goes on  *)
(* to its end once Close has returned.                                     *)
FairSpec ==
  /\ Spec
  /\ WF_vars(Take \/ WriterEnds)
  /\ WF_vars(Insert /\ backend = "postgres")
  /\ WF_vars(ShutdownReturns) /\ WF_vars(Exit)

-----------------------------------------------------------------------------
(* Every variable keeps its type, and the channel never holds more than    *)
(* its capacity.                                                           *)
TypeOK ==
  /\ now \in Span .. MaxTime /\ backend \in {"postgres", "sqlite", "off"}
  /\ cols = NoTable \/ cols \subseteq Columns
  /\ proc \in {"off", "schema", "migrate", "index", "prepare", "serving", "draining", "closing"}
  /\ sink \in {"table", "nop"} /\ {outage, closed, ended} \subseteq BOOLEAN
  /\ ch \in Seq(Requests) /\ Len(ch) <= Cap
  /\ cur \in Requests \cup {None} /\ held \in 0 .. PoolSize
  /\ stored \in Seq(Requests) /\ logged \in Seq(Requests)
  /\ req \in [Requests -> [pc : {"idle", "running", "done", "killed"}, ts : 0 .. MaxTime]]
  /\ fate \in [Requests -> {"", "off", "panic", "dropped", "failed", "crash", "abandoned"}]
  /\ faults \in 0 .. MaxFaults

(* Rows are inserted in the order the records were accepted, and none      *)
(* twice, across full channels, failed inserts, crashes and restarts.      *)
RowsInLogOrder ==
  LET at(r) == SelectInSeq(logged, LAMBDA x : x = r)
      line == stored \o (IF cur = None THEN <<>> ELSE <<cur>>) \o ch
  IN \A i, j \in DOMAIN line : i < j => at(line[i]) < at(line[j])

(* Every handler that ended has its record in the table, on its way there, *)
(* or accounted for, exactly once: none is in two places at a time, and    *)
(* only a deadline that passed after the commit is both failed and stored. *)
RecordAccounted ==
  \A r \in Requests :
    LET places == {p \in {"table", "channel", "writer", "fate"} :
                     \/ p = "table" /\ r \in ToSet(stored)
                     \/ p = "channel" /\ r \in ToSet(ch)
                     \/ p = "writer" /\ r = cur
                     \/ p = "fate" /\ fate[r] \notin {"", "failed", "crash"}}
    IN /\ Cardinality(places) <= 1
       /\ req[r].pc = "done" => places # {} \/ fate[r] \in {"failed", "crash"}

(* An orderly stop, also one whose handlers outlived the shutdown, leaves  *)
(* no accepted record behind unwritten: Close drains the channel.          *)
StopDrains == \A r \in Requests : fate[r] # "abandoned"

(* Records are kept: stored once and in order, on their way, or accounted  *)
(* for, and an orderly stop leaves none behind.                            *)
RecordsKept == TypeOK /\ RowsInLogOrder /\ RecordAccounted /\ StopDrains

(* A table that an older binary made, or a crash left half migrated, never *)
(* costs the log: only a store that failed during the opening does, and    *)
(* the flag that turns it off.                                             *)
NopMeansOutage == (sink = "nop" => outage \/ backend = "off") /\ (cur # None => Columns \subseteq cols)

(* What the buckets of one series row come to.                             *)
RowRequests(row) == SumFunction([b \in DOMAIN row.buckets |-> row.buckets[b].requests])
RowErrors(row) == SumFunction([b \in DOMAIN row.buckets |-> row.buckets[b].errors])

(* Every row of a window is in exactly one bucket of one series row,       *)
(* however many rows were folded; and in one row of the usage panel.       *)
SeriesConserves ==
  \A by \in {"model", "principal"} :
    LET from == now - Span
        s == Series(Rows(from), from, by)
    IN /\ Len(s) <= RowLimit + 1
       /\ \A b \in Grid(from) :
            SumFunction([i \in DOMAIN s |-> s[i].buckets[b].requests])
              = Cardinality({r \in Rows(from) : BucketOf(r, from) = b})
       /\ SumFunction([i \in DOMAIN s |-> RowRequests(s[i])]) = Cardinality(Rows(from))
       /\ SumFunction([u \in UsageByPrincipal(from) |-> u.requests]) >= Cardinality(Rows(from))

(* The errors charted on the traffic page are all in the list of failures  *)
(* below it, though the two come from queries made one after the other:    *)
(* and when no row came in between, chart and list agree.  Not so when the *)
(* second query fails: the page then shows the errors and an empty list.   *)
ErrorsExplained ==
  \A n \in 0 .. Len(stored), by \in {"model", "principal"} :
    LET series == TrafficSeries(n, by, now - Span) IN
    \A id \in Viewers, answered \in SUBSET {"series", "failures"} :
      LET page == DashTraffic(series, id, by, now - Span, answered)
          errors == SumFunction([i \in DOMAIN page.rows |-> RowErrors(page.rows[i])])
      IN "failures" \in answered =>
           /\ errors <= Cardinality(page.failures)
           /\ n = Len(stored) /\ (id.owner \/ by = "model") => errors = Cardinality(page.failures)

(* The charts add up: every row of the window once, folded or not, and no  *)
(* error on the page that its list of failures does not explain, when the  *)
(* store gave that list.                                                   *)
ChartsAddUp == SeriesConserves /\ ErrorsExplained

(* Somebody who is not an owner sees no one else's rows: not in the usage  *)
(* panel, not in a session listing; and what the traffic by principal      *)
(* counts for them are all their own requests of the window, or nothing    *)
(* when their row was folded.  A person named "other" is left out of the   *)
(* last part: the folded row of everybody past the limit has that key.     *)
OwnRowsOnly ==
  \A id \in Viewers : ~id.owner =>
    /\ \A u \in DashUsage(id, now - Span) : u.who = id.who
    /\ \A r \in Requests :
         r \in ToSet(DashRequests(id, KindOf[r].sess)) => KindOf[r].who = id.who
    /\ LET series == TrafficSeries(Len(stored), "principal", now - Span)
           rows == DashTraffic(series, id, "principal", now - Span, {"series"}).rows IN
       id.who # "other" =>
         SumFunction([i \in DOMAIN rows |-> RowRequests(rows[i])])
           \in {0, Cardinality(OfKey(Rows(now - Span), "principal", id.who))}

(* A session listing is in falling order of time and leaves out nothing    *)
(* newer than what it shows, though rows are stored in order of ending; on *)
(* SQLite this is so to the second.                                        *)
Instant(r) == IF backend = "sqlite" THEN req[r].ts \div Sec ELSE req[r].ts

NewestFirst ==
  \A sess \in {KindOf[r].sess : r \in Requests} :
    LET shown == DashRequests(Unrestricted, sess) IN
    /\ \A i, j \in DOMAIN shown : i < j => Instant(shown[i]) >= Instant(shown[j])
    /\ \A r \in ToSet(stored) \ ToSet(shown) : KindOf[r].sess = sess =>
         Len(shown) = ListLimit /\ Instant(r) <= Instant(shown[Len(shown)])

(* Listings show the newest rows, and to each viewer only the viewer's.    *)
ListingsRight == OwnRowsOnly /\ NewestFirst

(* What keeps the log from moving.  An insert into SQLite has no deadline: *)
(* the file may not answer, and its one connection may be a query's.  And  *)
(* Close waits for a query that holds a connection of the Postgres pool.   *)
InsertHangs == <>[](backend = "sqlite" /\ cur # None)
QueryHangs == <>[](backend = "postgres" /\ held > 0)

(* An accepted record does not wait for ever: on Postgres whatever the     *)
(* store does and whoever holds its connections, on SQLite while inserts   *)
(* return.                                                                 *)
QueueMoves == InsertHangs \/ \A r \in Requests : r \in ToSet(ch) ~> r \notin ToSet(ch)

(* A stop completes, unless an insert or a query hangs: Shutdown times     *)
(* out, the writer drains and ends, and handlers are not waited for.       *)
StopCompletes == InsertHangs \/ QueryHangs \/ (proc = "draining" ~> proc = "off")

(* The log never stands still: its channel moves while it is open, and a   *)
(* stop completes, unless a call that has no deadline never returns.       *)
LogLives == QueueMoves /\ StopCompletes
====

------------------------------ MODULE SeedScripts ------------------------------
(* scripts/seed_catalog.py fills the catalogue, in one commit for the items,   *)
(* one for the users and one for the rebuilt vector index, and                 *)
(* scripts/replay_clicks.py then emits a bounded number of synthetic search,   *)
(* impression and click events and tees the clicks to the evaluation's log.    *)
(* What the rows and events contain is random data and left out.               *)
EXTENDS Integers

CONSTANTS NumEvents,         \* the argument of replay_clicks
          FlushEvery,        \* SEND_FLUSH_EVERY
          MaxQueries,        \* queries of a session, at most
          MaxClicks,         \* clicks of an impression, at most
          MaxScriptFaults    \* bound on kills, exceptions and lost events

ASSUME ScriptsAssumption ==
  /\ NumEvents \in Nat /\ FlushEvery \in Nat \ {0}
  /\ MaxQueries \in Nat \ {0} /\ MaxClicks \in Nat

VARIABLES db,           \* Postgres: are there items, users, and which index
          seed,         \* the seeder; gap: a run ended between its commits
          seededUsers,  \* is artifacts/seeded_users.txt a dump of the users
          replayer,     \* the replayer and its position in the session
          events,       \* what became of the events: buffered, delivered, lost
          evalRows,     \* rows of the evaluation log: buffered, saved
          scriptFaults

scriptVars == <<db, seed, seededUsers, replayer, events, evalRows, scriptFaults>>
seedVars == <<db, seed, seededUsers>>
replayVars == <<replayer, events, evalRows>>

(* Migration 0002 has created the index on the empty table, or not been run.   *)
ScriptsInit ==
  /\ \E index \in {"none", "untrained"} : db = [items |-> FALSE, users |-> FALSE, index |-> index]
  /\ seed = [pc |-> "off", exit |-> -1, gap |-> FALSE]
  /\ seededUsers = FALSE
  /\ replayer = [pc |-> "off", exit |-> -1, emitted |-> 0, flushed |-> 0, queries |-> 0, clicks |-> 0]
  /\ events = [buffered |-> 0, delivered |-> 0, lost |-> 0]
  /\ evalRows = [buffered |-> 0, saved |-> 0]
  /\ scriptFaults = 0

ScriptFault == scriptFaults < MaxScriptFaults /\ scriptFaults' = scriptFaults + 1

--------------------------------------------------------------------------------
(* seed_catalog.                                                               *)
StartSeed ==
  /\ seed.pc = "off" /\ replayer.pc = "off"
  /\ seed' = [seed EXCEPT !.pc = "count", !.exit = -1]
  /\ UNCHANGED <<db, seededUsers, replayVars, scriptFaults>>

CountItems ==
  /\ seed.pc = "count"
  /\ seed' = [seed EXCEPT !.pc = IF db.items THEN "index" ELSE "items"]
  /\ UNCHANGED <<db, seededUsers, replayVars, scriptFaults>>

(* The chunks of a table are one transaction.                                  *)
BulkInsertItems ==
  /\ seed.pc = "items"
  /\ db' = [db EXCEPT !.items = TRUE]
  /\ seed' = [seed EXCEPT !.pc = "users"]
  /\ UNCHANGED <<seededUsers, replayVars, scriptFaults>>

BulkInsertUsers ==
  /\ seed.pc = "users"
  /\ db' = [db EXCEPT !.users = TRUE]
  /\ seed' = [seed EXCEPT !.pc = "rebuild"]
  /\ UNCHANGED <<seededUsers, replayVars, scriptFaults>>

CheckIndex ==
  /\ seed.pc = "index"
  /\ seed' = [seed EXCEPT !.pc = IF db.index = "none" THEN "rebuild" ELSE "dump"]
  /\ UNCHANGED <<db, seededUsers, replayVars, scriptFaults>>

RebuildIndex ==
  /\ seed.pc = "rebuild"
  /\ db' = [db EXCEPT !.index = IF db.items THEN "trained" ELSE "untrained"]
  /\ seed' = [seed EXCEPT !.pc = "dump"]
  /\ UNCHANGED <<seededUsers, replayVars, scriptFaults>>

(* A file that cannot be written is only warned of.                            *)
WriteSeededUsers ==
  /\ seed.pc = "dump"
  /\ \/ seededUsers' = db.users /\ UNCHANGED scriptFaults
     \/ ScriptFault /\ UNCHANGED seededUsers
  /\ seed' = [seed EXCEPT !.pc = "off", !.exit = 0]
  /\ UNCHANGED <<db, replayVars>>

SeedEnds ==
  /\ seed.pc # "off" /\ ScriptFault
  /\ seed' = [seed EXCEPT !.pc = "off", !.exit = 1,
       !.gap = @ \/ seed.pc = "users" \/ (seed.pc = "rebuild" /\ db.index = "untrained")]
  /\ UNCHANGED <<db, seededUsers, replayVars>>

SeedNext ==
  \/ StartSeed \/ CountItems \/ BulkInsertItems \/ BulkInsertUsers \/ CheckIndex \/ RebuildIndex
  \/ WriteSeededUsers \/ SeedEnds

--------------------------------------------------------------------------------
(* replay_clicks.  It refuses to run without users.                            *)
StartReplayer ==
  /\ replayer.pc = "off" /\ replayer.exit = -1 /\ seed.pc = "off"
  /\ replayer' = IF db.users THEN [replayer EXCEPT !.pc = "loop"] ELSE [replayer EXCEPT !.exit = 1]
  /\ UNCHANGED <<events, evalRows, scriptFaults, seedVars>>

More == replayer.emitted < NumEvents
ClicksLeft == replayer.clicks > 0 /\ More

Emit(then) ==
  /\ events' = [events EXCEPT !.buffered = @ + 1]
  /\ replayer' = [then EXCEPT !.emitted = @ + 1]
  /\ UNCHANGED <<scriptFaults, seedVars>>

NewSession ==
  /\ replayer.pc = "loop" /\ More
  /\ \E n \in 1..MaxQueries : replayer' = [replayer EXCEPT !.pc = "query", !.queries = n]
  /\ UNCHANGED <<events, evalRows, scriptFaults, seedVars>>

EmitSearch ==
  /\ replayer.pc = "query" /\ replayer.queries > 0 /\ More
  /\ Emit([replayer EXCEPT !.queries = @ - 1,
             !.pc = IF replayer.emitted + 1 < NumEvents THEN "impression" ELSE "query"])
  /\ UNCHANGED evalRows

(* How many of the shown items a user of some segment clicks.                  *)
ClickCounts == 0..MaxClicks

EmitImpression ==
  /\ replayer.pc = "impression"
  /\ \E n \in ClickCounts : Emit([replayer EXCEPT !.pc = "clicks", !.clicks = n])
  /\ UNCHANGED evalRows

EmitClick ==
  /\ replayer.pc = "clicks" /\ ClicksLeft
  /\ Emit([replayer EXCEPT !.clicks = @ - 1])
  /\ evalRows' = [evalRows EXCEPT !.buffered = @ + 1]

EndQuery ==
  /\ replayer.pc = "clicks" /\ ~ClicksLeft
  /\ replayer' = [replayer EXCEPT !.pc = "query", !.clicks = 0]
  /\ UNCHANGED <<events, evalRows, scriptFaults, seedVars>>

(* Producer and log are flushed on the same cadence.                           *)
Flush ==
  /\ events' = [events EXCEPT !.buffered = 0, !.delivered = @ + events.buffered]
  /\ evalRows' = [buffered |-> 0, saved |-> evalRows.saved + evalRows.buffered]

EndSession ==
  /\ replayer.pc = "query" /\ (replayer.queries = 0 \/ ~More)
  /\ IF replayer.emitted - replayer.flushed >= FlushEvery
     THEN /\ Flush
          /\ replayer' = [replayer EXCEPT !.pc = "loop", !.queries = 0, !.flushed = replayer.emitted]
     ELSE /\ replayer' = [replayer EXCEPT !.pc = "loop", !.queries = 0]
          /\ UNCHANGED <<events, evalRows>>
  /\ UNCHANGED <<scriptFaults, seedVars>>

FinishReplay ==
  /\ replayer.pc = "loop" /\ ~More
  /\ Flush
  /\ replayer' = [replayer EXCEPT !.pc = "off", !.exit = 0]
  /\ UNCHANGED <<scriptFaults, seedVars>>

(* The producer sends in the background.  The future of a send is not awaited: *)
(* an event that cannot be delivered is dropped silently.                      *)
SendInBackground ==
  /\ events.buffered > 0
  /\ \/ events' = [events EXCEPT !.buffered = @ - 1, !.delivered = @ + 1] /\ UNCHANGED scriptFaults
     \/ events' = [events EXCEPT !.buffered = @ - 1, !.lost = @ + 1] /\ ScriptFault
  /\ UNCHANGED <<replayer, evalRows, seedVars>>

(* An exception still flushes and closes; a kill loses what is buffered.       *)
ReplayEnds ==
  /\ replayer.pc # "off" /\ ScriptFault
  /\ \/ Flush
     \/ /\ events' = [events EXCEPT !.buffered = 0, !.lost = @ + events.buffered]
        /\ evalRows' = [evalRows EXCEPT !.buffered = 0]
  /\ replayer' = [replayer EXCEPT !.pc = "off", !.exit = 1]
  /\ UNCHANGED seedVars

ReplayerNext ==
  \/ StartReplayer \/ NewSession \/ EmitSearch \/ EmitImpression \/ EmitClick \/ EndQuery
  \/ EndSession \/ FinishReplay \/ SendInBackground \/ ReplayEnds

ScriptsNext == SeedNext \/ ReplayerNext
ScriptsSpec == ScriptsInit /\ [][ScriptsNext]_scriptVars

--------------------------------------------------------------------------------
(* The variables keep their types.  The replayer never emits more than it was  *)
(* asked for, and neither the producer's buffer nor the unsaved rows of the    *)
(* log outgrow the flush interval and one session (replay_clicks.py:320-326,   *)
(* "bound producer buffer growth").                                            *)
ScriptsTypeOK ==
  /\ db.index \in {"none", "untrained", "trained"}
  /\ seed.pc \in {"off", "count", "items", "users", "index", "rebuild", "dump"}
  /\ replayer.pc \in {"off", "loop", "query", "impression", "clicks"}
  /\ replayer.emitted \in 0..NumEvents
  /\ replayer.emitted = events.buffered + events.delivered + events.lost
  /\ events.buffered \in 0 .. FlushEvery - 1 + MaxQueries * (2 + MaxClicks)
  /\ evalRows.buffered \in 0 .. FlushEvery - 1 + MaxQueries * MaxClicks

(* Exit 0 of the seeder means a complete catalogue: items, users and an index  *)
(* trained on them, although runs are repeated and interrupted anywhere except *)
(* between their commits (after which the next run skips what is missing).     *)
(* Exit 0 of the replayer means that all the events were emitted, which is not *)
(* delivered (a batch that is not accepted is counted as lost), and a log that *)
(* is complete.                                                                *)
ScriptsHonest ==
  /\ seed.exit = 0 => db.items /\ (seed.gap \/ (db.users /\ db.index = "trained"))
  /\ replayer.exit = 0 => /\ replayer.emitted = NumEvents /\ events.buffered = 0
                          /\ evalRows.buffered = 0
================================================================================

--------------------------- MODULE GamePersistence ---------------------------
(***************************************************************************)
(* game::GamePersistence: games in SQLite databases.  An object holds a    *)
(* connection, which can be moved to another object; a connection is to    *)
(* the database file, or to a database in memory, which is gone when the   *)
(* connection is closed.  What SQLite does is external: a statement is     *)
(* carried out as a whole or not at all, and any may fail, that of the     *)
(* constructor too; then what it has opened stays open.                    *)
(*                                                                         *)
(* Of a game: its turn, and the factions of its units and of its cities.   *)
(***************************************************************************)
EXTENDS Naturals, Sequences, FiniteSets, Functions

CONSTANTS
  Objects,           \* the variables that hold a GamePersistence
  Ids,               \* of games
  States,            \* the games there are to save
  LastSecond,        \* bounds of the model: time ends,
  MaxConnections     \* and so many connections are made

PersistenceAssumption ==
  /\ \A s \in States : s.turn \in Nat /\ IsFiniteSet(s.units) /\ IsFiniteSet(s.cities)
  /\ LastSecond \in Nat /\ MaxConnections \in Nat

VARIABLES
  db,                \* by object: the number of its connection, 0 for nullptr
  open,              \* the connections SQLite has open, and to which database
  table,             \* by database: the table "games", by id
  now,               \* nowUtc, in seconds
  listed,            \* what listGames returned: the place of each game in `recent'
                     \* and the second of its updated_at
  recent,            \* history: by database, what was saved last under each id, and
                     \* its place: 1 for the save that came last
  closed,            \* history: how often each connection was closed
  leaked             \* history: the connections that a constructor which threw left open

vars == <<db, open, table, now, listed, recent, closed, leaked>>

\* The databases: the file, and one per connection to ":memory:".
File == 0

Connections == 1 .. MaxConnections

Empty == [i \in {} |-> {}]

With(f, d, e) == [x \in DOMAIN f \cup {d} |-> IF x = d THEN e ELSE f[x]]

\* CREATE TABLE IF NOT EXISTS.
Created(f, d) == IF d \in DOMAIN f THEN f ELSE With(f, d, Empty)

Init ==
  /\ db = [o \in Objects |-> 0]
  /\ open = Empty
  /\ table = [d \in {File} |-> Empty]
  /\ now = 0
  /\ listed = <<>>
  /\ recent = [d \in {File} |-> Empty]
  /\ closed = [c \in Connections |-> 0]
  /\ leaked = {}

\* sqlite3_close(c) with the tables of a database in memory; closing nullptr
\* does nothing.
Close(c) ==
  /\ open' = Restrict(open, DOMAIN open \ {c})
  /\ table' = Restrict(table, {File} \cup (DOMAIN table \ {c}))
  /\ recent' = Restrict(recent, {File} \cup (DOMAIN recent \ {c}))
  /\ closed' = [k \in Connections |-> closed[k] + IF k = c THEN 1 ELSE 0]

\* Connections are numbered in the order in which they are made.
NextConnection == Cardinality(DOMAIN open \cup {k \in Connections : closed[k] > 0}) + 1

\* The constructor opens a new connection and creates the table if need be.
Construct ==
  \E o \in Objects, where \in {File, NextConnection} :
    /\ db[o] = 0
    /\ NextConnection <= MaxConnections
    /\ db' = [db EXCEPT ![o] = NextConnection]
    /\ open' = With(open, NextConnection, where)
    /\ table' = Created(table, where)
    /\ recent' = Created(recent, where)
    /\ UNCHANGED <<now, listed, closed, leaked>>

\* sqlite3_open fails: its connection is closed, the constructor throws, and
\* there is no object.
OpenFails ==
  /\ NextConnection <= MaxConnections
  /\ closed' = [closed EXCEPT ![NextConnection] = 1]
  /\ UNCHANGED <<db, open, table, now, listed, recent, leaked>>

\* createSchema throws, because the file is no database or is locked or the
\* disk is full.  There is no object, so no destructor closes the connection.
CreateSchemaFails ==
  \E where \in {File, NextConnection} :
    /\ NextConnection <= MaxConnections
    /\ open' = With(open, NextConnection, where)
    /\ leaked' = leaked \cup {NextConnection}
    /\ UNCHANGED <<db, table, now, listed, recent, closed>>

\* The end of an object's life; the variable can hold another one later.
Destroy ==
  \E o \in Objects :
    /\ db[o] # 0
    /\ Close(db[o])
    /\ db' = [db EXCEPT ![o] = 0]
    /\ UNCHANGED <<now, listed, leaked>>

\* Mutant: the object that was moved from keeps its connection.
MovedSharing(o, from) == [db EXCEPT ![o] = db[from]]

Moved(o, from) == [db EXCEPT ![o] = db[from], ![from] = 0]

\* o = std::move(from), or o constructed from it; nothing happens to an object
\* that is assigned to itself.
MoveTo ==
  \E o \in Objects, from \in Objects :
    /\ o # from
    /\ db' = Moved(o, from)
    /\ IF db[o] = 0 THEN UNCHANGED <<open, table, recent, closed>> ELSE Close(db[o])
    /\ UNCHANGED <<now, listed, leaked>>

-----------------------------------------------------------------------------
(* The operations.  With a connection that is nullptr, preparing a statement *)
(* fails, and they throw.                                                    *)

CountPlayers(s) == Cardinality(s.units \cup s.cities)

Where(o) == open[db[o]]

\* Of the row that is replaced nothing is left, its created_at included.
Row(s) == [turn |-> s.turn, playerCount |-> CountPlayers(s), createdAt |-> now, updatedAt |-> now, blob |-> s]

Stored(games, id, s) == With(games, id, Row(s))

\* What is saved comes first; what came before it falls back by one place.
Renewed(saves, id, s) ==
  [i \in DOMAIN saves \cup {id} |->
     IF i = id THEN [state |-> s, place |-> 1]
     ELSE [state |-> saves[i].state,
           place |-> IF id \in DOMAIN saves /\ saves[id].place < saves[i].place
                     THEN saves[i].place ELSE saves[i].place + 1]]

\* What came before a game that is deleted moves up.
Without(saves, id) ==
  [i \in DOMAIN saves \ {id} |->
     [state |-> saves[i].state,
      place |-> IF id \in DOMAIN saves /\ saves[id].place < saves[i].place
                THEN saves[i].place - 1 ELSE saves[i].place]]

SaveGame ==
  \E o \in Objects, id \in Ids, s \in States :
    /\ db[o] # 0
    /\ table' = [table EXCEPT ![Where(o)] = Stored(@, id, s)]
    /\ recent' = [recent EXCEPT ![Where(o)] = Renewed(@, id, s)]
    /\ UNCHANGED <<db, open, now, listed, closed, leaked>>

DeleteGame ==
  \E o \in Objects, id \in Ids :
    /\ db[o] # 0
    /\ table' = [table EXCEPT ![Where(o)] = Restrict(@, DOMAIN @ \ {id})]
    /\ recent' = [recent EXCEPT ![Where(o)] = Without(@, id)]
    /\ UNCHANGED <<db, open, now, listed, closed, leaked>>

\* loadGame: the blob, or nothing if it throws.
LoadGame(o, id) ==
  IF db[o] = 0 \/ id \notin DOMAIN table[Where(o)] THEN <<>> ELSE <<table[Where(o)][id].blob>>

\* The orders in which SQLite may return the rows: in descending order of
\* updated_at, those of a second in any.
Listings(games) ==
  {ids \in [1 .. Cardinality(DOMAIN games) -> DOMAIN games] :
     /\ IsInjective(ids)
     /\ \A k, l \in DOMAIN ids : k < l => games[ids[k]].updatedAt >= games[ids[l]].updatedAt}

ListGames ==
  \E o \in Objects :
    /\ db[o] # 0
    /\ \E ids \in Listings(table[Where(o)]) :
         listed' = [k \in DOMAIN ids |->
                      [place |-> recent[Where(o)][ids[k]].place,
                       at |-> table[Where(o)][ids[k]].updatedAt]]
    /\ UNCHANGED <<db, open, table, now, recent, closed, leaked>>

\* The process ends without a destructor; what is in the file stays.
Crash ==
  /\ db' = [o \in Objects |-> 0]
  /\ open' = Empty
  /\ table' = Restrict(table, {File})
  /\ recent' = Restrict(recent, {File})
  /\ closed' = [c \in Connections |-> IF c \in DOMAIN open THEN 1 ELSE closed[c]]
  /\ listed' = <<>>
  /\ leaked' = {}
  /\ UNCHANGED now

Tick ==
  /\ now < LastSecond
  /\ now' = now + 1
  /\ UNCHANGED <<db, open, table, listed, recent, closed, leaked>>

Next ==
  \/ Construct \/ OpenFails \/ CreateSchemaFails \/ Destroy \/ MoveTo
  \/ SaveGame \/ DeleteGame \/ ListGames \/ Crash \/ Tick

Spec == Init /\ [][Next]_vars

-----------------------------------------------------------------------------
(* What is checked. *)

Rows ==
  [turn : Nat, playerCount : Nat, createdAt : 0 .. LastSecond, updatedAt : 0 .. LastSecond,
   blob : States]

TypeOK ==
  /\ db \in [Objects -> {0} \cup Connections]
  /\ DOMAIN open \subseteq Connections
  /\ \A c \in DOMAIN open : open[c] \in {File, c}
  /\ DOMAIN table = {File} \cup {open[c] : c \in DOMAIN open \ leaked}
  /\ \A d \in DOMAIN table : DOMAIN table[d] \subseteq Ids /\ \A i \in DOMAIN table[d] : table[d][i] \in Rows
  /\ now \in 0 .. LastSecond

\* Every open connection belongs to exactly one object, but for those whose
\* constructor threw: they belong to none, and stay open until the process
\* ends.  No object uses a connection that is closed, and none is closed twice,
\* however objects are moved.
ConnectionsAreOwned ==
  /\ \A c \in DOMAIN open : Cardinality({o \in Objects : db[o] = c}) = IF c \in leaked THEN 0 ELSE 1
  /\ leaked \subseteq DOMAIN open
  /\ \A o \in Objects : db[o] # 0 => db[o] \in DOMAIN open
  /\ \A c \in Connections : closed[c] <= 1

\* What is listed of a game is true of the game that loading it gives, all
\* factions counted.
ListingTellsTheGame ==
  \A o \in Objects, i \in Ids :
    \A s \in Range(LoadGame(o, i)) :
      LET row == table[Where(o)][i]
          factions == {f \in UNION {r.units \cup r.cities : r \in States} :
                         f \in s.units \/ f \in s.cities}
      IN  row.turn = s.turn /\ row.playerCount = Cardinality(factions)

\* What was saved last under an id is what any object on the same database
\* loads, and if that was deleted, nothing.
SavedIsLoaded ==
  \A o \in Objects, i \in Ids :
    db[o] # 0 =>
      Range(LoadGame(o, i)) = {recent[Where(o)][k].state : k \in DOMAIN recent[Where(o)] \cap {i}}

\* The games that were saved later are listed first, but for those of the same
\* second, however often games were deleted and saved again.
ListedRecentFirst ==
  \A k, l \in DOMAIN listed :
    k < l => listed[k].place < listed[l].place \/ listed[k].at = listed[l].at

\* The connections, the list and the games agree.
DatabaseIsSound ==
  /\ TypeOK /\ ConnectionsAreOwned
  /\ ListingTellsTheGame /\ ListedRecentFirst /\ SavedIsLoaded

=============================================================================

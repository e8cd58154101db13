-------------------------------- MODULE Journal --------------------------------
(***************************************************************************)
(* The event log of one thread in crates/exoharness/src/basic.rs.  An      *)
(* append mints ids from the clock and commits its events with one object  *)
(* put under the write lock; get_event reads a batch index that is cached  *)
(* in each handle and never locked against the appends; watch_events joins *)
(* what is stored to what is sent.  A put goes on in a blocking thread     *)
(* when the call that made it is dropped, so that an event can land after  *)
(* the lock was given up.                                                  *)
(***************************************************************************)
EXTENDS Naturals, Sequences, FiniteSets, FiniteSetsExt

LOCAL INSTANCE SequencesExt

CONSTANTS Handles,     \* conversation handles, each with a batch index
          Watchers,    \* watch_events calls
          MaxEvent,    \* bound: event ids are 1..MaxEvent
          MaxBatch,    \* bound: events of one append
          MaxRestarts, \* bound: restarts of the process
          NoEvent

ASSUME JournalAssumption == /\ MaxEvent \in Nat \ {0} /\ MaxBatch \in Nat \ {0}
                            /\ MaxRestarts \in Nat

VARIABLES client,    \* which of the three readers this behaviour has
          objects,   \* objects under events/, each the set of its ids
          minted,    \* the last id of this process: Uuid7::now only grows
          appender,    \* the append under write_lock: its handle and its ids
          unwritten,   \* puts of dropped calls that may still land
          index,     \* event_batch_index of each handle
          lookup,    \* the get_event call of each handle
          watch,     \* watch_events: its step, its bound and what it yielded
          cursor,    \* the resume position of a reader of get_events
          got,       \* what that reader has been given
          abandoned,   \* history for watch and read: ids of dropped calls
          back,      \* history for read: ids of a process that started with an earlier clock
          restarts

journalVars == <<client, objects, minted, appender, unwritten, index, lookup, watch, cursor, got,
                 abandoned, back, restarts>>

logVars == <<objects, minted, appender, unwritten>>
indexVars == <<index, lookup>>
readerVars == <<cursor, got>>
pastVars == <<client, abandoned, back, restarts>>

EventIds == 1..MaxEvent
Committed == UNION objects
AtRest == [at |-> "idle", id |-> 0, keys |-> {}, due |-> FALSE]
Unwatched == [at |-> "none", after |-> 0, old |-> {}, out |-> <<>>]

JournalInit ==
  /\ client \in {"get", "watch", "read"}
  /\ objects = {} /\ minted = 0 /\ appender = NoEvent /\ unwritten = {}
  /\ index = [h \in Handles |-> NoEvent] /\ lookup = [h \in Handles |-> AtRest]
  /\ watch = [w \in Watchers |-> Unwatched]
  /\ cursor = 0 /\ got = {} /\ abandoned = {} /\ back = {} /\ restarts = 0

--------------------------------------------------------------------------------
\* EventBatchIndex

Batches(objs) == {o \in objs : Cardinality(o) > 1}

\* max_last from position k on, given the ones before it.
MaxLast(s, k) ==
  [i \in DOMAIN s |->
     IF i < k THEN s[i]
     ELSE [s[i] EXCEPT !.max =
             Max({s[j].last : j \in k..i} \cup (IF k = 1 THEN {} ELSE {s[k - 1].max}))]]

Entry(o) == [first |-> Min(o), last |-> Max(o), max |-> Max(o), key |-> o]

FromKeys(objs) ==
  MaxLast(SetToSortSeq({Entry(o) : o \in Batches(objs)}, LAMBDA a, b : a.first < b.first), 1)

\* Entries of s whose first id is at most id: partition_point.
Upto(s, id) == Cardinality({i \in DOMAIN s : s[i].first <= id})

Insert(s, o) ==
  LET k == Upto(s, Min(o)) + 1 IN MaxLast(InsertAt(s, k, Entry(o)), k)

\* The walk goes down from the last batch that starts before the id, and stops
\* where no earlier batch reaches it.
KeysContaining(s, id) ==
  LET n == Upto(s, id) IN
  {s[i].key : i \in {i \in 1..n : /\ id <= s[i].last
                                  /\ \A j \in i..n : id <= s[j].max}}

--------------------------------------------------------------------------------
\* append_events_to_conversation under write_lock

Locked == appender # NoEvent \/ \E w \in Watchers : watch[w].at = "load"

\* begin_turn, add_events, start_session, end_session, write_artifact, finish: the
\* head is loaded, ids are minted and the put is made.
AppendPut(h) ==
  /\ ~Locked
  /\ \E ids \in SUBSET (EventIds \ (Committed \cup UNION unwritten)) :
       /\ Cardinality(ids) \in 1..MaxBatch /\ Min(ids) > minted
       /\ appender' = [handle |-> h, ids |-> ids]
       /\ minted' = Max(ids)
       /\ back' = IF client = "read" /\ Committed # {} /\ Min(ids) < Max(Committed)
                  THEN back \cup ids ELSE back
  /\ UNCHANGED <<client, objects, unwritten, indexVars, watch, readerVars, abandoned,
                 restarts>>

\* notify_subscribers: every live stream gets the events in their order.
Sent(ids) ==
  [w \in Watchers |-> IF watch[w].at # "live" THEN watch[w]
                      ELSE [watch[w] EXCEPT !.out = @ \o SetToSortSeq(ids, <)]]

\* remember_appended_batch
Remembered(h, ids) ==
  IF Cardinality(ids) < 2 THEN index
  ELSE [index EXCEPT ![h] = Insert(IF @ = NoEvent THEN <<>> ELSE @, ids)]

\* The put is done; nothing is awaited from here to the unlock.
AppendDone ==
  /\ appender # NoEvent
  /\ objects' = objects \cup {appender.ids}
  /\ watch' = Sent(appender.ids)
  /\ index' = Remembered(appender.handle, appender.ids)
  /\ appender' = NoEvent
  /\ UNCHANGED <<pastVars, minted, unwritten, lookup, readerVars>>

AppendFail ==
  /\ appender # NoEvent /\ appender' = NoEvent
  /\ UNCHANGED <<pastVars, objects, minted, unwritten, indexVars, watch, readerVars>>

\* The caller drops the call at the await of the put: a cancelled turn.
AppendDrop ==
  /\ appender # NoEvent /\ appender' = NoEvent
  /\ unwritten' = unwritten \cup {appender.ids}
  /\ abandoned' = IF client = "get" THEN {} ELSE abandoned \cup appender.ids
  /\ UNCHANGED <<client, objects, minted, indexVars, watch, readerVars, back, restarts>>

PutLands ==
  /\ \E o \in unwritten : unwritten' = unwritten \ {o} /\ objects' = objects \cup {o}
  /\ UNCHANGED <<pastVars, minted, appender, indexVars, watch, readerVars>>

--------------------------------------------------------------------------------
\* get_event

Found(h, keys) == \E k \in keys : lookup[h].id \in k

GetCached(h) ==
  /\ lookup[h].at = "idle" /\ client = "get"
  /\ \E id \in EventIds :
       LET keys == IF index[h] = NoEvent THEN {} ELSE KeysContaining(index[h], id) IN
       lookup' = [lookup EXCEPT ![h] =
         [at |-> IF \E k \in keys : id \in k THEN "found" ELSE "file",
          id |-> id, keys |-> keys, due |-> id \in Committed]]
  /\ UNCHANGED <<pastVars, logVars, index, watch, readerVars>>

GetFile(h) ==
  /\ lookup[h].at = "file"
  /\ lookup' = [lookup EXCEPT ![h].at = IF {lookup[h].id} \in objects THEN "found" ELSE "list"]
  /\ UNCHANGED <<pastVars, logVars, index, watch, readerVars>>

\* A miss: the keys are listed; what the cached index named is not read again.
GetList(h) ==
  /\ lookup[h].at = "list"
  /\ lookup' = [lookup EXCEPT ![h].at = "set", ![h].keys =
                  [listed |-> Batches(objects), checked |-> @]]
  /\ UNCHANGED <<pastVars, logVars, index, watch, readerVars>>

\* The index becomes that of the listing, over what appends have added since.
GetSet(h) ==
  LET fresh == FromKeys(lookup[h].keys.listed)
      keys == KeysContaining(fresh, lookup[h].id) \ lookup[h].keys.checked
  IN
  /\ lookup[h].at = "set"
  /\ index' = [index EXCEPT ![h] = fresh]
  /\ lookup' = [lookup EXCEPT ![h] = [@ EXCEPT !.keys = {},
                  !.at = IF Found(h, keys) THEN "found" ELSE "missing"]]
  /\ UNCHANGED <<pastVars, logVars, watch, readerVars>>

GetReturn(h) ==
  /\ lookup[h].at \in {"found", "missing"}
  /\ lookup' = [lookup EXCEPT ![h] = AtRest]
  /\ UNCHANGED <<pastVars, logVars, index, watch, readerVars>>

--------------------------------------------------------------------------------
\* watch_events and get_events

\* Mutant: the events are loaded before the lock is taken.
MutWatchLoad(w) ==
  /\ client = "watch" /\ watch[w].at = "none"
  /\ watch' = [watch EXCEPT ![w] = [at |-> "unlocked", after |-> 0, old |-> {},
                                    out |-> SetToSortSeq(Committed, <)]]
  /\ UNCHANGED <<pastVars, logVars, indexVars, readerVars>>

\* The lock is taken and the events after the bound are loaded; an unbounded
\* watch has none.
WatchLoad(w) ==
  /\ client = "watch" /\ watch[w].at = "none" /\ ~Locked
  /\ \E after \in {0, MaxEvent} \cup Committed :
       LET new == {id \in Committed : id > after} IN
       watch' = [watch EXCEPT ![w] = [at |-> "load", after |-> after, old |-> Committed \ new,
                                      out |-> SetToSortSeq(new, <)]]
  /\ UNCHANGED <<pastVars, logVars, indexVars, readerVars>>

WatchSubscribe(w) ==
  /\ watch[w].at \in {"load", "unlocked"}
  /\ watch' = [watch EXCEPT ![w].at = "live"]
  /\ UNCHANGED <<pastVars, logVars, indexVars, readerVars>>

\* get_events with a cursor, ascending; the cursor is the last event's id.
GetEvents ==
  LET new == {id \in Committed : id > cursor} IN
  /\ client = "read" /\ new # {}
  /\ got' = got \cup new /\ cursor' = Max(new)
  /\ UNCHANGED <<pastVars, logVars, indexVars, watch>>

\* The process starts again, perhaps with a clock that was set back; the put of
\* an append that was cut off may have been done.
Restart ==
  /\ restarts < MaxRestarts /\ restarts' = restarts + 1
  /\ minted' \in 0..minted
  /\ objects' \in {objects \cup o : o \in SUBSET (unwritten \cup IF appender = NoEvent THEN {}
                                                              ELSE {appender.ids})}
  /\ appender' = NoEvent /\ unwritten' = {}
  /\ index' = [h \in Handles |-> NoEvent] /\ lookup' = [h \in Handles |-> AtRest]
  /\ watch' = [w \in Watchers |-> Unwatched]
  /\ UNCHANGED <<client, readerVars, abandoned, back>>

GetStep(h) == GetCached(h) \/ GetFile(h) \/ GetList(h) \/ GetSet(h) \/ GetReturn(h)

JournalNext ==
  \/ \E h \in Handles : AppendPut(h) \/ GetStep(h)
  \/ AppendDone \/ AppendFail \/ AppendDrop \/ PutLands
  \/ \E w \in Watchers : WatchLoad(w) \/ WatchSubscribe(w)
  \/ GetEvents \/ Restart

JournalSpec == JournalInit /\ [][JournalNext]_journalVars

--------------------------------------------------------------------------------

\* Types; a cursor is never ahead of the ids there are.
JournalTypeOK ==
  /\ client \in {"get", "watch", "read"}
  /\ objects \subseteq SUBSET EventIds /\ unwritten \subseteq SUBSET EventIds
  /\ minted \in 0..MaxEvent /\ cursor \in 0..MaxEvent /\ restarts \in 0..MaxRestarts
  /\ appender = NoEvent \/ appender \in [handle : Handles, ids : SUBSET EventIds]
  /\ \A h \in Handles : index[h] = NoEvent \/ index[h] \in
       Seq([first : EventIds, last : EventIds, max : EventIds, key : SUBSET EventIds])
  /\ \A h \in Handles : lookup[h].at \in {"idle", "file", "list", "set", "found", "missing"}
  /\ \A w \in Watchers : /\ watch[w].at \in {"none", "load", "unlocked", "live"}
                         /\ watch[w].out \in Seq(EventIds)
  /\ got \subseteq EventIds /\ abandoned \subseteq EventIds /\ back \subseteq EventIds

\* The index answers as the plain definition does: the batches whose range holds
\* the id, however ranges of several processes overlap.
IndexAnswers ==
  \A h \in Handles : index[h] # NoEvent =>
    \A id \in EventIds :
      KeysContaining(index[h], id) =
        {index[h][i].key : i \in {i \in DOMAIN index[h] :
                                    index[h][i].first <= id /\ id <= index[h][i].last}}

\* An event that was committed when get_event was called is found, whatever
\* the handle's index has missed or lost to another call.
GetFinds == \A h \in Handles : lookup[h].at = "missing" => ~lookup[h].due

\* A watch yields every event after its bound once, except those of a call
\* that was dropped and landed later.
WatchExact ==
  \A w \in Watchers : watch[w].at = "live" =>
    /\ IsInjective(watch[w].out)
    /\ Range(watch[w].out) \cap watch[w].old = {}
    /\ Committed \ (watch[w].old \cup abandoned) \subseteq Range(watch[w].out)

\* A reader that resumes from its cursor skips only events of a dropped call,
\* and those minted when the clock had been set back.
ReaderSkipsNothing ==
  \A id \in Committed : id <= cursor => id \in got \cup abandoned \cup back

\* get_event finds what is committed, through an index that no append of another
\* handle updates; watchers and readers with a cursor get every event once, in
\* spite of calls that are dropped, restarts and a clock that is set back.
ReadsComplete == IndexAnswers /\ GetFinds /\ WatchExact /\ ReaderSkipsNothing
================================================================================

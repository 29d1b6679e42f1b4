------------------------------- MODULE Config -------------------------------
(***************************************************************************)
(* The global configuration, config.c: a growing table of entries that     *)
(* config_load fills without the mutex and config_get searches with it.    *)
(* realloc may move the table, and frees the old one; block numbers the    *)
(* memory that holds it.  The value of an entry is the number of the line  *)
(* that it was read from; keys and values that do not fit are cut, which   *)
(* makes keys with the same beginning one key.                             *)
(***************************************************************************)
EXTENDS Calls

CONSTANTS Keys,
          MaxEntries   \* bound: lines with an entry that are loaded

ASSUME EntriesAssumption == MaxEntries \in Nat /\ NULL \notin Keys

VARIABLES
  entries, num_entries, config_mutex,   \* config: the pointer is the number of a block
  block, table,                         \* the block that is allocated, and its contents
  loading, line,                        \* config_load: where it is, and the key it read
  get,                                  \* per thread: the key, the index, the pointer
  dangling                              \* history: a thread has touched a freed block

configVars == << entries, num_entries, config_mutex, block, table, loading, line, get,
                 dangling >>

NoGet == [ key |-> NULL, i |-> 0, from |-> 0 ]

ConfigPhases == { "scan", "found", "holding" }

ConfigInit ==
  /\ entries = 0 /\ num_entries = 0
  /\ config_mutex = Unlocked
  /\ block = 0 /\ table = << >>
  /\ loading = "no" /\ line = NULL
  /\ get = [ t \in Threads |-> NoGet ]
  /\ dangling = FALSE

\* The number of the first entry that has the key, 0 without one.
Lookup(key) ==
  LET hits == { i \in 1 .. num_entries : table[i].key = key }
  IN  IF hits = {} THEN 0 ELSE CHOOSE i \in hits : \A j \in hits : i =< j

-----------------------------------------------------------------------------
\* config_load, called by the main thread.  Comments, lines without "=" and lines
\* whose file could not be opened change nothing.

config_load ==
  /\ loading = "no"
  /\ loading' \in { "lines", "failed" }
  /\ UNCHANGED << pc, calls, entries, num_entries, config_mutex, block, table, line, get,
                  dangling >>

\* realloc fails, or grows the table where it is, or moves it.
Realloc(key) ==
  /\ loading = "lines"
  /\ num_entries < MaxEntries
  /\ \/ loading' = "failed" /\ UNCHANGED << line, block >>
     \/ /\ loading' = "store"
        /\ line' = key
        /\ \/ block' = block + 1
           \/ block > 0 /\ block' = block
  /\ UNCHANGED << pc, calls, entries, num_entries, config_mutex, table, get, dangling >>

\* The entry is filled before it is counted.
Store ==
  /\ loading = "store"
  /\ loading' = "lines"
  /\ line' = NULL
  /\ entries' = block
  /\ table' = Append(table, [ key |-> line, val |-> num_entries + 1 ])
  /\ num_entries' = num_entries + 1
  /\ UNCHANGED << pc, calls, config_mutex, block, get, dangling >>

EndOfFile ==
  /\ loading = "lines"
  /\ loading' = "loaded"
  /\ UNCHANGED << pc, calls, entries, num_entries, config_mutex, block, table, line, get,
                  dangling >>

-----------------------------------------------------------------------------
\* config_get

GetLock(t, key) ==
  /\ Call(t)
  /\ config_mutex = Unlocked
  /\ config_mutex' = t
  /\ get' = [ get EXCEPT ![t].key = key, ![t].i = 1 ]
  /\ Goes(t, "idle", "scan")
  /\ UNCHANGED << entries, num_entries, block, table, loading, line, dangling >>

\* Variant with a bug: the search gives up before the last entry.
AtEnd_Early(i) == i >= num_entries

AtEnd(i) == i > num_entries

\* One round of the loop.  In a block that was freed anything is found, or nothing.
Scan(t) ==
  LET i == get[t].i
  IN  /\ IF AtEnd(i)
         THEN /\ Goes(t, "scan", "idle")
              /\ config_mutex' = Unlocked
              /\ get' = [ get EXCEPT ![t] = NoGet ]
              /\ UNCHANGED dangling
         ELSE \/ /\ Goes(t, "scan", "found")
                 /\ entries = block => table[i].key = get[t].key
                 /\ config_mutex' = Unlocked
                 /\ dangling' = (dangling \/ entries # block)
                 /\ UNCHANGED get
              \/ /\ Goes(t, "scan", "scan")
                 /\ entries = block => table[i].key # get[t].key
                 /\ get' = [ get EXCEPT ![t].i = @ + 1 ]
                 /\ dangling' = (dangling \/ entries # block)
                 /\ UNCHANGED config_mutex
      /\ UNCHANGED << calls, entries, num_entries, block, table, loading, line >>

\* The pointer to the value is computed after the mutex was given back.
Found(t) ==
  /\ Goes(t, "found", "holding")
  /\ get' = [ get EXCEPT ![t].from = entries ]
  /\ UNCHANGED << calls, entries, num_entries, config_mutex, block, table, loading, line,
                  dangling >>

\* The program reads the value, and forgets the pointer.
ReadValue(t) ==
  /\ Goes(t, "holding", "idle")
  /\ get' = [ get EXCEPT ![t] = NoGet ]
  /\ dangling' = (dangling \/ get[t].from # block)
  /\ UNCHANGED << calls, entries, num_entries, config_mutex, block, table, loading, line >>

config_destroy ==
  /\ entries' = 0 /\ num_entries' = 0
  /\ block' = 0 /\ table' = << >>
  /\ UNCHANGED << pc, calls, config_mutex, loading, line, get, dangling >>

ConfigBegin(t) == \E key \in Keys : GetLock(t, key)

ConfigContinue(t) == Scan(t) \/ Found(t) \/ ReadValue(t)

ConfigLoad == (\E key \in Keys : Realloc(key)) \/ Store \/ EndOfFile

ConfigTypes ==
  /\ num_entries \in 0 .. MaxEntries /\ entries \in Nat /\ block \in Nat
  /\ config_mutex \in Threads \union { Unlocked }
  /\ table \in Seq([ key : Keys, val : 1 .. MaxEntries ])
  /\ Len(table) = num_entries
  /\ loading \in { "no", "lines", "store", "loaded", "failed" }
  /\ line \in Keys \union { NULL }
  /\ get \in [Threads -> [ key : Keys \union { NULL }, i : 0 .. MaxEntries + 1,
                           from : Nat ]]
  /\ dangling \in BOOLEAN
=============================================================================

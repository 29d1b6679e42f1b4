------------------------------- MODULE Logger -------------------------------
(***************************************************************************)
(* The global logger, logger.c, under threads that log, change its level,  *)
(* switch it and reopen its file.  The fields of glog are written under    *)
(* glog.mutex, but logger_log tests two of them before it takes it.        *)
(*                                                                         *)
(* A line is written in four pieces (the time, the level, the message, the *)
(* newline), each of which the C library may keep in the stream's buffer.  *)
(* The library's side is the open stream, its buffer and the files.        *)
(***************************************************************************)
EXTENDS Calls

CONSTANTS Names,      \* the file names given to logger_init
          Levels      \* the levels that the calls name

ASSUME NamesAssumption  == NULL \notin Names
ASSUME LevelsAssumption == Levels \subseteq Int

VARIABLES
  file, log_level, enabled, mutex,   \* glog
  args,                              \* per thread: what logger_init was called with
  piece,                             \* the piece of the line that is written next
  stream, buffer,                    \* the library: the open stream and its buffer
  disk                               \* the contents of the files

glog       == << file, log_level, enabled >>
library    == << stream, buffer, disk >>
loggerVars == << glog, mutex, args, piece, library >>

LOG_LEVEL_DEBUG == 0

LoggerPhases == { "tested", "lock", "write", "flush", "open", "set", "enable",
                  "unlock" }

Pieces == 1 .. 4

NoArgs == [ level |-> LOG_LEVEL_DEBUG, name |-> NULL ]

LoggerInit ==
  /\ file = NULL
  /\ log_level = LOG_LEVEL_DEBUG
  /\ enabled = TRUE
  /\ mutex = Unlocked
  /\ args = [ t \in Threads |-> NoArgs ]
  /\ piece = 1
  /\ stream = NULL
  /\ buffer = << >>
  /\ disk = [ f \in Names |-> << >> ]

-----------------------------------------------------------------------------
\* fclose writes what is buffered.
Closed ==
  /\ disk' = [ disk EXCEPT ![stream] = @ \o buffer ]
  /\ buffer' = << >>
  /\ stream' = NULL

-----------------------------------------------------------------------------
\* logger_init

\* With the mutex, the file in use is closed.
LockAndClose(t, name, level) ==
  /\ Call(t)
  /\ mutex = Unlocked
  /\ mutex' = t
  /\ args' = [ args EXCEPT ![t] = [ level |-> level, name |-> name ] ]
  /\ Goes(t, "idle", "open")
  /\ IF file # NULL THEN Closed ELSE UNCHANGED library
  /\ UNCHANGED << glog, piece >>

\* Variants with a bug: a failure leaves the old pointer, or keeps the mutex.
Fopen_KeepsPointer(t) ==
  /\ \/ /\ file' = args[t].name
        /\ stream' = args[t].name
        /\ Goes(t, "open", "set")
     \/ Goes(t, "open", "unlock") /\ UNCHANGED << file, stream >>
  /\ UNCHANGED << log_level, enabled, mutex, args, piece, buffer, disk,
                  calls >>

Fopen_KeepsMutex(t) ==
  /\ \/ /\ file' = args[t].name
        /\ stream' = args[t].name
        /\ Goes(t, "open", "set")
     \/ Goes(t, "open", "idle") /\ file' = NULL /\ UNCHANGED stream
  /\ UNCHANGED << log_level, enabled, mutex, args, piece, buffer, disk,
                  calls >>

\* The new file is opened; without it the logger has none.
Fopen(t) ==
  /\ \/ /\ file' = args[t].name
        /\ stream' = args[t].name
        /\ Goes(t, "open", "set")
     \/ Goes(t, "open", "unlock") /\ file' = NULL /\ UNCHANGED stream
  /\ UNCHANGED << log_level, enabled, mutex, args, piece, buffer, disk,
                  calls >>

SetLevel(t) ==
  /\ Goes(t, "set", "enable")
  /\ log_level' = args[t].level
  /\ UNCHANGED << file, enabled, mutex, args, piece, library, calls >>

SetEnabled(t) ==
  /\ Goes(t, "enable", "unlock")
  /\ enabled' = TRUE
  /\ UNCHANGED << file, log_level, mutex, args, piece, library, calls >>

\* The end of every function that has taken the mutex.
Unlock(t) ==
  /\ Goes(t, "unlock", "idle")
  /\ mutex' = Unlocked
  /\ args' = [ args EXCEPT ![t] = NoArgs ]
  /\ UNCHANGED << glog, piece, library, calls >>

-----------------------------------------------------------------------------
\* The setters write one field under the mutex.

logger_set_log_level(t, level) ==
  /\ Call(t) /\ mutex = Unlocked
  /\ log_level' = level
  /\ UNCHANGED << file, enabled, mutex, pc, args, piece, library >>

logger_enable(t, enable) ==
  /\ Call(t) /\ mutex = Unlocked
  /\ enabled' = enable
  /\ UNCHANGED << file, log_level, mutex, pc, args, piece, library >>

-----------------------------------------------------------------------------
\* logger_log

\* The two tests, without the mutex.  A call that fails one returns at once.
TestLevel(t, level) ==
  /\ Call(t)
  /\ level >= log_level
  /\ Goes(t, "idle", "tested")
  /\ UNCHANGED << glog, mutex, args, piece, library >>

TestEnabled(t) ==
  /\ Goes(t, "tested", IF enabled THEN "lock" ELSE "idle")
  /\ UNCHANGED << glog, mutex, args, piece, library, calls >>

\* Variant with a bug: the mutex is not taken.
Lock_Forgotten(t) ==
  /\ Goes(t, "lock", IF file = NULL THEN "unlock" ELSE "write")
  /\ UNCHANGED << glog, mutex, args, piece, library, calls >>

\* Without a file nothing is written.
Lock(t) ==
  /\ mutex = Unlocked
  /\ mutex' = t
  /\ Goes(t, "lock", IF file = NULL THEN "unlock" ELSE "write")
  /\ UNCHANGED << glog, args, piece, library, calls >>

\* Variant with a bug: the next line does not begin anew.
NextPiece_Endless == piece + 1

NextPiece == IF piece = 4 THEN 1 ELSE piece + 1

\* One fprintf or vfprintf.  The library may write its buffer out at any time.
WritePiece(t) ==
  /\ Goes(t, "write", IF piece = 4 THEN "flush" ELSE "write")
  /\ piece' = NextPiece
  /\ LET text == Append(buffer, [ by |-> t, part |-> piece ])
     IN  \/ buffer' = text /\ UNCHANGED disk
         \/ buffer' = << >> /\ disk' = [ disk EXCEPT ![stream] = @ \o text ]
  /\ UNCHANGED << glog, mutex, args, stream, calls >>

\* Variant with a bug: the stream is not flushed.
Flush_Forgotten(t) ==
  /\ Goes(t, "flush", "unlock")
  /\ UNCHANGED << glog, mutex, args, piece, library, calls >>

Flush(t) ==
  /\ Goes(t, "flush", "unlock")
  /\ buffer' = << >>
  /\ disk' = [ disk EXCEPT ![stream] = @ \o buffer ]
  /\ UNCHANGED << glog, mutex, args, piece, stream, calls >>

-----------------------------------------------------------------------------
\* The mutex is destroyed too; the logger is not used again.
logger_destroy ==
  /\ file' = NULL
  /\ IF file # NULL THEN Closed ELSE UNCHANGED library
  /\ UNCHANGED << log_level, enabled, mutex, pc, args, piece, calls >>

-----------------------------------------------------------------------------
LoggerBegin(t) ==
  \/ \E level \in Levels : \/ TestLevel(t, level)
                           \/ logger_set_log_level(t, level)
                           \/ \E name \in Names : LockAndClose(t, name, level)
  \/ \E enable \in BOOLEAN : logger_enable(t, enable)

LoggerContinue(t) ==
  \/ Fopen(t) \/ SetLevel(t) \/ SetEnabled(t) \/ Unlock(t)
  \/ TestEnabled(t) \/ Lock(t) \/ WritePiece(t) \/ Flush(t)

-----------------------------------------------------------------------------
\* Properties

Piece == [ by : Threads, part : Pieces ]

LoggerTypes ==
  /\ file \in Names \cup { NULL } /\ stream \in Names \cup { NULL }
  /\ log_level \in Int
  /\ enabled \in BOOLEAN
  /\ mutex \in Threads \cup { Unlocked }
  /\ args \in [Threads -> [ level : Int, name : Names \cup { NULL } ]]
  /\ piece \in Pieces
  /\ buffer \in Seq(Piece)
  /\ disk \in [Names -> Seq(Piece)]

\* What a reader of file f finds once the buffer is written out.
Contents(f) == IF f = stream THEN disk[f] \o buffer ELSE disk[f]

\* The lines of different threads are never mixed, whoever reopens the file: each
\* piece follows the one before it of the same line, and only the last line of the
\* file in use can be incomplete, while the thread that writes it has the mutex.
WholeLines ==
  \A f \in Names :
    LET text == Contents(f)
    IN  \A j \in DOMAIN text :
          /\ text[j].part > 1 => j > 1 /\ text[j - 1] = [ text[j] EXCEPT !.part = @ - 1 ]
          /\ text[j].part < 4 =>
               IF j < Len(text)
               THEN text[j + 1] = [ text[j] EXCEPT !.part = @ + 1 ]
               ELSE f = stream /\ mutex = text[j].by

\* "Ensure logs are immediately written to the file": when nobody is in the logger a
\* crash of the program loses no line, also when the file was just replaced.
LinesOnDisk == mutex = Unlocked => buffer = << >>

\* The pointer that logger_log tests and writes to is that of an open stream, also
\* after a reopening that failed.
FileIsOpen ==
  /\ mutex = Unlocked => file = stream
  /\ \A t \in Threads : pc[t] \in { "write", "flush" } => stream # NULL
=============================================================================

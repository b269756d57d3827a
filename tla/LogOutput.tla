------------------------------ MODULE LogOutput ------------------------------
(***************************************************************************)
(* Where log lines go after AsyncLogging::Data: the log thread             *)
(* (AsyncLogging::Run) writes them to a file, which LogFile of log/log.cpp *)
(* opens, rolls and closes, while another thread changes the directory or  *)
(* dies of a signal; or the Scribe thread of log/scribe_log_handler.cpp    *)
(* sends them to a Scribe server.  No lock protects LogFile.               *)
(*                                                                         *)
(* A chunk is what one call of Data returns; chunks are numbered.  A name  *)
(* of a file is its directory with 0 for the current file, or with the     *)
(* second in which it was rolled.  A FILE has a buffer of its own.         *)
(* The names that AsyncLogging has too are prefixed here, so that one      *)
(* module can be about both.                                               *)
(***************************************************************************)
EXTENDS Integers, SequencesExt

CONSTANTS Paths,       \* directories
          MaxFileSize, \* a file that would reach this size is rolled
          NULL,
          MaxChunks,   \* bound: chunks logged
          MaxClock,    \* bound: seconds
          MaxMoves     \* bound: calls of SetFilePath

ASSUME LogOutputAssumption ==
    /\ MaxFileSize \in Nat \ {0, 1}
    /\ NULL \notin Paths
    /\ MaxChunks \in Nat
    /\ MaxClock \in Nat \ {0}
    /\ MaxMoves \in Nat

VARIABLES
    device,       \* "file" or "scribe": which thread reads the log
    logged,       \* chunks logged
    taken,        \* chunks Data has returned
    stage,        \* the reading thread
    alive,        \* is the process running?
    clock,
    g_file_path,
    m_log,        \* directory of the file that is open, or NULL
    buf,          \* what its FILE has not written out
    files,        \* name -> content, of the files that exist
    logfd,        \* the log thread's FILE: "none", "good", or "closed" by now
    caller,       \* the other thread: "idle", or where in Close it is
    signalled,    \* does it run FailureSignalHandler?
    moves,
    secured,      \* history: chunks written before the last flush or close
    disturbed,    \* history: has one of the four accidents below happened?
    messages,     \* Scribe: the batch
    stored        \* Scribe: what the server received, in order

fileVars   == <<clock, g_file_path, m_log, buf, files, logfd, secured, disturbed>>
callerVars == <<caller, signalled, moves>>
scribeVars == <<messages, stored>>
outputVars == <<device, logged, taken, stage, alive, fileVars, callerVars, scribeVars>>

OutputInit ==
    /\ device \in {"file", "scribe"}
    /\ logged = 0
    /\ taken = 0
    /\ stage = IF device = "file" THEN "data" ELSE "connect"
    /\ alive = TRUE
    /\ clock = 1
    /\ g_file_path \in Paths
    /\ m_log = NULL
    /\ buf = <<>>
    /\ files = <<>>
    /\ logfd = "none"
    /\ caller = "idle"
    /\ signalled = FALSE
    /\ moves = 0
    /\ secured = 0
    /\ disturbed = FALSE
    /\ messages = <<>>
    /\ stored = <<>>

Current(path)   == <<path, 0>>
Backup(path, t) == <<path, t>>
Content(fs, n)  == IF n \in DOMAIN fs THEN fs[n] ELSE <<>>
Put(fs, n, c)   == [m \in DOMAIN fs \cup {n} |-> IF m = n THEN c ELSE fs[m]]

\* files after the FILE of m_log has written its buffer out.
Flushed == IF m_log = NULL THEN files
           ELSE Put(files, Current(m_log), Content(files, Current(m_log)) \o buf)

\* The chunks that are through, one way or another.
Done == IF stage = "data" THEN taken ELSE taken - 1

-----------------------------------------------------------------------------
(* The rest of the process.                                                *)

\* Log::Write and Append, modelled in AsyncLogging.
Log ==
    /\ alive
    /\ logged < MaxChunks
    /\ logged' = logged + 1
    /\ UNCHANGED <<device, taken, stage, alive, fileVars, callerVars, scribeVars>>

Tick ==
    /\ clock < MaxClock
    /\ device = "file"
    /\ clock' = clock + 1
    /\ UNCHANGED <<device, logged, taken, stage, alive, g_file_path, m_log, buf, files, logfd,
                   secured, disturbed, callerVars, scribeVars>>

\* SetFilePath changes the directory and closes the file.
SetFilePath(path) ==
    /\ alive
    /\ device = "file"
    /\ caller = "idle"
    /\ moves < MaxMoves
    /\ moves' = moves + 1
    /\ g_file_path' = path
    /\ caller' = "close"
    /\ UNCHANGED <<device, logged, taken, stage, alive, clock, m_log, buf, files, logfd,
                   secured, disturbed, signalled, scribeVars>>

\* FailureSignalHandler logs the stack like any other line, and closes.
FailureSignalHandler ==
    /\ alive
    /\ device = "file"
    /\ caller = "idle"
    /\ signalled' = TRUE
    /\ caller' = "close"
    /\ logged' = logged + 1
    /\ UNCHANGED <<device, taken, stage, alive, fileVars, moves, scribeVars>>

\* What follows Close: SetFilePath returns, the handler ends the process.
AfterClose ==
    /\ caller' = "idle"
    /\ alive' = ~signalled

CloseCheck ==
    /\ alive
    /\ caller = "close"
    /\ \/ m_log = NULL /\ AfterClose
       \/ m_log # NULL /\ caller' = "closing" /\ UNCHANGED alive
    /\ UNCHANGED <<device, logged, taken, stage, fileVars, signalled, moves, scribeVars>>

\* fflush, fclose, m_log = NULL; m_log is read again, and fclose(NULL) ends the
\* process if the log thread has closed the file since.
CloseFile ==
    /\ alive
    /\ caller = "closing"
    /\ \/ /\ m_log # NULL
          /\ files' = Flushed
          /\ buf' = <<>>
          /\ m_log' = NULL
          /\ secured' = Done
          /\ logfd' = IF logfd = "good" THEN "closed" ELSE logfd
          /\ AfterClose
          /\ UNCHANGED disturbed
       \/ /\ m_log = NULL
          /\ alive' = FALSE
          /\ caller' = "idle"
          /\ disturbed' = TRUE
          /\ UNCHANGED <<files, buf, m_log, secured, logfd>>
    /\ UNCHANGED <<device, logged, taken, stage, clock, g_file_path, signalled, moves, scribeVars>>

-----------------------------------------------------------------------------
(* The log thread: Run, WriteLog, LogFD.                                   *)

RunData ==
    /\ alive
    /\ stage = "data"
    /\ taken < logged
    /\ taken' = taken + 1
    /\ stage' = IF device = "file" THEN "open" ELSE "send"
    /\ messages' = IF device = "file" THEN messages ELSE Append(messages, taken')
    /\ UNCHANGED <<device, logged, alive, fileVars, callerVars, stored>>

\* Data returned nothing: Flush.
RunFlush ==
    /\ alive
    /\ device = "file"
    /\ stage = "data"
    /\ taken = logged
    /\ m_log # NULL
    /\ files' = Flushed
    /\ buf' = <<>>
    /\ secured' = Done
    /\ UNCHANGED <<device, logged, taken, stage, alive, clock, g_file_path, m_log, logfd,
                   disturbed, callerVars, scribeVars>>

\* OpenFile can fail; WriteLog then drops the chunk.
OpenFails ==
    /\ disturbed' = TRUE
    /\ stage' = "data"
    /\ UNCHANGED <<m_log, files, logfd>>

\* The first write since a close opens the file to append.
LogFDOpen ==
    /\ alive
    /\ stage = "open"
    /\ \/ /\ m_log # NULL
          /\ stage' = "check"
          /\ UNCHANGED <<m_log, files, disturbed, logfd>>
       \/ /\ m_log = NULL
          /\ m_log' = g_file_path
          /\ files' = Put(files, Current(g_file_path), Content(files, Current(g_file_path)))
          /\ stage' = "check"
          /\ UNCHANGED <<disturbed, logfd>>
       \/ /\ m_log = NULL
          /\ OpenFails
    /\ UNCHANGED <<device, logged, taken, alive, clock, g_file_path, buf, secured,
                   callerVars, scribeVars>>

\* ftell on what m_log is by now; too long a file is flushed and closed.
LogFDCheck ==
    LET size == Len(Content(files, Current(m_log))) + Len(buf) IN
    /\ alive
    /\ stage = "check"
    /\ \/ /\ m_log = NULL
          /\ alive' = FALSE
          /\ disturbed' = TRUE
          /\ UNCHANGED <<stage, m_log, buf, files, logfd, secured>>
       \/ /\ m_log # NULL
          /\ size + 1 < MaxFileSize
          /\ logfd' = "good"
          /\ stage' = "write"
          /\ UNCHANGED <<alive, m_log, buf, files, secured, disturbed>>
       \/ /\ m_log # NULL
          /\ size + 1 >= MaxFileSize
          /\ files' = Flushed
          /\ buf' = <<>>
          /\ m_log' = NULL
          /\ secured' = Done
          /\ stage' = "rename"
          /\ UNCHANGED <<alive, logfd, disturbed>>
    /\ UNCHANGED <<device, logged, taken, clock, g_file_path, callerVars, scribeVars>>

\* Wrong on purpose: a mutant of LogFDRename that LostOnlyByAccident must catch.
LogFDRenameOpensFirst ==
    LET cur == Current(g_file_path)
        bak == Backup(g_file_path, clock)
    IN
    /\ alive
    /\ stage = "rename"
    /\ files' = Put(Put(files, bak, <<>>), cur, <<>>)
    /\ disturbed' = (disturbed \/ bak \in DOMAIN files)
    /\ m_log' = g_file_path
    /\ logfd' = "good"
    /\ stage' = "write"
    /\ UNCHANGED <<device, logged, taken, alive, clock, g_file_path, buf, secured,
                   callerVars, scribeVars>>

\* The closed file is renamed to a name that carries the second, over a file
\* that has this name.  The result is not looked at, and the current file is
\* opened to be written anew.
LogFDRename ==
    LET cur   == Current(g_file_path)
        bak   == Backup(g_file_path, clock)
        moved == IF cur \in DOMAIN files THEN Put(files, bak, files[cur]) ELSE files
    IN
    /\ alive
    /\ stage = "rename"
    /\ \/ /\ \E renamed \in BOOLEAN :
                /\ files' = Put(IF renamed THEN moved ELSE files, cur, <<>>)
                /\ disturbed' = (disturbed \/ ~renamed
                                   \/ (cur \in DOMAIN files /\ bak \in DOMAIN files))
          /\ m_log' = g_file_path
          /\ logfd' = "good"
          /\ stage' = "write"
       \/ OpenFails
    /\ UNCHANGED <<device, logged, taken, alive, clock, g_file_path, buf, secured,
                   callerVars, scribeVars>>

\* fwrite; to a FILE that has been closed it does nothing or ends the process.
WriteLog ==
    /\ alive
    /\ stage = "write"
    /\ stage' = "data"
    /\ logfd' = "none"
    /\ \/ /\ logfd = "good"
          /\ buf' = Append(buf, taken)
          /\ UNCHANGED <<alive, disturbed>>
       \/ /\ logfd = "closed"
          /\ alive' \in BOOLEAN
          /\ disturbed' = TRUE
          /\ UNCHANGED buf
    /\ UNCHANGED <<device, logged, taken, clock, g_file_path, m_log, files, secured,
                   callerVars, scribeVars>>

-----------------------------------------------------------------------------
(* The Scribe thread: WriteLog, WriteLogHandle.                            *)

\* transport->open() succeeds; a failure is followed by sleep(5) and a retry.
ScribeOpen ==
    /\ stage = "connect"
    /\ stage' = "data"
    /\ UNCHANGED <<device, logged, taken, alive, fileVars, callerVars, scribeVars>>

\* Log(messages) is answered: OK, or TRY_LATER, which keeps the batch until
\* there is something new to send.
ScribeSend ==
    /\ stage = "send"
    /\ stage' = "data"
    /\ \/ stored' = stored \o messages /\ messages' = <<>>
       \/ UNCHANGED <<stored, messages>>
    /\ UNCHANGED <<device, logged, taken, alive, fileVars, callerVars>>

\* Wrong on purpose: a mutant of ScribeSendThrows that AtLeastOnceInOrder must catch.
ScribeSendThrowsClears ==
    /\ stage = "send"
    /\ stage' = "connect"
    /\ stored' \in {stored, stored \o messages}
    /\ messages' = <<>>
    /\ UNCHANGED <<device, logged, taken, alive, fileVars, callerVars>>

\* TException: the batch has arrived or not, and it is kept; the thread closes
\* the connection and opens it again.
ScribeSendThrows ==
    /\ stage = "send"
    /\ stage' = "connect"
    /\ stored' \in {stored, stored \o messages}
    /\ UNCHANGED <<device, logged, taken, alive, fileVars, callerVars, messages>>

-----------------------------------------------------------------------------
OutputNext ==
    \/ Log \/ Tick
    \/ \E path \in Paths : SetFilePath(path)
    \/ FailureSignalHandler \/ CloseCheck \/ CloseFile
    \/ RunData \/ RunFlush \/ LogFDOpen \/ LogFDCheck \/ LogFDRename \/ WriteLog
    \/ ScribeOpen \/ ScribeSend \/ ScribeSendThrows

OutputSpec == OutputInit /\ [][OutputNext]_outputVars

-----------------------------------------------------------------------------
\* The files of a directory, the oldest first.
History(fs, path) ==
    FlattenSeq([t \in 1 .. MaxClock |-> Content(fs, Backup(path, t))])
      \o Content(fs, Current(path))

Increasing(s) == \A i, j \in DOMAIN s : i < j => s[i] < s[j]

OnDisk(fs) == UNION {ToSet(History(fs, path)) : path \in Paths}

\* log.cpp:305-348, 394-446: the files of a directory, oldest first, hold chunks
\* in the order they were logged and none twice; while the process runs no
\* chunk is missing from its files and the buffer; and when it ends, none is
\* that was written before the last flush or close.  There are four
\* exceptions: a file cannot be opened; a rename fails, or two rolls fall into
\* one second (log.cpp:340); a Close of another thread falls between the log
\* thread's look at m_log and its use (log.cpp:666).
LostOnlyByAccident ==
    device = "file" /\ ~disturbed =>
        /\ \A path \in Paths : Increasing(History(files, path))
        /\ alive => OnDisk(Flushed) = 1 .. Done
        /\ 1 .. secured \subseteq OnDisk(files)

\* scribe_log_handler.cpp:78-111: no chunk is lost between Data and the server:
\* every one is in the batch or has arrived, and they arrive without a gap, in
\* order but for repetitions, however often a batch is refused or its answer
\* lost.
AtLeastOnceInOrder ==
    device = "scribe" =>
        /\ ToSet(stored) \union ToSet(messages) = 1 .. taken
        /\ \A n \in ToSet(stored) : 1 .. n \subseteq ToSet(stored)
        /\ \A i \in DOMAIN stored : i > 1 => stored[i] <= stored[i - 1] + 1
=============================================================================

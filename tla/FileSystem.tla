----------------------------- MODULE FileSystem -----------------------------
(***************************************************************************)
(* The file systems of Modules/Storage: the C++ streams of Linux and       *)
(* Darwin, the SPIFFS files and the key/value pairs of Esp and the handles *)
(* of SimpleLink on Cc32xx.                                                *)
(*                                                                         *)
(* A call runs its callback on the thread of the storage, one after the    *)
(* other, so one call is one step (BlockingCall has the way there and      *)
(* back).  A file that is open is known twice: to the caller, by the       *)
(* fields of its File, and to the file system, by a stream under the hash  *)
(* of the path.  Nothing keeps the two together but the order of the calls.*)
(* The contents of a file are the chunks that were written, in order.      *)
(***************************************************************************)
EXTENDS Naturals, FiniteSets, SequencesExt

CONSTANTS
  Ports,      \* the ports that are looked at
  Paths,      \* the paths of files
  NoPath,     \* the path of a File that was never opened
  Files,      \* the File objects of the callers
  Modes,      \* the modes callers open with
  PathKey,    \* pathKey(), the hash under which a stream is found
  Faults,     \* the operations of the platform that may fail
  MaxChunks,  \* bound: chunks written in all
  Careful     \* a path is used by one File at a time, that uses it while open

FileSystemAssumption ==
  /\ Ports \subseteq {"Linux", "Darwin", "Spiffs", "KeyValue", "Cc32xx"}
  /\ NoPath \notin Paths
  /\ Modes \subseteq {"ReadOnly", "WriteOnlyNew", "WriteOnlyAppend", "WriteOnlyTruncate",
                      "ReadWriteNew", "ReadWriteAppend", "ReadWriteTruncate"}
  /\ PathKey \in [Paths \cup {NoPath} -> Nat]
  /\ Faults \subseteq {"open", "size", "flush", "close", "delete"}
  /\ MaxChunks \in Nat /\ Careful \in BOOLEAN

VARIABLES
  port,     \* the port of this behaviour, constant
  media,    \* the contents of every path that exists
  streams,  \* openFiles, spiffsFiles: the stream under every key
  files,    \* the fields of the File objects
  opened,   \* _status.openedFiles
  chunks,   \* the number of chunks written so far
  acked,    \* observation: the chunks whose write returned Success, per path
  last      \* observation: the last call, its result and what it did

vars == <<port, media, streams, files, opened, chunks, acked, last>>

Exists(p) == p \in DOMAIN media
Put(m, k, v) == [x \in DOMAIN m \cup {k} |-> IF x = k THEN v ELSE m[x]]
Drop(m, k)   == [x \in DOMAIN m \ {k} |-> m[x]]

fileMustExist(m)         == m \in {"ReadWriteAppend", "WriteOnlyAppend"}
fileMustNotExist(m)      == m \in {"ReadWriteNew", "WriteOnlyNew"}
fileShouldBeTruncated(m) == m \in {"ReadWriteTruncate", "WriteOnlyTruncate"}
canReadFromFile(m)  == m \in {"ReadOnly", "ReadWriteNew", "ReadWriteAppend", "ReadWriteTruncate"}
canWriteToFile(m)   == m # "ReadOnly"

KeyOf(f)    == PathKey[files[f].path]
HasKey(f)   == KeyOf(f) \in DOMAIN streams
StreamOf(f) == streams[KeyOf(f)]
NewFile     == [path |-> NoPath, size |-> 0, filePointer |-> 0, openMode |-> "Unknown", isOpen |-> FALSE]

\* A platform operation that may fail does so or not.
Fails(op) == IF op \in Faults THEN BOOLEAN ELSE {FALSE}

Init ==
  /\ port \in Ports
  /\ media = <<>>
  /\ streams = <<>>
  /\ files = [f \in Files |-> NewFile]
  /\ opened = 0
  /\ chunks = 0
  /\ acked = [p \in Paths |-> <<>>]
  /\ last = [call |-> "none", file |-> CHOOSE f \in Files : TRUE, error |-> "Success", did |-> FALSE]

Return(call, f, error, did) == last' = [call |-> call, file |-> f, error |-> error, did |-> did]

\* Which calls callers make.
MayOpen(f, p) == Careful => /\ ~files[f].isOpen
                            /\ \A g \in Files : ~(files[g].isOpen /\ files[g].path = p)
MayUse(f)     == IF Careful THEN files[f].isOpen ELSE port # "Spiffs" \/ HasKey(f)

\* A chunk is written to s at the offset: in an append mode at the end.
Written(s, at, append, c) ==
  IF append \/ at >= Len(s) THEN Append(s, c) ELSE [s EXCEPT ![at + 1] = c]

\* A new chunk is written to p; it is acknowledged if the call returns Success.
Store(f, p, at, append, error) ==
  /\ chunks' = chunks + 1
  /\ media' = IF Exists(p) THEN Put(media, p, Written(media[p], at, append, chunks')) ELSE media
  /\ acked' = IF error = "Success" THEN [acked EXCEPT ![p] = Append(@, chunks')] ELSE acked
  /\ Return("write", f, error, TRUE)

\* A call that stores nothing.
StoreNothing(call, f, error) ==
  /\ UNCHANGED <<media, acked, chunks>>
  /\ Return(call, f, error, FALSE)

Forget(p) == acked' = [acked EXCEPT ![p] = <<>>]

-----------------------------------------------------------------------------
(* Linux and Darwin                                                         *)

isOpen(f) == HasKey(f)

\* Mutant of toStdOpenMode: std::ios_base::ate instead of app.
toStdOpenModeAte(mode) ==
  [append |-> FALSE,
   trunc  |-> mode \in {"WriteOnlyTruncate", "ReadWriteTruncate"}]

\* toStdOpenMode: ReadOnly opens for appending too, and so makes the file.
toStdOpenMode(mode) ==
  [append |-> mode \notin {"WriteOnlyTruncate", "ReadWriteTruncate"},
   trunc  |-> mode \in {"WriteOnlyTruncate", "ReadWriteTruncate"}]

\* open(): a File whose path has a stream is left alone, whatever the path.  The
\* key is opened again otherwise; size() may fail and leaves the stream behind.
PosixOpen(f, p, mode) ==
  /\ MayOpen(f, p)
  /\ IF isOpen(f)
     THEN /\ opened' = Cardinality(DOMAIN streams)
          /\ StoreNothing("open", f, "Success")
          /\ UNCHANGED <<streams, files>>
     ELSE LET m == toStdOpenMode(mode)
              s == IF Exists(p) /\ ~m.trunc THEN media[p] ELSE <<>>
          IN  \E bad \in Fails("open"), noSize \in Fails("size") :
                /\ IF bad
                   THEN /\ streams' = Drop(streams, PathKey[p])
                        /\ StoreNothing("open", f, "Failure")
                        /\ UNCHANGED files
                   ELSE /\ streams' = Put(streams, PathKey[p], [path |-> p, append |-> m.append, good |-> TRUE])
                        /\ media' = Put(media, p, s)
                        /\ IF s = <<>> THEN Forget(p) ELSE UNCHANGED acked
                        /\ files' = [files EXCEPT ![f] =
                             IF noSize THEN [@ EXCEPT !.path = p]
                             ELSE [path |-> p, size |-> Len(s), filePointer |-> Len(s),
                                   openMode |-> mode, isOpen |-> TRUE]]
                        /\ Return("open", f, IF noSize THEN "PrerequisitesNotMet" ELSE "Success", ~noSize)
                        /\ UNCHANGED chunks
                /\ UNCHANGED opened
  /\ UNCHANGED port

\* flush() of a stream fails for an error that an earlier call left, which is
\* cleared then; of a stream that only reads this is a success.
Flushes(f) == {IF bad \/ ~StreamOf(f).good THEN ~canWriteToFile(files[f].openMode) ELSE TRUE
                 : bad \in Fails("flush")}
Clear(f)   == [streams EXCEPT ![KeyOf(f)].good = TRUE]

Closed(f)  == [files EXCEPT ![f].openMode = "Unknown", ![f].isOpen = FALSE]

\* Mutant of PosixClose: the stream is erased before it is known to be synchronized.
PosixCloseAlways(f) ==
  /\ MayUse(f) /\ isOpen(f)
  /\ \E ok \in Flushes(f) :
       /\ streams' = Drop(streams, KeyOf(f))
       /\ files' = IF ok THEN Closed(f) ELSE files
       /\ StoreNothing("close", f, IF ok THEN "Success" ELSE "Failure")
  /\ opened' = Cardinality(DOMAIN streams')
  /\ UNCHANGED port

\* close(): the stream and the File stay open if it cannot be synchronized.
PosixClose(f) ==
  /\ MayUse(f)
  /\ IF ~isOpen(f) THEN StoreNothing("close", f, "Success") /\ UNCHANGED <<streams, files, opened>>
     ELSE \E ok \in Flushes(f) :
            IF ok THEN /\ streams' = Drop(streams, KeyOf(f))
                       /\ files' = Closed(f)
                       /\ opened' = Cardinality(DOMAIN streams')
                       /\ StoreNothing("close", f, "Success")
            ELSE /\ streams' = Clear(f)
                 /\ StoreNothing("close", f, "Failure")
                 /\ UNCHANGED <<files, opened>>
  /\ UNCHANGED port

\* remove(): closed first; what std::remove says is not returned.
PosixRemove(f) ==
  /\ MayUse(f)
  /\ \E ok \in IF isOpen(f) THEN Flushes(f) ELSE {TRUE}, bad \in Fails("delete") :
       IF ok THEN LET p == files[f].path IN
              /\ IF isOpen(f)
                 THEN /\ streams' = Drop(streams, KeyOf(f))
                      /\ files' = Closed(f)
                      /\ opened' = Cardinality(DOMAIN streams')
                 ELSE UNCHANGED <<streams, files, opened>>
              /\ IF bad \/ ~Exists(p) THEN UNCHANGED <<media, acked>> ELSE media' = Drop(media, p) /\ Forget(p)
              /\ Return("remove", f, "Success", ~bad /\ Exists(p))
              /\ UNCHANGED chunks
       ELSE /\ streams' = Clear(f)
            /\ StoreNothing("remove", f, "Failure")
            /\ UNCHANGED <<files, opened>>
  /\ UNCHANGED port

\* What a read of n chunks finds at the offset of the File.
Found(f, s, n) == SubSeq(s, files[f].filePointer + 1, Min({files[f].filePointer + n, Len(s)}))

\* Mutant of PosixRead: the offset moves by the size of the buffer.
PosixReadWhole(f, n) ==
  /\ MayUse(f)
  /\ IF canReadFromFile(files[f].openMode) /\ isOpen(f) /\ StreamOf(f).good
     THEN LET found == Found(f, media[StreamOf(f).path], n)
              eof   == Len(found) < n
          IN  /\ files' = [files EXCEPT ![f].filePointer = @ + n]
              /\ streams' = [streams EXCEPT ![KeyOf(f)].good = ~eof]
              /\ StoreNothing("read", f, IF eof THEN "EndOfFile" ELSE "Success")
     ELSE /\ streams' = IF canReadFromFile(files[f].openMode) /\ isOpen(f) THEN Clear(f) ELSE streams
          /\ StoreNothing("read", f, "PrerequisitesNotMet")
          /\ UNCHANGED files
  /\ UNCHANGED <<port, opened>>

\* readBlocking(): the end of the file leaves the stream in error, so that the
\* next call on it fails once.
PosixRead(f, n) ==
  /\ MayUse(f)
  /\ IF canReadFromFile(files[f].openMode) /\ isOpen(f) /\ StreamOf(f).good
     THEN LET found == Found(f, media[StreamOf(f).path], n)
              eof   == Len(found) < n
          IN  /\ files' = [files EXCEPT ![f].filePointer = @ + Len(found)]
              /\ streams' = [streams EXCEPT ![KeyOf(f)].good = ~eof]
              /\ StoreNothing("read", f, IF eof THEN "EndOfFile" ELSE "Success")
     ELSE /\ streams' = IF canReadFromFile(files[f].openMode) /\ isOpen(f) THEN Clear(f) ELSE streams
          /\ StoreNothing("read", f, "PrerequisitesNotMet")
          /\ UNCHANGED files
  /\ UNCHANGED <<port, opened>>

\* Linux returns what addEvent returned, Darwin what the callback returned.
WriteReturns(error) == IF port = "Linux" THEN "Success" ELSE error

\* Mutant of PosixWrite: the size of the File is not advanced.
PosixWriteNoSize(f) ==
  /\ MayUse(f) /\ chunks < MaxChunks
  /\ IF isOpen(f) /\ canWriteToFile(files[f].openMode) /\ StreamOf(f).good
     THEN /\ Store(f, StreamOf(f).path, files[f].filePointer, StreamOf(f).append, "Success")
          /\ UNCHANGED <<streams, files>>
     ELSE /\ StoreNothing("write", f, WriteReturns("Failure"))
          /\ streams' = IF isOpen(f) /\ canWriteToFile(files[f].openMode) THEN Clear(f) ELSE streams
          /\ UNCHANGED files
  /\ UNCHANGED <<port, opened>>

\* writeBlocking(): at the offset, which does not move, or at the end of a
\* stream that appends.  What a failed flush leaves on the media is open.
PosixWrite(f) ==
  /\ MayUse(f) /\ chunks < MaxChunks
  /\ IF isOpen(f) /\ canWriteToFile(files[f].openMode)
     THEN IF StreamOf(f).good
          THEN \E ok \in Flushes(f), kept \in BOOLEAN :
                 /\ files' = [files EXCEPT ![f].size = @ + 1]
                 /\ streams' = Clear(f)
                 /\ IF ok \/ kept
                    THEN Store(f, StreamOf(f).path, files[f].filePointer, StreamOf(f).append,
                               WriteReturns(IF ok THEN "Success" ELSE "Failure"))
                    ELSE /\ chunks' = chunks + 1
                         /\ UNCHANGED <<media, acked>>
                         /\ Return("write", f, WriteReturns("Failure"), FALSE)
          ELSE /\ streams' = Clear(f)
               /\ StoreNothing("write", f, WriteReturns("Failure"))
               /\ UNCHANGED files
     ELSE StoreNothing("write", f, WriteReturns("PrerequisitesNotMet")) /\ UNCHANGED <<streams, files>>
  /\ UNCHANGED <<port, opened>>

\* synchronize() and size() of a caller.
PosixSynchronize(f) ==
  /\ MayUse(f) /\ isOpen(f)
  /\ \E ok \in Flushes(f) : StoreNothing("synchronize", f, IF ok THEN "Success" ELSE "Failure")
  /\ streams' = Clear(f)
  /\ UNCHANGED <<port, files, opened>>

PosixSize(f) ==
  /\ MayUse(f) /\ isOpen(f)
  /\ \E noSize \in Fails("size") :
       IF noSize \/ ~StreamOf(f).good
       THEN StoreNothing("size", f, "PrerequisitesNotMet") /\ UNCHANGED files
       ELSE /\ files' = [files EXCEPT ![f].size = Len(media[StreamOf(f).path])]
            /\ StoreNothing("size", f, "Success")
  /\ streams' = Clear(f)
  /\ UNCHANGED <<port, opened>>

-----------------------------------------------------------------------------
(* Esp, SPIFFS (a null FILE ends the program: no call is made without one)   *)

\* toPosixOpenMode: "rw" is read as "r", and "w", "w+" truncate.
toPosixOpenMode(mode) ==
  [append |-> mode \in {"ReadWriteNew", "WriteOnlyAppend"},
   trunc  |-> mode \in {"WriteOnlyNew", "WriteOnlyTruncate"},
   exists |-> mode \in {"ReadOnly", "ReadWriteAppend", "ReadWriteTruncate"},
   writes |-> mode \notin {"ReadOnly", "ReadWriteTruncate"}]

SpiffsOpen(f, p, mode, maxOpen) ==
  /\ MayOpen(f, p)
  /\ LET m == toPosixOpenMode(mode)
         s == IF Exists(p) /\ ~m.trunc THEN media[p] ELSE <<>>
     IN  IF Cardinality(DOMAIN streams) >= maxOpen
         THEN StoreNothing("open", f, "LimitReached") /\ UNCHANGED <<streams, files, opened>>
         ELSE \E bad \in Fails("open"), noSize \in Fails("size") :
                IF bad \/ (m.exists /\ ~Exists(p))
                THEN StoreNothing("open", f, "Failure") /\ UNCHANGED <<streams, files, opened>>
                ELSE /\ media' = Put(media, p, s)
                     /\ IF s = <<>> THEN Forget(p) ELSE UNCHANGED acked
                     /\ UNCHANGED chunks
                     /\ IF noSize
                        THEN /\ files' = [files EXCEPT ![f] = [@ EXCEPT !.path = p, !.isOpen = FALSE, !.openMode = "Unknown",
                                                                        !.filePointer = files[f].size]]
                             /\ Return("open", f, "Failure", FALSE)
                             /\ UNCHANGED <<streams, opened>>
                        ELSE /\ files' = [files EXCEPT ![f] = [path |-> p, size |-> Len(s), filePointer |-> Len(s),
                                                               openMode |-> mode, isOpen |-> TRUE]]
                             /\ streams' = Put(streams, PathKey[p],
                                               [path |-> p, append |-> m.append, good |-> m.writes])
                             /\ opened' = Cardinality(DOMAIN streams')
                             /\ Return("open", f, "Success", TRUE)
  /\ UNCHANGED port

SpiffsClose(f) ==
  /\ MayUse(f) /\ HasKey(f)
  /\ \E bad \in Fails("close") :
       IF bad THEN StoreNothing("close", f, "Failure") /\ UNCHANGED <<streams, files, opened>>
       ELSE /\ streams' = Drop(streams, KeyOf(f))
            /\ files' = Closed(f)
            /\ opened' = Cardinality(DOMAIN streams')
            /\ StoreNothing("close", f, "Success")
  /\ UNCHANGED port

\* remove(): the FILE is forgotten even if it could not be closed, and the
\* number of open files is not updated.
SpiffsRemove(f) ==
  /\ MayUse(f) /\ HasKey(f)
  /\ LET p == files[f].path IN
     \E stuck \in Fails("close"), bad \in Fails("delete") :
       LET open == files[f].isOpen /\ stuck
           gone == ~open /\ ~bad /\ Exists(p)
       IN  /\ streams' = Drop(streams, KeyOf(f))
           /\ files' = IF open THEN files ELSE Closed(f)
           /\ IF gone THEN media' = Drop(media, p) /\ Forget(p) ELSE UNCHANGED <<media, acked>>
           /\ Return("remove", f, IF gone THEN "Success" ELSE "Failure", gone)
           /\ UNCHANGED <<chunks, opened>>
  /\ UNCHANGED port

SpiffsRead(f, n) ==
  /\ MayUse(f) /\ HasKey(f)
  /\ LET found == Found(f, media[StreamOf(f).path], n) IN
     /\ files' = [files EXCEPT ![f].filePointer = @ + Len(found)]
     /\ StoreNothing("read", f, IF Len(found) < n THEN "EndOfFile" ELSE "Success")
  /\ UNCHANGED <<port, streams, opened>>

\* writeBlocking(): fwrite's number of items is taken for an error, so that the
\* offset and the size stay; errno says nothing then.  A FILE that only reads
\* writes nothing.
SpiffsWrite(f) ==
  /\ MayUse(f) /\ HasKey(f) /\ chunks < MaxChunks
  /\ IF StreamOf(f).good
     THEN \E error \in {"Success", "Failure"} :
            Store(f, StreamOf(f).path, files[f].filePointer, StreamOf(f).append, error)
     ELSE StoreNothing("write", f, "Failure")
  /\ UNCHANGED <<port, streams, files, opened>>

-----------------------------------------------------------------------------
(* Esp, key/value pairs: one handle for all, a write replaces the value      *)

\* open(): the size that is looked at, and the value "0" that is written (a
\* chunk of its own), are those of the path the File had before.
KeyValueOpen(f, p, mode) ==
  /\ MayOpen(f, p)
  /\ LET q     == files[f].path
         found == Exists(q)
         size  == IF found THEN Len(media[q]) ELSE 0
         error == IF fileMustExist(mode) /\ ~found THEN "FileNotFound"
                  ELSE IF fileMustNotExist(mode) /\ found THEN "FileExists" ELSE "Success"
         dummy == error = "Success" /\ ~fileShouldBeTruncated(mode) /\ size = 0 /\ q # NoPath
     IN  /\ dummy => chunks < MaxChunks
         /\ files' = [files EXCEPT ![f] = [path |-> p, size |-> size, openMode |-> mode, isOpen |-> TRUE,
                        filePointer |-> IF error # "Success" THEN @.filePointer
                                        ELSE IF fileShouldBeTruncated(mode) THEN 0 ELSE size]]
         /\ chunks' = IF dummy THEN chunks + 1 ELSE chunks
         /\ IF dummy THEN media' = Put(media, q, <<chunks + 1>>) /\ Forget(q) ELSE UNCHANGED <<media, acked>>
         /\ Return("open", f, error, error = "Success")
  /\ UNCHANGED <<port, streams, opened>>

KeyValueClose(f) ==
  /\ MayUse(f)
  /\ \E bad \in Fails("flush") :
       IF bad THEN StoreNothing("close", f, "Failure") /\ UNCHANGED files
       ELSE StoreNothing("close", f, "Success") /\ files' = Closed(f)
  /\ UNCHANGED <<port, streams, opened>>

KeyValueRemove(f) ==
  /\ MayUse(f)
  /\ LET p == files[f].path IN
     \E bad \in Fails("flush") :
       LET gone == ~(files[f].isOpen /\ bad) /\ Exists(p)
       IN  /\ files' = IF files[f].isOpen /\ ~bad THEN Closed(f) ELSE files
           /\ IF gone THEN media' = Drop(media, p) /\ Forget(p) ELSE UNCHANGED <<media, acked>>
           /\ Return("remove", f, IF gone THEN "Success" ELSE "Failure", gone)
  /\ UNCHANGED <<port, streams, opened, chunks>>

\* readBlocking(): the whole value or nothing, the offset is not used.
KeyValueRead(f, n) ==
  /\ MayUse(f)
  /\ LET p == files[f].path IN
     StoreNothing("read", f, IF Exists(p) /\ Len(media[p]) <= Min({n, files[f].size}) THEN "Success" ELSE "Failure")
  /\ UNCHANGED <<port, streams, files, opened>>

KeyValueWrite(f) ==
  /\ MayUse(f) /\ chunks < MaxChunks /\ files[f].path # NoPath
  /\ LET p == files[f].path IN
     /\ chunks' = chunks + 1
     /\ media' = Put(media, p, <<chunks'>>)
     /\ acked' = [acked EXCEPT ![p] = <<chunks'>>]
     /\ Return("write", f, "Success", TRUE)
  /\ UNCHANGED <<port, streams, files, opened>>

KeyValueSize(f) ==
  /\ MayUse(f)
  /\ LET found == Exists(files[f].path) IN
     /\ files' = [files EXCEPT ![f].size = IF found THEN Len(media[files[f].path]) ELSE 0]
     /\ StoreNothing("size", f, IF found THEN "Success" ELSE "FileNotFound")
  /\ UNCHANGED <<port, streams, opened>>

-----------------------------------------------------------------------------
(* Cc32xx                                                                   *)

\* open(): a key that is in the map is left alone, whoever put it there.  A
\* handle may be an error (the platform has the file open); it is good if not.
SlOpen(f, p, mode) ==
  /\ MayOpen(f, p)
  /\ IF PathKey[p] \in DOMAIN streams
     THEN StoreNothing("open", f, "Success") /\ UNCHANGED <<streams, files, opened>>
     ELSE LET s == IF Exists(p) /\ ~fileShouldBeTruncated(mode) THEN media[p] ELSE <<>>
          IN  \/ /\ fileMustExist(mode) \/ mode = "ReadOnly" => Exists(p)
                 /\ fileMustNotExist(mode) => ~Exists(p)
                 /\ streams' = Put(streams, PathKey[p], [path |-> p, append |-> FALSE, good |-> TRUE])
                 /\ files' = [files EXCEPT ![f] = [path |-> p, size |-> IF fileShouldBeTruncated(mode) THEN 0 ELSE @.size,
                                                   filePointer |-> 0, openMode |-> mode, isOpen |-> TRUE]]
                 /\ opened' = Cardinality(DOMAIN streams')
                 /\ media' = Put(media, p, s)
                 /\ IF s = <<>> THEN Forget(p) ELSE UNCHANGED acked
                 /\ Return("open", f, "Success", TRUE)
                 /\ UNCHANGED chunks
              \/ /\ "open" \in Faults \/ fileMustExist(mode) \/ mode = "ReadOnly" \/ fileMustNotExist(mode)
                 /\ StoreNothing("open", f, "Failure")
                 /\ UNCHANGED <<streams, files, opened>>
              \/ /\ "open" \in Faults
                 /\ streams' = Put(streams, PathKey[p], [path |-> p, append |-> FALSE, good |-> FALSE])
                 /\ files' = [files EXCEPT ![f] = [path |-> p, size |-> IF fileShouldBeTruncated(mode) THEN 0 ELSE @.size,
                                                   filePointer |-> 0, openMode |-> mode, isOpen |-> TRUE]]
                 /\ opened' = Cardinality(DOMAIN streams')
                 /\ StoreNothing("open", f, "Success")
  /\ UNCHANGED port

SlClose(f) ==
  /\ MayUse(f)
  /\ IF ~HasKey(f) THEN StoreNothing("close", f, "Success") /\ UNCHANGED <<streams, files, opened>>
     ELSE \E bad \in Fails("close") :
            IF bad \/ ~StreamOf(f).good
            THEN StoreNothing("close", f, "Failure") /\ UNCHANGED <<streams, files, opened>>
            ELSE /\ streams' = Drop(streams, KeyOf(f))
                 /\ files' = Closed(f)
                 /\ opened' = Cardinality(DOMAIN streams')
                 /\ StoreNothing("close", f, "Success")
  /\ UNCHANGED port

\* remove(): the file is closed but what sl_FsDel says is not returned.
SlRemove(f) ==
  /\ MayUse(f)
  /\ LET p == files[f].path IN
     \E stuck \in Fails("close"), bad \in Fails("delete") :
       IF ~files[f].isOpen \/ (HasKey(f) /\ (stuck \/ ~StreamOf(f).good))
       THEN StoreNothing("remove", f, "Failure") /\ UNCHANGED <<streams, files, opened>>
       ELSE /\ IF HasKey(f)
               THEN /\ streams' = Drop(streams, KeyOf(f))
                    /\ files' = Closed(f)
                    /\ opened' = Cardinality(DOMAIN streams')
               ELSE UNCHANGED <<streams, files, opened>>
            /\ IF bad \/ ~Exists(p) THEN UNCHANGED <<media, acked>> ELSE media' = Drop(media, p) /\ Forget(p)
            /\ Return("remove", f, "Success", ~bad /\ Exists(p))
            /\ UNCHANGED chunks
  /\ UNCHANGED port

\* readBlocking() and writeBlocking() put the handle 0, which no file has here,
\* under a key that is not in the map.
SlHandle(f) == IF HasKey(f) THEN streams
               ELSE Put(streams, KeyOf(f), [path |-> files[f].path, append |-> FALSE, good |-> FALSE])

SlRead(f, n) ==
  /\ MayUse(f)
  /\ streams' = SlHandle(f)
  /\ IF HasKey(f) /\ StreamOf(f).good /\ canReadFromFile(files[f].openMode)
     THEN LET found == Found(f, media[StreamOf(f).path], n)
          IN  /\ files' = [files EXCEPT ![f].filePointer = @ + Len(found)]
              /\ StoreNothing("read", f, "Success")
     ELSE StoreNothing("read", f, "Failure") /\ UNCHANGED files
  /\ UNCHANGED <<port, opened>>

\* writeBlocking() returns what addEvent returned.
SlWrite(f) ==
  /\ MayUse(f) /\ chunks < MaxChunks
  /\ streams' = SlHandle(f)
  /\ IF HasKey(f) /\ StreamOf(f).good /\ canWriteToFile(files[f].openMode)
     THEN /\ Store(f, StreamOf(f).path, files[f].filePointer, FALSE, "Success")
          /\ files' = [files EXCEPT ![f].size = @ + 1]
     ELSE StoreNothing("write", f, "Success") /\ UNCHANGED files
  /\ UNCHANGED <<port, opened>>

-----------------------------------------------------------------------------
\* Callers set the offset of their File themselves.
Seek(f) ==
  /\ files[f].filePointer # 0
  /\ files' = [files EXCEPT ![f].filePointer = 0]
  /\ UNCHANGED <<port, media, streams, opened, chunks, acked, last>>

\* Bound: the buffers callers read into, in chunks.
Buffers == {1, 2}

\* _MaxOpenFiles of SPIFFS (bound: 1 instead of 10).
MaxOpenFiles == 1

PosixFiles ==
  \E f \in Files :
    \/ \E p \in Paths, mode \in Modes : PosixOpen(f, p, mode)
    \/ PosixClose(f) \/ PosixRemove(f) \/ PosixWrite(f) \/ PosixSynchronize(f) \/ PosixSize(f) \/ Seek(f)
    \/ \E n \in Buffers : PosixRead(f, n)

LinuxFiles  == port = "Linux"  /\ PosixFiles
DarwinFiles == port = "Darwin" /\ PosixFiles

SpiffsFiles ==
  /\ port = "Spiffs"
  /\ \E f \in Files :
       \/ \E p \in Paths, mode \in Modes : SpiffsOpen(f, p, mode, MaxOpenFiles)
       \/ SpiffsClose(f) \/ SpiffsRemove(f) \/ SpiffsWrite(f) \/ Seek(f)
       \/ \E n \in Buffers : SpiffsRead(f, n)

KeyValueFiles ==
  /\ port = "KeyValue"
  /\ \E f \in Files :
       \/ \E p \in Paths, mode \in Modes : KeyValueOpen(f, p, mode)
       \/ KeyValueClose(f) \/ KeyValueRemove(f) \/ KeyValueWrite(f) \/ KeyValueSize(f) \/ Seek(f)
       \/ \E n \in Buffers : KeyValueRead(f, n)

SlFiles ==
  /\ port = "Cc32xx"
  /\ \E f \in Files :
       \/ \E p \in Paths, mode \in Modes : SlOpen(f, p, mode)
       \/ SlClose(f) \/ SlRemove(f) \/ SlWrite(f) \/ Seek(f)
       \/ \E n \in Buffers : SlRead(f, n)

Next == LinuxFiles \/ DarwinFiles \/ SpiffsFiles \/ KeyValueFiles \/ SlFiles

Spec == Init /\ [][Next]_vars

-----------------------------------------------------------------------------
Keys == {PathKey[p] : p \in Paths \cup {NoPath}}

TypeOK ==
  /\ port \in Ports
  /\ DOMAIN media \subseteq Paths /\ \A p \in DOMAIN media : media[p] \in Seq(1 .. MaxChunks)
  /\ DOMAIN streams \subseteq Keys
  /\ \A k \in DOMAIN streams : streams[k] \in [path : Paths \cup {NoPath}, append : BOOLEAN, good : BOOLEAN]
  /\ files \in [Files -> [path : Paths \cup {NoPath}, size : Nat, filePointer : Nat,
                          openMode : Modes \cup {"Unknown"}, isOpen : BOOLEAN]]
  /\ opened \in Nat /\ chunks \in 0 .. MaxChunks
  /\ acked \in [Paths -> Seq(1 .. MaxChunks)]

\* A File that says it is open has its stream, which is open on its path.  (SPIFFS
\* forgets the FILE in remove() even if it could not be closed; key/value pairs
\* have no streams.)
OpenFileHasStream ==
  port \in {"Linux", "Darwin", "Cc32xx"} =>
    \A f \in Files : files[f].isOpen => HasKey(f) /\ StreamOf(f).path = files[f].path

\* A File that is open agrees with the media: its offset stays within the file,
\* so that consecutive reads return what the file holds without a gap, and the
\* size in a File that appends is at least the size on the media.
OpenFileMatchesMedia ==
  \A f \in Files : files[f].isOpen /\ HasKey(f) /\ StreamOf(f).good /\ Exists(files[f].path) =>
    /\ files[f].filePointer <= Len(media[files[f].path])
    /\ port \in {"Linux", "Darwin"} => files[f].size >= Len(media[files[f].path])

\* What a write acknowledged to a stream that appends is on the media until the file
\* is truncated or removed, and what the media hold is in the order of the writes.
AckedIsKept ==
  port = "Darwin" /\ Modes \cap {"ReadWriteTruncate", "WriteOnlyTruncate"} = {} =>
    \A p \in Paths :
      LET stored == IF Exists(p) THEN media[p] ELSE <<>> IN
      /\ Range(acked[p]) \subseteq Range(stored)
      /\ \A i, j \in DOMAIN stored : i < j => stored[i] < stored[j]
      /\ \A i, j \in DOMAIN acked[p] : i < j => acked[p][i] < acked[p][j]

\* An open that returns Success leaves the File open.
SuccessfulOpenIsOpen ==
  last.call = "open" /\ last.error = "Success" => files[last.file].isOpen

\* The promise of writeBlocking in FileSystemAbstraction.hpp: Success means that
\* the data was written, PrerequisitesNotMet that the mode does not allow it.
WriteSuccessIsWritten == last.call = "write" /\ last.error = "Success" => last.did

\* ... and of remove: Success means that the file was removed.
RemoveSuccessIsRemoved == last.call = "remove" /\ last.error = "Success" => last.did

\* ... and of open: a File is open only after an open that returned Success.
FailedOpenIsClosed == last.call = "open" /\ last.error # "Success" => ~files[last.file].isOpen

\* The number of open files is that of the streams.
OpenedIsExact == opened = Cardinality(DOMAIN streams)
=============================================================================

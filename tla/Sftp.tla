-------------------------------- MODULE Sftp --------------------------------
(***************************************************************************)
(* The SFTP server (src/src/sftp.rs) on the channel of one SSH session     *)
(* (channel_sftp in src/src/ssh.rs), with the client and the FAT volume as *)
(* its environment.                                                        *)
(*                                                                         *)
(* The server does one bounded piece of work per `step`, nothing while a   *)
(* reply is still in `out`, and touches the card once per poll (`budget`). *)
(* Between two steps it keeps paths, offsets and cursors, never a FAT      *)
(* handle.                                                                 *)
(*                                                                         *)
(* Files are measured in units; a card access moves up to a chunk of them. *)
(* Of the input only the framing is kept: a request, the header of a       *)
(* WRITE, one unit of payload.  What a request asks is chosen when it is   *)
(* parsed, since nothing looks at it earlier.  All paths are names in the  *)
(* root, and each name denotes a file of its own.                          *)
(*                                                                         *)
(* An optional value is a set of at most one element.                      *)
(***************************************************************************)
EXTENDS Integers, SequencesExt

CONSTANTS
    Names,       \* the paths the client uses
    Slots,       \* 1 .. MAX_HANDLES
    ReadChunk,   \* IO_CHUNK
    WriteChunk,  \* WRITE_CHUNK
    MaxSize,     \* FAT's limit of a file's size
    MaxRead,     \* MAX_READ_REPLY
    MaxInput,    \* MAX_INPUT: a chunk and some requests
    Symbols,     \* what a unit of payload may be
    Zero,        \* the unit the server fills gaps with
    Kinds,       \* the requests the client makes
    Perms,       \* what attributes of a request may say of the permissions;
                 \* "invalid": the attributes cannot be represented
    Ids,         \* request ids; their number bounds the requests in flight
    MaxOpens,    \* bound: handles given out in a session
    Payloads,    \* bound: how many units a WRITE carries
    NewSizes,    \* bound: the sizes a SETSTAT asks for
    OpenFlags,   \* the combinations of OPEN flags the client uses
    CardFails,   \* any access to the card may fail
    Rude         \* the client may break the framing

AllKinds == {"query", "fsync", "opendir", "readdir", "open", "close", "read",
             "write", "oversized", "remove", "rename", "mkdir", "rmdir", "setstat",
             "fsetstat"}
Flags == {"read", "write", "append", "creat", "trunc", "excl"}

ASSUME SftpAssumption ==
    /\ {ReadChunk, WriteChunk, MaxRead, MaxInput} \subseteq Nat \ {0}
    /\ {MaxSize, MaxOpens} \cup Payloads \subseteq Nat
    /\ MaxInput > WriteChunk
    /\ NewSizes \subseteq 0 .. MaxSize
    /\ Slots # {} /\ Slots \subseteq Nat /\ IsFiniteSet(Slots)
    /\ IsFiniteSet(Names)
    /\ Ids \subseteq Nat
    /\ \E most \in Payloads : \A n \in Payloads : n <= most
    /\ Kinds \subseteq AllKinds
    /\ Perms \subseteq {"keep", "readonly", "writable", "invalid"}
    /\ OpenFlags \subseteq SUBSET Flags
    /\ CardFails \in BOOLEAN /\ Rude \in BOOLEAN

VARIABLES
    files,        \* the files of the volume: a function from their names
    folders,      \* the names that are directories
    handles,      \* Sftp.handles: the file handles, a function from slots
    dirHandles,   \* Sftp.handles: the slots of directory handles
    tokens,       \* Sftp.tokens
    generation,   \* Sftp.generation
    readStream,   \* Sftp.read_stream
    writeStream,  \* Sftp.write_stream
    resize,       \* Sftp.resize
    skip,         \* Sftp.skip
    input,        \* Sftp.input, as frames
    out,          \* Sftp.out: at most one reply or chunk of DATA
    fatal,        \* Sftp.fatal
    budget,       \* Sftp.card_budget
    asked,        \* client: ids of the requests without a reply
    expects,      \* client: units of a DATA reply still to come
    owes,         \* client: units of payload it still has to send
    goal          \* history: the file the WRITE or SETSTAT at work should leave

volume  == <<files, folders>>
opened  == <<handles, dirHandles, tokens, generation>>
streams == <<readStream, writeStream, resize, skip>>
client  == <<asked, expects, owes>>
vars    == <<volume, opened, streams, input, out, fatal, budget, client, goal>>

-----------------------------------------------------------------------------
(* Files and cursors.                                                      *)

Sizes == {{}} \cup {{k} : k \in NewSizes}
Root  == "/"

(* A file's `born` stands for what a cursor is checked against: directory  *)
(* slot, short name, creation time and first cluster.  A new file differs  *)
(* from all others and from what the cursors remember.                     *)
Cursors(h) == h.read \cup h.append
Remembered ==
    {files[n].born : n \in DOMAIN files} \cup
        {c.born : c \in UNION {Cursors(handles[s]) : s \in DOMAIN handles}}
Births == 1 .. Cardinality(Names) + 2 * Cardinality(Slots) + 1
NewFile == [born |-> Min(Births \ Remembered), readonly |-> FALSE, data |-> <<>>]

Put(f, x, v) == [y \in DOMAIN f \cup {x} |-> IF y = x THEN v ELSE f[y]]
Without(f, x) == Restrict(f, DOMAIN f \ {x})

(* `data` with `units` written at offset `at`, a gap filled with zeros.    *)
Overlay(data, at, units) ==
    [i \in 1 .. Max({Len(data), at + Len(units)}) |->
        IF i > at /\ i <= at + Len(units) THEN units[i - at]
        ELSE IF i <= Len(data) THEN data[i] ELSE Zero]

Zeros(k) == [i \in 1 .. k |-> Zero]

(* A cursor remembers the file and its size.  `fate` is history: whether   *)
(* the cluster chain was cut since, or the file moved to another path.     *)
Cursor(f, at) ==
    [at |-> at, born |-> f.born, size |-> Len(f.data), fate |-> "intact"]

Accepted(c, f) == c.born = f.born /\ c.size = Len(f.data)

MapCursors(hs, born, To(_)) ==
    LET Mapped(C) == {IF c.born = born THEN To(c) ELSE c : c \in C}
    IN  [s \in DOMAIN hs |-> [hs[s] EXCEPT !.read = Mapped(@), !.append = Mapped(@)]]

Shrunk(hs, born) ==
    MapCursors(hs, born, LAMBDA c :
        IF c.fate = "intact" THEN [c EXCEPT !.fate = "shrunk"] ELSE c)

Moved(hs, born) == MapCursors(hs, born, LAMBDA c : [c EXCEPT !.fate = "moved"])

(* No file will ever fit these cursors again.                              *)
Orphaned(hs, born) ==
    MapCursors(hs, born, LAMBDA c :
        [c EXCEPT !.fate = "moved", !.born = 0, !.size = 0])

(* MUTANT: finds no path again, however it was typed.                        *)
WrongSamePath(m, n) == FALSE
SamePath(m, n) == m = n

InvalidatedFile(hs, n) ==
    [s \in DOMAIN hs |->
        IF SamePath(hs[s].name, n) THEN [hs[s] EXCEPT !.append = {}, !.read = {}]
        ELSE hs[s]]

InvalidatedWritten(hs, slot) ==
    [s \in DOMAIN hs |->
        IF s = slot THEN [hs[s] EXCEPT !.read = {}]
        ELSE IF SamePath(hs[s].name, hs[slot].name)
        THEN [hs[s] EXCEPT !.append = {}, !.read = {}]
        ELSE hs[s]]

(* What write_chunk may do to a file and to the handle it writes through.  *)
(* A failing card loses the append cursor and leaves the file as it was,   *)
(* overwritten in part, or written although it reports an error.           *)

(* MUTANT: a file that became read-only since it was opened is written.    *)
WrongWritable(f, end) == end <= MaxSize
Writable(f, end) == ~f.readonly /\ end <= MaxSize

WriteOutcomes(h, at, units) ==
    LET f      == files[h.name]
        end    == at + Len(units)
        tail   == {c \in h.append : c.size = Len(f.data)}
        stale  == at = Len(f.data) /\ \E c \in tail : ~Accepted(c, f)
        After(k) == [f EXCEPT !.data = Overlay(@, at, SubSeq(units, 1, k))]
        done   == After(Len(units))
        lost   == [h EXCEPT !.append = {}]
        moved  == [h EXCEPT !.read = {},
                            !.append = IF end >= Len(f.data)
                                       THEN {Cursor(done, end)} ELSE {}]
        inPlace == {k \in 0 .. Len(units) : at + k <= Len(f.data)}
        Result(ok, g, hh) == [ok |-> ok, file |-> g, handle |-> hh]
    IN  IF ~Writable(f, end) THEN {Result(FALSE, f, h)}
        ELSE IF stale THEN {Result(FALSE, f, lost)}
        ELSE {Result(TRUE, done, moved)} \cup
             (IF CardFails
              THEN {Result(FALSE, g, lost) : g \in {After(k) : k \in inPlace} \cup {done}}
              ELSE {})

-----------------------------------------------------------------------------
(* Replies and handles.                                                    *)

Reply(kind, id) == [kind |-> kind, id |-> id, n |-> 0]
Data(id, n)     == [kind |-> "data", id |-> id, n |-> n]
DataChunk(n)    == [kind |-> "chunk", id |-> 0, n |-> n]

(* A reply that comes with no change.                                      *)
Answer(kind, id) ==
    /\ out' = <<Reply(kind, id)>>
    /\ goal' = {}
    /\ UNCHANGED <<volume, opened, streams>>
Fail(id) == Answer("fail", id)

(* A change is made; a card that fails after that turns the reply.         *)
Done(id) ==
    /\ \/ out' = <<Reply("ok", id)>>
       \/ CardFails /\ out' = <<Reply("fail", id)>>
    /\ goal' = {}

OpenSlots == DOMAIN handles \cup dirHandles
FreeSlots == Slots \ OpenSlots

(* A token is a generation and a slot; the client may present any.         *)
Presented == (0 .. generation) \X Slots
Valid(t) == t[2] \in OpenSlots /\ tokens[t[2]] = t[1]
ValidFile(t) == Valid(t) /\ t[2] \in DOMAIN handles

(* MUTANT: a slot used before keeps its token.                             *)
WrongAllocate(s) ==
    /\ generation < MaxOpens
    /\ generation' = IF tokens[s] = 0 THEN generation + 1 ELSE generation
    /\ tokens' = [tokens EXCEPT ![s] = IF @ = 0 THEN generation + 1 ELSE @]

Allocate(s) ==
    /\ generation < MaxOpens
    /\ generation' = generation + 1
    /\ tokens' = [tokens EXCEPT ![s] = generation + 1]

-----------------------------------------------------------------------------
(* The requests, each one step of dispatch.                                *)

(* REALPATH, STAT, LSTAT, FSTAT, statvfs, limits, what is not supported,   *)
(* what cannot be parsed, and any request that fails with nothing changed: *)
(* a bad handle, a path that is not there, a card that fails at once.      *)
Query(id) == \E kind \in {"reply", "fail"} : Answer(kind, id)

Fsync(id, t) == ValidFile(t) /\ Answer("ok", id)

Opendir(id, n) ==
    /\ n \in folders \cup {Root}
    /\ IF FreeSlots = {} THEN Fail(id)
       ELSE LET s == Min(FreeSlots) IN
            /\ Allocate(s)
            /\ dirHandles' = dirHandles \cup {s}
            /\ out' = <<Reply("handle", id)>>
            /\ goal' = {}
            /\ UNCHANGED <<volume, handles, streams>>

(* What a listing contains is not modelled.                                *)
Readdir(id, t) ==
    /\ Valid(t) /\ t[2] \in dirHandles
    /\ \E kind \in {"reply", "eof"} : Answer(kind, id)

(* OPEN changes the file before it looks for a free handle.                *)
OpenRefused(n, flags, perm) ==
    LET f == files[n] IN
    \/ perm = "invalid"
    \/ n \in folders
    \/ n \in DOMAIN files /\ {"creat", "excl"} \subseteq flags
    \/ n \in DOMAIN files /\ "write" \in flags /\ f.readonly
    \/ n \notin DOMAIN files /\ ~({"write", "creat"} \subseteq flags)

OpenDone(id, n, flags, f, hs) ==
    /\ files' = Put(files, n, f)
    /\ IF FreeSlots = {}
       THEN /\ handles' = hs
            /\ out' = <<Reply("fail", id)>>
            /\ UNCHANGED <<tokens, generation>>
       ELSE LET s == Min(FreeSlots) IN
            /\ Allocate(s)
            /\ handles' = Put(hs, s,
                   [name |-> n,
                    readable |-> "read" \in flags \/ "write" \notin flags,
                    writable |-> "write" \in flags,
                    appends |-> "append" \in flags, append |-> {}, read |-> {}])
            /\ out' = <<Reply("handle", id)>>

Permitted(f, perm) ==
    [f EXCEPT !.readonly = IF perm = "keep" THEN @ ELSE perm = "readonly"]

Open(id, n, flags, perm) ==
    LET new  == n \notin DOMAIN files
        cut  == ~new /\ {"write", "trunc"} \subseteq flags
        file == IF new THEN NewFile
                ELSE IF cut THEN [files[n] EXCEPT !.data = <<>>] ELSE files[n]
        hs   == IF cut THEN Shrunk(handles, file.born) ELSE handles
    IN  /\ ~OpenRefused(n, flags, perm)
        /\ \/ OpenDone(id, n, flags, IF new THEN Permitted(file, perm) ELSE file,
                       IF cut THEN InvalidatedFile(hs, n) ELSE hs)
           \/ /\ CardFails /\ (new \/ cut)
              /\ files' = Put(files, n, file) /\ handles' = hs
              /\ out' = <<Reply("fail", id)>>
              /\ UNCHANGED <<tokens, generation>>
        /\ goal' = {}
        /\ UNCHANGED <<folders, dirHandles, streams>>

Close(id, t) ==
    /\ Valid(t)
    /\ handles' = Without(handles, t[2])
    /\ dirHandles' = dirHandles \ {t[2]}
    /\ out' = <<Reply("ok", id)>>
    /\ goal' = {}
    /\ UNCHANGED <<volume, tokens, generation, streams>>

AtEnd(offset, f) == offset >= Len(f.data)

(* The length of the DATA reply is announced before anything is read.      *)
Read(id, t, offset, wanted) ==
    /\ ValidFile(t)
    /\ LET h == handles[t[2]] IN
       /\ h.readable /\ h.name \in DOMAIN files
       /\ LET f == files[h.name]
              n == Min({wanted, MaxRead, Len(f.data) - offset})
          IN  IF AtEnd(offset, f) \/ wanted = 0 THEN Answer("eof", id)
              ELSE /\ readStream' = {[slot |-> t[2], offset |-> offset,
                                      remaining |-> n]}
                   /\ out' = <<Data(id, n)>>
                   /\ goal' = {}
                   /\ UNCHANGED <<volume, opened, writeStream, resize, skip>>

(* REMOVE and RENAME leave the handles of the path alone.  A file that is  *)
(* renamed back may or may not get its old directory slot again.           *)
RemoveFile(id, n) ==
    /\ n \in DOMAIN files /\ ~files[n].readonly
    /\ files' = Without(files, n)
    /\ handles' = Orphaned(handles, files[n].born)
    /\ Done(id)
    /\ UNCHANGED <<folders, dirHandles, tokens, generation, streams>>

Rename(id, from, to) ==
    /\ to \notin (DOMAIN files \cup folders) \ {from}
    /\ \/ /\ from \in DOMAIN files
          /\ LET old == files[from].born
                 At(born) == Put(Without(files, from), to,
                                 [files[from] EXCEPT !.born = born])
             IN  \/ files' = At(old) /\ handles' = Moved(handles, old)
                 \/ files' = At(NewFile.born) /\ handles' = Orphaned(handles, old)
          /\ UNCHANGED folders
       \/ /\ from \in folders
          /\ folders' = (folders \ {from}) \cup {to}
          /\ UNCHANGED <<files, handles>>
    /\ Done(id)
    /\ UNCHANGED <<dirHandles, tokens, generation, streams>>

Mkdir(id, n) ==
    /\ n \notin DOMAIN files \cup folders
    /\ folders' = folders \cup {n}
    /\ Done(id)
    /\ UNCHANGED <<files, opened, streams>>

Rmdir(id, n) ==
    /\ n \in folders
    /\ folders' = folders \ {n}
    /\ Done(id)
    /\ UNCHANGED <<files, opened, streams>>

(* SETSTAT, and FSETSTAT of a handle.  A file that grows is answered       *)
(* once the zeros are there.                                               *)
SetstatRefused(n, size, perm) ==
    \/ perm = "invalid"
    \/ n \notin DOMAIN files
    \/ \E k \in size : k # Len(files[n].data) /\ files[n].readonly

StartResize(id, n, k, perm) ==
    LET f == files[n] IN
    /\ resize' = {[id |-> id, size |-> k, perm |-> perm,
                   file |-> [name |-> n, readable |-> FALSE, writable |-> TRUE,
                             appends |-> FALSE, append |-> {}, read |-> {}]]}
    /\ goal' = {[name |-> n, at |-> k,
                 data |-> Overlay(f.data, Len(f.data), Zeros(k - Len(f.data)))]}
    /\ UNCHANGED <<volume, opened, readStream, writeStream, skip, out>>

ApplySetstat(id, n, size, perm) ==
    LET f    == files[n]
        data == IF size = {} THEN f.data
                ELSE SubSeq(f.data, 1, Min(size \cup {Len(f.data)}))
        cut  == [f EXCEPT !.data = data]
        hs   == IF data = f.data THEN handles ELSE Shrunk(handles, f.born)
    IN  /\ ~SetstatRefused(n, size, perm)
        /\ IF \E k \in size : k > Len(f.data)
           THEN \E k \in size : StartResize(id, n, k, perm)
           ELSE /\ \/ /\ files' = Put(files, n, Permitted(cut, perm))
                      /\ handles' = InvalidatedFile(hs, n)
                      /\ out' = <<Reply("ok", id)>>
                   \/ /\ CardFails
                      /\ files' = Put(files, n, cut) /\ handles' = hs
                      /\ out' = <<Reply("fail", id)>>
                /\ goal' = {}
                /\ UNCHANGED <<folders, dirHandles, tokens, generation, streams>>

(* The attributes of a directory are not modelled.                         *)
SetstatFolder(id, n) == n \in folders /\ Answer("ok", id)

Fsetstat(id, t, size, perm) ==
    \/ /\ ValidFile(t)
       /\ size # {} => handles[t[2]].writable
       /\ ApplySetstat(id, handles[t[2]].name, size, perm)
    \/ /\ Valid(t) /\ t[2] \in dirHandles /\ size = {}
       /\ Answer("ok", id)

Dispatch(id) ==
    \E kind \in Kinds :
        \/ kind = "query" /\ Query(id)
        \/ kind = "opendir" /\ \E n \in Names \cup {Root} : Opendir(id, n)
        \/ \E n \in Names :
            \/ kind = "remove" /\ RemoveFile(id, n)
            \/ kind = "mkdir" /\ Mkdir(id, n)
            \/ kind = "rmdir" /\ Rmdir(id, n)
            \/ kind = "rename" /\ \E to \in Names : Rename(id, n, to)
            \/ kind = "setstat" /\ SetstatFolder(id, n)
            \/ \E perm \in Perms :
                \/ kind = "open" /\ \E flags \in OpenFlags : Open(id, n, flags, perm)
                \/ kind = "setstat" /\ \E size \in Sizes : ApplySetstat(id, n, size, perm)
        \/ \E t \in Presented :
            \/ kind = "fsync" /\ Fsync(id, t)
            \/ kind = "readdir" /\ Readdir(id, t)
            \/ kind = "close" /\ Close(id, t)
            \/ /\ kind = "read"
               /\ \E offset, wanted \in 0 .. MaxSize : Read(id, t, offset, wanted)
            \/ /\ kind = "fsetstat"
               /\ \E size \in Sizes, perm \in Perms : Fsetstat(id, t, size, perm)

-----------------------------------------------------------------------------
(* Work that takes several steps.                                          *)

ContinueResize(job) ==
    LET n    == job.file.name
        f    == files[n]
        todo == job.size - Len(f.data)
    IN  /\ budget /\ budget' = FALSE
        /\ IF todo > 0
           THEN \E r \in WriteOutcomes(job.file, Len(f.data), Zeros(Min({todo, WriteChunk}))) :
                   /\ files' = Put(files, n, r.file)
                   /\ handles' = IF r.ok THEN InvalidatedFile(handles, n) ELSE handles
                   /\ resize' = IF r.ok THEN {[job EXCEPT !.file = r.handle]} ELSE {}
                   /\ out' = IF r.ok THEN <<>> ELSE <<Reply("fail", job.id)>>
           ELSE /\ resize' = {}
                /\ \/ /\ files' = Put(files, n, Permitted(f, job.perm))
                      /\ handles' = InvalidatedFile(handles, n)
                      /\ out' = <<Reply("ok", job.id)>>
                   \/ /\ CardFails
                      /\ out' = <<Reply("fail", job.id)>>
                      /\ UNCHANGED <<files, handles>>
        /\ UNCHANGED <<folders, dirHandles, tokens, generation, readStream,
                       writeStream, skip, input, fatal, goal>>

(* MUTANT: the stream, taken out to be worked on, is not put back.         *)
WrongLeftToRead(s, n) == {}
LeftToRead(s, n) ==
    IF s.remaining = n THEN {}
    ELSE {[s EXCEPT !.offset = @ + n, !.remaining = @ - n]}

(* A cursor that does not fit the file any more ends the session, as does  *)
(* a card that fails: the length of the reply has been announced.          *)
ContinueRead(s) ==
    LET h == handles[s.slot]
        n == Min({s.remaining, ReadChunk})
        stale(f) == \E c \in h.read : c.at = s.offset /\ ~Accepted(c, f)
    IN  /\ budget /\ budget' = FALSE
        /\ \/ /\ h.name \in DOMAIN files /\ ~stale(files[h.name])
              /\ handles' = [handles EXCEPT ![s.slot].read =
                     {Cursor(files[h.name], s.offset + n)}]
              /\ out' = <<DataChunk(n)>>
              /\ readStream' = LeftToRead(s, n)
              /\ UNCHANGED fatal
           \/ /\ CardFails \/ stale(files[h.name])
              /\ handles' = [handles EXCEPT ![s.slot].read = {}]
              /\ readStream' = {} /\ fatal' = TRUE
              /\ UNCHANGED out
        /\ UNCHANGED <<volume, dirHandles, tokens, generation, writeStream,
                       resize, skip, input, goal>>

(* The header of a WRITE; a request that is refused keeps its payload      *)
(* coming.                                                                 *)
BeginWrite(id, n, t, offset) ==
    LET ok == ValidFile(t) /\ handles[t[2]].writable /\ offset + n <= MaxSize
        h  == handles[t[2]]
    IN  /\ writeStream' = {[id |-> id, slot |-> IF ok THEN t[2] ELSE Min(Slots),
                            remaining |-> n, offset |-> IF ok THEN offset ELSE 0,
                            failed |-> ~ok]}
        /\ goal' = IF ok /\ h.name \in DOMAIN files
                   THEN LET data == files[h.name].data IN
                        {[name |-> h.name, data |-> data,
                          at |-> IF h.appends THEN Len(data) ELSE offset]}
                   ELSE {}
        /\ input' = Tail(input)
        /\ UNCHANGED <<volume, opened, readStream, resize, skip, out, fatal, budget>>

(* The stream `w` goes on, or ends with the reply.                         *)
Continued(w) ==
    /\ writeStream' = IF w.remaining = 0 THEN {} ELSE {w}
    /\ out' = IF w.remaining # 0 THEN <<>>
              ELSE <<Reply(IF w.failed THEN "fail" ELSE "ok", w.id)>>

(* Payload is taken in chunks, the last of which may be shorter.           *)
Available(w) == Min({Len(input), w.remaining})

(* MUTANT: waits for more than a chunk, or forever.                        *)
WrongFull(w) == Available(w) > WriteChunk
Full(w) == Available(w) >= WriteChunk \/ Available(w) = w.remaining
Count(w) == Min({Available(w), WriteChunk})
Rest(k) == SubSeq(input, k + 1, Len(input))

EndWrite(w) ==
    /\ w.remaining = 0
    /\ Continued(w)
    /\ UNCHANGED <<volume, handles, input, budget, goal>>

DiscardPayload(w) ==
    /\ w.remaining > 0 /\ Available(w) > 0 /\ Full(w) /\ w.failed
    /\ input' = Rest(Count(w))
    /\ Continued([w EXCEPT !.remaining = @ - Count(w)])
    /\ UNCHANGED <<volume, handles, budget, goal>>

(* MUTANT: what lies beyond the end is written at the end, without a gap.  *)
WrongWriteOffset(w) ==
    LET h == handles[w.slot] size == Len(files[h.name].data) IN
    IF h.appends THEN size ELSE Min({w.offset, size})
WriteOffset(w) ==
    LET h == handles[w.slot] IN
    IF h.appends THEN Len(files[h.name].data) ELSE w.offset

(* A chunk of payload, or of the zeros before it, reaches the card.  While *)
(* a gap is filled the payload stays in the input.                         *)
CanStore(w) ==
    /\ w.remaining > 0 /\ Available(w) > 0 /\ Full(w) /\ ~w.failed
    /\ budget /\ budget' = FALSE

FileGone(w) ==
    /\ CanStore(w)
    /\ handles[w.slot].name \notin DOMAIN files \/ CardFails
    /\ Continued([w EXCEPT !.failed = TRUE])
    /\ goal' = {}
    /\ UNCHANGED <<volume, handles, input>>

FillGap(w) ==
    LET h == handles[w.slot]
        f == files[h.name]
        gap == WriteOffset(w) - Len(f.data)
    IN  /\ CanStore(w)
        /\ h.name \in DOMAIN files /\ gap > 0
        /\ \E r \in WriteOutcomes(h, Len(f.data), Zeros(Min({gap, WriteChunk}))) :
            /\ files' = Put(files, h.name, r.file)
            /\ LET hs == Put(handles, w.slot, r.handle) IN
               handles' = IF r.ok THEN InvalidatedWritten(hs, w.slot) ELSE hs
            /\ Continued([w EXCEPT !.failed = ~r.ok])
            /\ goal' = {g \in goal : r.ok}
        /\ UNCHANGED <<folders, input>>

StorePayload(w) ==
    LET h == handles[w.slot]
        k == Count(w)
    IN  /\ CanStore(w)
        /\ h.name \in DOMAIN files /\ WriteOffset(w) <= Len(files[h.name].data)
        /\ \E units \in [1 .. k -> Symbols] :
            /\ \E r \in WriteOutcomes(h, WriteOffset(w), units) :
                /\ files' = Put(files, h.name, r.file)
                /\ LET hs == Put(handles, w.slot, r.handle) IN
                   handles' = IF r.ok THEN InvalidatedWritten(hs, w.slot) ELSE hs
                /\ Continued([w EXCEPT !.failed = ~r.ok, !.remaining = @ - k,
                                       !.offset = IF r.ok THEN @ + k ELSE @])
                /\ goal' = {[g EXCEPT !.data = Overlay(@, g.at, units), !.at = @ + k]
                               : g \in {g \in goal : r.ok}}
        /\ input' = Rest(k)
        /\ UNCHANGED folders

ContinueWrite(w) ==
    /\ EndWrite(w) \/ DiscardPayload(w) \/ FileGone(w) \/ FillGap(w) \/ StorePayload(w)
    /\ UNCHANGED <<dirHandles, tokens, generation, readStream, resize, skip, fatal>>

DiscardOversized ==
    LET k == Min({skip, Len(input)}) IN
    /\ k > 0
    /\ input' = Rest(k) /\ skip' = skip - k
    /\ UNCHANGED <<volume, opened, readStream, writeStream, resize, out, fatal,
                   budget, goal>>

-----------------------------------------------------------------------------
(* Framing.                                                                *)

Frame(kind, id, n) == [kind |-> kind, id |-> id, n |-> n]
Payload == Frame("payload", 0, 0)

ParseRequest(frame) ==
    /\ frame.kind = "request"
    /\ budget /\ budget' = FALSE
    /\ input' = Tail(input)
    /\ Dispatch(frame.id)
    /\ UNCHANGED fatal

ParseWrite(frame) ==
    /\ frame.kind = "write"
    /\ \E t \in Presented, offset \in 0 .. MaxSize :
           BeginWrite(frame.id, frame.n, t, offset)

(* MUTANT: what has come already is skipped a second time.                 *)
WrongParseOversized(frame) ==
    LET k == Min({frame.n, Len(input) - 1}) IN
    /\ frame.kind = "oversized"
    /\ out' = <<Reply("fail", frame.id)>>
    /\ input' = Rest(k + 1) /\ skip' = frame.n
    /\ goal' = {}
    /\ UNCHANGED <<volume, opened, readStream, writeStream, resize, fatal, budget>>

(* A request longer than MAX_REQUEST: what has come of it is dropped, what *)
(* is still to come is skipped.                                            *)
ParseOversized(frame) ==
    LET k == Min({frame.n, Len(input) - 1}) IN
    /\ frame.kind = "oversized"
    /\ out' = <<Reply("fail", frame.id)>>
    /\ input' = Rest(k + 1) /\ skip' = frame.n - k
    /\ goal' = {}
    /\ UNCHANGED <<volume, opened, readStream, writeStream, resize, fatal, budget>>

(* No length, no id, or a WRITE whose lengths disagree.  A payload is read *)
(* as such a frame when the server has lost count.                         *)
ParseBroken(frame) ==
    /\ frame.kind \in {"broken", "payload"}
    /\ fatal' = TRUE
    /\ UNCHANGED <<volume, opened, streams, input, out, budget, goal>>

ParseNext ==
    /\ input # <<>>
    /\ LET frame == Head(input) IN
       \/ ParseRequest(frame) \/ ParseWrite(frame)
       \/ ParseOversized(frame) \/ ParseBroken(frame)

(* MUTANT: looks for the next request while a DATA reply is under way.     *)
WrongIdle == writeStream = {} /\ resize = {} /\ skip = 0
Idle == readStream = {} /\ writeStream = {} /\ resize = {} /\ skip = 0

Step ==
    /\ ~fatal /\ out = <<>>
    /\ \/ \E job \in resize : ContinueResize(job)
       \/ resize = {} /\ \E s \in readStream : ContinueRead(s)
       \/ resize = {} /\ readStream = {} /\ \E w \in writeStream : ContinueWrite(w)
       \/ resize = {} /\ readStream = {} /\ writeStream = {} /\ DiscardOversized
       \/ Idle /\ ParseNext
    /\ UNCHANGED client

-----------------------------------------------------------------------------
(* The channel and the client.                                             *)

(* poll_session, once per poll.                                            *)
BeginPoll ==
    /\ ~budget /\ budget' = TRUE
    /\ UNCHANGED <<volume, opened, streams, input, out, fatal, client, goal>>

(* What step left in `out` goes to the client, which looks for the request *)
(* a reply belongs to.                                                     *)
SendOutput ==
    /\ out # <<>> /\ out' = <<>>
    /\ LET reply == Head(out) IN
       IF reply.kind = "chunk"
       THEN expects' = expects - reply.n /\ UNCHANGED asked
       ELSE /\ asked' = RemoveFirst(asked, reply.id)
            /\ expects' = expects + reply.n
    /\ goal' = {}
    /\ UNCHANGED <<volume, opened, streams, input, fatal, budget, owes>>

HasSpace == Len(input) < MaxInput
Unused == Ids \ {asked[i] : i \in DOMAIN asked}

ClientAsks ==
    /\ ~fatal /\ HasSpace /\ owes = 0
    /\ \E kind \in {"request", "write", "oversized", "broken"}, n \in Payloads \cup {0} :
        /\ kind = "request" => n = 0
        /\ kind \in {"write", "oversized"} => kind \in Kinds
        /\ kind = "write" => n \in Payloads
        /\ kind = "oversized" => n > 0
        /\ IF kind = "broken"
           THEN /\ Rude /\ n = 0
                /\ input' = Append(input, Frame(kind, 0, 0))
                /\ UNCHANGED asked
           ELSE /\ Unused # {}
                /\ input' = Append(input, Frame(kind, Min(Unused), n))
                /\ asked' = Append(asked, Min(Unused))
        /\ owes' = n
    /\ UNCHANGED <<volume, opened, streams, out, fatal, budget, expects, goal>>

ClientSendsPayload ==
    /\ ~fatal /\ HasSpace /\ owes > 0
    /\ owes' = owes - 1
    /\ input' = Append(input, Payload)
    /\ UNCHANGED <<volume, opened, streams, out, fatal, budget, asked, expects, goal>>

(* The session ends with whatever is in flight; the next one starts with   *)
(* Sftp::new().                                                            *)
NewSession ==
    /\ handles' = [s \in {} |-> 0] /\ dirHandles' = {}
    /\ tokens' = [s \in Slots |-> 0] /\ generation' = 0
    /\ readStream' = {} /\ writeStream' = {} /\ resize' = {} /\ skip' = 0
    /\ input' = <<>> /\ out' = <<>> /\ fatal' = FALSE /\ budget' = TRUE
    /\ asked' = <<>> /\ expects' = 0 /\ owes' = 0 /\ goal' = {}
    /\ UNCHANGED volume

ClientLeaves == ~fatal /\ NewSession
SessionDropped == fatal /\ NewSession

Init ==
    /\ files = [n \in {} |-> 0] /\ folders = {}
    /\ handles = [s \in {} |-> 0] /\ dirHandles = {}
    /\ tokens = [s \in Slots |-> 0] /\ generation = 0
    /\ readStream = {} /\ writeStream = {} /\ resize = {} /\ skip = 0
    /\ input = <<>> /\ out = <<>> /\ fatal = FALSE /\ budget = TRUE
    /\ asked = <<>> /\ expects = 0 /\ owes = 0 /\ goal = {}

Next ==
    \/ Step \/ BeginPoll \/ SendOutput
    \/ ClientAsks \/ ClientSendsPayload \/ ClientLeaves \/ SessionDropped

Spec == Init /\ [][Next]_vars

(* The main loop polls the session while it lasts; the client goes on with *)
(* a request it has begun.                                                 *)
FairSpec ==
    /\ Spec
    /\ WF_vars(Step) /\ WF_vars(BeginPoll) /\ WF_vars(SendOutput)
    /\ WF_vars(ClientSendsPayload) /\ WF_vars(SessionDropped)

-----------------------------------------------------------------------------
(* Properties.                                                             *)

CursorType ==
    [at : 0 .. MaxSize, born : {0} \cup Births, size : 0 .. MaxSize,
     fate : {"intact", "shrunk", "moved"}]
Optional(S) == {{}} \cup {{x} : x \in S}

IsFile(f) ==
    /\ f \in [born : Births, readonly : BOOLEAN, data : Seq(Symbols \cup {Zero})]
    /\ Len(f.data) <= MaxSize
HandleType ==
    [name : Names, readable : BOOLEAN, writable : BOOLEAN, appends : BOOLEAN,
     append : Optional(CursorType), read : Optional(CursorType)]
JobType == [id : Ids, size : 0 .. MaxSize, perm : Perms, file : HandleType]
FrameType ==
    [kind : {"request", "payload", "broken"}, id : Ids \cup {0}, n : {0}]
        \cup [kind : {"write", "oversized"}, id : Ids, n : Payloads]
ReplyType ==
    [kind : {"reply", "handle", "eof", "ok", "fail"}, id : Ids, n : {0}]
        \cup [kind : {"data", "chunk"}, id : Ids \cup {0}, n : 1 .. MaxRead]

(* At most one piece of work is pending, and the handle it works on is     *)
(* open: a request that would close it is not parsed before the work ends. *)
OneWorkAtATime ==
    /\ Cardinality(readStream) + Cardinality(writeStream) + Cardinality(resize)
         + (IF skip > 0 THEN 1 ELSE 0) <= 1
    /\ \A s \in readStream : s.slot \in DOMAIN handles
    /\ \A w \in writeStream : w.failed \/ w.slot \in DOMAIN handles

(* Every variable keeps its type; a name is not a file and a directory at  *)
(* once, a slot not two handles, and the pending work (step, dispatch) is  *)
(* one piece.                                                              *)
TypeOK ==
    /\ DOMAIN files \subseteq Names /\ folders \subseteq Names
    /\ DOMAIN files \cap folders = {}
    /\ \A n \in DOMAIN files : IsFile(files[n])
    /\ DOMAIN handles \subseteq Slots /\ dirHandles \subseteq Slots
    /\ DOMAIN handles \cap dirHandles = {}
    /\ \A s \in DOMAIN handles : handles[s] \in HandleType
    /\ generation \in 0 .. MaxOpens /\ tokens \in [Slots -> 0 .. MaxOpens]
    /\ readStream \in Optional([slot : Slots, offset : 0 .. MaxSize,
                                remaining : 1 .. MaxSize])
    /\ writeStream \in Optional([id : Ids, slot : Slots,
                                 remaining : 0 .. Max(Payloads),
                                 offset : 0 .. MaxSize, failed : BOOLEAN])
    /\ resize \subseteq JobType
    /\ skip \in 0 .. Max(Payloads)
    /\ input \in Seq(FrameType) /\ Len(input) <= MaxInput
    /\ out \in Seq(ReplyType) /\ Len(out) <= 1
    /\ fatal \in BOOLEAN /\ budget \in BOOLEAN
    /\ asked \in Seq(Ids)
    /\ expects \in 0 .. MaxRead /\ owes \in 0 .. Max(Payloads)
    /\ OneWorkAtATime

(* The server and the client agree where the next request begins.  Of the  *)
(* frames `q`, the first `first` units of payload belong to what is at     *)
(* work, the others to the headers they follow; `due` is what is still to  *)
(* come after each frame, and `last` after all of them.                    *)
Framed(q, first, last) ==
    \E due \in [0 .. Len(q) -> 0 .. Max(Payloads)] :
        /\ due[0] = first /\ due[Len(q)] = last
        /\ \A i \in DOMAIN q :
              IF q[i].kind = "payload" THEN due[i - 1] = due[i] + 1
              ELSE due[i - 1] = 0 /\ due[i] = q[i].n

(* What the client owes is what the pending WRITE, the skipped request and *)
(* the headers in the input still call for, and no frame of payload stands *)
(* where the server looks for a request.                                   *)
Pending == IF writeStream = {} THEN skip ELSE (CHOOSE w \in writeStream : TRUE).remaining
FramesInStep == ~fatal => Framed(input, Pending, owes)

(* A cursor that the volume would accept for the file at the path of the   *)
(* handle points into the chain that file has now, unless the file had     *)
(* been moved: whatever shortens a file forgets its cursors (invalidate_   *)
(* file, invalidate_written), under whichever handle they are kept.        *)
CursorsAreFresh ==
    \A s \in DOMAIN handles :
        LET h == handles[s] IN
        h.name \in DOMAIN files =>
            \A c \in Cursors(h) : Accepted(c, files[h.name]) => c.fate # "shrunk"

(* A WRITE or a growing SETSTAT that is answered OK has left the file as   *)
(* the client asked: all of the payload at its offset or at the end, zeros *)
(* in the gap, the rest as it was.                                         *)
OkMeansDone ==
    \A g \in goal : out # <<>> /\ Head(out).kind = "ok" =>
        /\ g.name \in DOMAIN files
        /\ files[g.name].data = g.data

(* A read-only file keeps its contents and goes on existing, also under    *)
(* handles that were opened before it became read-only.                    *)
ReadOnlyIsKept ==
    [][\A n \in DOMAIN files : files[n].readonly =>
          \E m \in DOMAIN files' :
             files'[m].data = files[n].data /\ (m = n \/ n \notin DOMAIN files')]_vars

(* A token starts to be valid only when it is given out for the first time *)
(* in the session: a closed handle is never mistaken for a later one.      *)
TokensAreNew ==
    [][\A t \in Presented : ~Valid(t) => ~Valid(t)']_vars

(* One reply per request, in order, with all the data it announces.        *)
Service == INSTANCE SftpService
ImplementsService == Service!Spec

(* Every request is answered, or the session ends.                         *)
EveryRequestAnswered ==
    \A id \in Ids :
        (asked # <<>> /\ Head(asked) = id) ~> ~(asked # <<>> /\ Head(asked) = id)

(* A client that keeps to the protocol, on a card that works, does not     *)
(* lose its session (the comment of is_fatal blames the peer).             *)
SessionSurvives == ~fatal
=============================================================================

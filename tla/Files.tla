------------------------------- MODULE Files --------------------------------
(***************************************************************************)
(* A file on its way through the bucket: the sender packs, splits and      *)
(* seals it and puts the parts one after another, a reader fetches them    *)
(* one after another, without knowing how many there are, and opens them.  *)
(* Every part takes a ticket of the web app and a request to the edge;     *)
(* either may fail, the ticket may expire, and the file may be deleted,    *)
(* pruned and swept away object by object meanwhile, by a sweep that knows *)
(* the rows of its prune only (quotas, and the races of the commit, are    *)
(* BlobStore's subject).                                                   *)
(*                                                                         *)
(* A ciphertext is a record of what it was made with: opening it with      *)
(* anything else fails.  A byte is a value, a file a sequence of bytes.    *)
(***************************************************************************)
EXTENDS Naturals, Sequences, SequencesExt

CONSTANTS
    FileIds,      \* ids of files; the upload of a file is named like the file
    Contents,     \* files that are sent
    ChunkSize,    \* CHUNK_SIZE, in bytes
    FileMax,      \* FILE_MAX_BYTES
    MinCompress,  \* MIN_COMPRESS_BYTES
    MaxChunks,    \* 1024: where a reader stops asking
    TicketLife,   \* CAPABILITY_TTL_MS, in ticks
    MaxFaults,    \* bound: requests that fail
    MaxTicks,     \* bound: the clock stops there
    Trailer,      \* the name of the last part
    Nothing       \* null

Bytes == UNION {{file[i] : i \in DOMAIN file} : file \in Contents}

ASSUME FilesAssumption ==
    /\ ChunkSize \in Nat \ {0} /\ MaxChunks \in Nat \ {0}
    /\ {TicketLife, MaxTicks, MaxFaults} \subseteq Nat
    /\ \A file \in Contents : file \in Seq(Bytes)
    /\ Trailer \notin Nat

\* Nothing is none of the values that are compared with it: a part of a file,
\* a file's key, its meta, and what the bucket holds.
Plain == Seq(Bytes \cup {"run", "raw"} \cup Nat)
Ciphertexts ==
    [key : {"fileKey"} \X FileIds, iv : ({"baseIv"} \X FileIds) \X Nat,
     aad : FileIds \X {"image", "file"}, plain : Plain]
ASSUME NothingAssumption ==
    /\ Nothing \notin Plain
    /\ Nothing \notin {"fileKey"} \X FileIds
    /\ Nothing \notin [size : Nat, compression : {"none", "gzip"},
                       baseIv : {"baseIv"} \X FileIds]
    /\ Nothing \notin Ciphertexts

VARIABLES
    time,
    objects,   \* the bucket: from <<blob, name>> to the ciphertext
    rows,      \* blobs on Postgres
    items,     \* items on Postgres
    tray,      \* items as a device has seen them; they stay after a delete
    sender,
    reader,
    sweep,     \* a cron whose prune was answered: see NoSweep
    caught,    \* history: files that lost a part while their row was there
    sent,      \* history: what the file of an item was
    faults

sweepVars == <<sweep, caught>>
fileVars == <<time, objects, rows, items, tray, sender, reader, sweepVars, sent, faults>>

With(f, k, v) == [x \in DOMAIN f \cup {k} |-> IF x = k THEN v ELSE f[x]]
Over(f, g) == [x \in DOMAIN f \cup DOMAIN g |-> IF x \in DOMAIN f THEN f[x] ELSE g[x]]

TrailerIndex == MaxChunks + 1   \* 0xffffffff: no chunk has it

----------------------------------------------------------------------------
(* Cryptography and compression.                                           *)

Aad(item, kind) == <<item, kind>>

\* encryptWithIv, decryptWithIv
SealedWith(key, plain, iv, aad) == [key |-> key, iv |-> iv, aad |-> aad, plain |-> plain]
Opened(key, sealed, iv, aad) ==
    IF sealed = SealedWith(key, sealed.plain, iv, aad) THEN sealed.plain ELSE Nothing

\* encrypt and decrypt: the iv is random and travels with the bytes.
SealedMeta(key, meta, item, kind) ==
    SealedWith(key, meta, <<"random", item>>, Aad(item, kind))
OpenedMeta(key, sealed, item, kind) == Opened(key, sealed, sealed.iv, Aad(item, kind))

\* wrapFileKey and unwrapFileKey
Wrapped(by, key) == [by |-> by, key |-> key]
Unwrapped(by, wrapped) == IF wrapped.by = by THEN wrapped.key ELSE Nothing

ChunkIv(base, index) == <<base, index>>

Split(bytes) ==
    [i \in 1 .. (Len(bytes) + ChunkSize - 1) \div ChunkSize |->
        SubSeq(bytes, (i - 1) * ChunkSize + 1,
               IF i * ChunkSize < Len(bytes) THEN i * ChunkSize ELSE Len(bytes))]

\* encryptChunks: the chunks and, last, the trailer, which tells their count.
SealedParts(key, bytes, base, aad) ==
    LET parts == Split(bytes)
    IN  Append([i \in 1 .. Len(parts) |->
                   SealedWith(key, parts[i], ChunkIv(base, i - 1), aad)],
               SealedWith(key, <<Len(parts)>>, ChunkIv(base, TrailerIndex), aad))

\* Mutant of OpenedParts: the chunks that came are joined.
OpenedUncounted(key, chunks, trailer, base, aad) ==
    LET parts == [i \in DOMAIN chunks |-> Opened(key, chunks[i], ChunkIv(base, i - 1), aad)]
    IN  IF \/ Opened(key, trailer, ChunkIv(base, TrailerIndex), aad) = Nothing
           \/ \E i \in DOMAIN parts : parts[i] = Nothing
        THEN Nothing
        ELSE FlattenSeq(parts)

\* decryptChunks
OpenedParts(key, chunks, trailer, base, aad) ==
    LET parts == [i \in DOMAIN chunks |-> Opened(key, chunks[i], ChunkIv(base, i - 1), aad)]
    IN  IF \/ Opened(key, trailer, ChunkIv(base, TrailerIndex), aad) # <<Len(chunks)>>
           \/ \E i \in DOMAIN parts : parts[i] = Nothing
        THEN Nothing
        ELSE FlattenSeq(parts)

\* gzip: a run of one byte gets shorter, anything else longer; a stream that is
\* cut short does not unpack.
Gzip(bytes) ==
    IF \A i \in DOMAIN bytes : bytes[i] = bytes[1] THEN <<"run", bytes[1], Len(bytes)>>
    ELSE <<"raw">> \o bytes
Gunzip(bytes) ==
    IF Len(bytes) = 3 THEN [i \in 1 .. bytes[3] |-> bytes[2]] ELSE Nothing

\* compressBlobPlaintext and decompressBlobPlaintext
Packed(bytes) ==
    IF Len(bytes) < MinCompress \/ Len(Gzip(bytes)) >= Len(bytes)
    THEN [bytes |-> bytes, compression |-> "none"]
    ELSE [bytes |-> Gzip(bytes), compression |-> "gzip"]
Unpacked(bytes, compression) ==
    IF bytes # Nothing /\ compression = "gzip" THEN Gunzip(bytes) ELSE bytes

\* A tag is one byte here.
CipherBytes(part) == Len(part.plain) + 1
ChunkMax == ChunkSize + 1
SizeOf(parts) == FoldLeft(LAMBDA n, p : n + CipherBytes(p), 0, parts)

----------------------------------------------------------------------------
(* Tickets and the edge.                                                   *)

NoToken == [purpose |-> "none"]

\* mintCapabilityToken and openCapabilityToken: the web app signs, and the edge
\* opens what bears that signature and is not over.
Minted(by, token) == [token |-> token, signature |-> <<by, token>>]
OpenedToken(by, ticket) ==
    IF ticket.signature = <<by, ticket.token>> /\ ticket.token.exp > time
    THEN ticket.token ELSE NoToken

NoTicket == [signature |-> <<>>]

\* uploadTicket of the owner: a ticket for the blob in that state, or none.
Ticket(blob, purpose) ==
    LET state == IF purpose = "download" THEN "committed" ELSE "pending"
    IN  IF blob \notin DOMAIN rows THEN NoTicket
        ELSE IF rows[blob].state # state THEN NoTicket
        ELSE Minted("web", [purpose |-> purpose, key |-> blob, maxBytes |-> rows[blob].size,
                            exp |-> time + TicketLife])

\* requireCapability
Admitted(ticket, purpose) ==
    LET token == OpenedToken("web", ticket)
    IN  IF token.purpose = purpose THEN token ELSE NoToken
Admits(ticket, purpose) == Admitted(ticket, purpose) # NoToken

IsChunkName(name) == name = Trailer \/ name \in 0 .. MaxChunks - 1

\* The edge's answer to a PUT: whether the part goes into the bucket.
Takes(ticket, name, part) ==
    /\ Admits(ticket, "upload")
    /\ CipherBytes(part) <= Admitted(ticket, "upload").maxBytes
    /\ CipherBytes(part) <= ChunkMax
    /\ IsChunkName(name)

\* The edge's answer to a stat: the bytes of the objects under the key.
Stat(blob) ==
    FoldSet(LAMBDA key, n : n + CipherBytes(objects[key]), 0,
            {key \in DOMAIN objects : key[1] = blob})

\* The edge's answer to a GET.
Download(ticket, name) ==
    LET at == <<ticket.token.key, name>>
    IN  IF Admits(ticket, "download") /\ IsChunkName(name) /\ at \in DOMAIN objects
        THEN objects[at] ELSE Nothing

----------------------------------------------------------------------------
(* sendBlobFile.                                                           *)

Away == [at |-> "away"]
Step(who, ticket) == [who EXCEPT !.ticket = ticket]
Asked(who) == who.ticket # NoTicket

\* The server's uploadIntent takes the upload; the parts are already sealed.
SendFile(item, bytes, kind) ==
    LET packed == Packed(bytes)
        key == <<"fileKey", item>>
        base == <<"baseIv", item>>
        parts == SealedParts(key, packed.bytes, base, Aad(item, kind))
        meta == [size |-> Len(bytes), compression |-> packed.compression, baseIv |-> base]
    IN  /\ sender.at = "away"
        /\ item \notin DOMAIN sent
        /\ bytes # <<>> /\ Len(bytes) <= FileMax
        /\ rows' = With(rows, item,
               [state |-> "pending", created |-> time,
                size |-> SizeOf(parts)])
        /\ sender' = [at |-> "putting", item |-> item, blob |-> item,
                      parts |-> parts, next |-> 1, ticket |-> NoTicket,
                      row |-> [kind |-> kind, blob |-> item,
                               meta |-> SealedMeta("vault", meta, item, kind),
                               wrapped |-> Wrapped("vault", key)]]
        /\ sent' = With(sent, item, bytes)
        /\ UNCHANGED <<time, objects, items, tray, reader, faults, sweepVars>>

NameOf(who) == IF who.next = Len(who.parts) THEN Trailer ELSE who.next - 1

\* putChunk asks for a ticket; without one the upload ends.
PutTicket ==
    LET ticket == Ticket(sender.blob, "upload")
    IN  /\ sender.at = "putting" /\ ~Asked(sender) /\ sender.next <= Len(sender.parts)
        /\ sender' = IF ticket = NoTicket THEN Away ELSE Step(sender, ticket)
        /\ UNCHANGED <<time, objects, rows, items, tray, reader, sent, faults, sweepVars>>

\* putChunk puts the part; an answer that is not ok ends the upload.
PutPart ==
    LET part == sender.parts[sender.next]
        taken == Takes(sender.ticket, NameOf(sender), part)
    IN  /\ sender.at = "putting" /\ Asked(sender)
        /\ objects' = IF taken THEN With(objects, <<sender.blob, NameOf(sender)>>, part)
                      ELSE objects
        /\ sender' = IF taken THEN [Step(sender, NoTicket) EXCEPT !.next = @ + 1] ELSE Away
        /\ UNCHANGED <<time, rows, items, tray, reader, sent, faults, sweepVars>>

\* commitUpload, once every part is put: the server asks for the bytes stored
\* and inserts the item.
Commit ==
    LET blob == sender.blob
        bytes == Stat(blob)
    IN  /\ sender.at = "putting" /\ sender.next > Len(sender.parts)
        /\ IF /\ Ticket(blob, "stat") # NoTicket
              /\ bytes > 0 /\ bytes <= rows[blob].size
           THEN /\ rows' = [rows EXCEPT ![blob].state = "committed"]
                /\ items' = With(items, sender.item, sender.row)
           ELSE UNCHANGED <<rows, items>>
        /\ sender' = Away
        /\ UNCHANGED <<time, objects, tray, reader, sent, faults, sweepVars>>

----------------------------------------------------------------------------
(* openBlobPreview.                                                        *)

\* A device lists the items.
See ==
    /\ tray' = Over(items, tray)
    /\ tray' # tray
    /\ UNCHANGED <<time, objects, rows, items, sender, reader, sent, faults, sweepVars>>

NotReading == [at |-> "idle"]
Ended(shown) == [at |-> "ended", item |-> reader.item, shown |-> shown, hurt |-> reader.hurt]

\* The meta and the file's key are opened with the vault's key.
Open(item) ==
    LET row == tray[item]
        meta == OpenedMeta("vault", row.meta, item, row.kind)
        key == Unwrapped("vault", row.wrapped)
    IN  /\ reader.at = "idle"
        /\ reader' =
               IF meta = Nothing \/ key = Nothing
               THEN [at |-> "ended", item |-> item, shown |-> Nothing, hurt |-> FALSE]
               ELSE [at |-> "getting", item |-> item, row |-> row, meta |-> meta, key |-> key,
                     next |-> 0, chunks |-> <<>>, ticket |-> NoTicket, hurt |-> FALSE]
        /\ UNCHANGED <<time, objects, rows, items, tray, sender, sent, faults, sweepVars>>

\* What the reader makes of an answer: a part that does not come is taken for
\* the end of the chunks; then the trailer is asked for.
After(body) ==
    IF reader.next # Trailer
    THEN [Step(reader, NoTicket) EXCEPT
              !.chunks = IF body = Nothing THEN @ ELSE Append(@, body),
              !.next = IF body = Nothing \/ @ + 1 = MaxChunks THEN Trailer ELSE @ + 1]
    ELSE IF body = Nothing THEN Ended(Nothing)
    ELSE Ended(Unpacked(OpenedParts(reader.key, reader.chunks, body, reader.meta.baseIv,
                                    Aad(reader.item, reader.row.kind)),
                        reader.meta.compression))

\* The file is not there to be read: its row is gone, or parts of it are.
Gone(blob) == blob \notin DOMAIN rows
Missing(blob) == Gone(blob) \/ blob \in caught
Marked(hurt, next) == [next EXCEPT !.hurt = @ \/ hurt]

\* getChunk asks for a ticket.
GetTicket ==
    LET ticket == Ticket(reader.row.blob, "download")
    IN  /\ reader.at = "getting" /\ ~Asked(reader)
        /\ reader' = Marked(Missing(reader.row.blob),
                            IF ticket = NoTicket THEN After(Nothing) ELSE Step(reader, ticket))
        /\ UNCHANGED <<time, objects, rows, items, tray, sender, sent, faults, sweepVars>>

\* getChunk asks the edge.
Get ==
    /\ reader.at = "getting" /\ Asked(reader)
    /\ reader' = Marked(Missing(reader.row.blob) \/ ~Admits(reader.ticket, "download"),
                        After(Download(reader.ticket, reader.next)))
    /\ UNCHANGED <<time, objects, rows, items, tray, sender, sent, faults, sweepVars>>

Close ==
    /\ reader.at = "ended"
    /\ reader' = NotReading
    /\ UNCHANGED <<time, objects, rows, items, tray, sender, sent, faults, sweepVars>>

----------------------------------------------------------------------------
(* What goes on beside them.                                               *)

\* A request of the sender fails: a part may be in the bucket all the same.
SendFails ==
    LET part == sender.parts[sender.next]
        name == NameOf(sender)
    IN  /\ faults < MaxFaults /\ faults' = faults + 1
        /\ sender.at = "putting" /\ sender.next <= Len(sender.parts)
        /\ \/ UNCHANGED objects
           \/ /\ Asked(sender)
              /\ Takes(sender.ticket, name, part)
              /\ objects' = With(objects, <<sender.blob, name>>, part)
        /\ sender' = Away
        /\ UNCHANGED <<time, rows, items, tray, reader, sent, sweepVars>>

\* A request of the reader fails.
GetFails ==
    /\ faults < MaxFaults /\ faults' = faults + 1
    /\ reader.at = "getting"
    /\ reader' = Marked(TRUE, After(Nothing))
    /\ UNCHANGED <<time, objects, rows, items, tray, sender, sent, sweepVars>>

\* The item is deleted; the device that reads still shows it.
DeleteItem(item) ==
    /\ items' = [x \in DOMAIN items \ {item} |-> items[x]]
    /\ UNCHANGED <<time, objects, rows, tray, sender, reader, sent, faults, sweepVars>>

\* keep: keepR2Keys, the files that had a row when the prune was over; todo: what
\* was listed and has none of them for its file.
NoSweep == [on |-> FALSE, keep |-> {}, todo |-> {}]

\* prune: uploads that were not committed in time, and files of no item.  The
\* cron sweeps by its answer.
Prune ==
    LET dead == {b \in DOMAIN rows :
                    IF rows[b].state = "pending" THEN rows[b].created < time
                    ELSE \A x \in DOMAIN items : items[x].blob # b}
    IN  /\ ~sweep.on
        /\ rows' = [b \in DOMAIN rows \ dead |-> rows[b]]
        /\ sweep' = [on |-> TRUE, keep |-> DOMAIN rows \ dead, todo |-> {}]
        /\ UNCHANGED <<time, objects, items, tray, sender, reader, caught, sent, faults>>

\* sweepOrphans lists the bucket, page by page ...
SweepList ==
    LET orphans == {key \in DOMAIN objects : key[1] \notin sweep.keep}
    IN  /\ sweep.on /\ sweep.todo = {} /\ orphans # {}
        /\ sweep' = [sweep EXCEPT !.todo = orphans]
        /\ UNCHANGED <<time, objects, rows, items, tray, sender, reader, caught, sent, faults>>

\* ... and deletes what it listed, one after another, whatever rows there are by
\* then.
SweepDelete ==
    \E key \in sweep.todo :
        /\ objects' = [k \in DOMAIN objects \ {key} |-> objects[k]]
        /\ sweep' = [sweep EXCEPT !.todo = @ \ {key}]
        /\ caught' = IF Gone(key[1]) THEN caught ELSE caught \cup {key[1]}
        /\ UNCHANGED <<time, rows, items, tray, sender, reader, sent, faults>>

\* The cron is over, or dies.
SweepEnds ==
    /\ sweep.on /\ sweep' = NoSweep
    /\ UNCHANGED <<time, objects, rows, items, tray, sender, reader, caught, sent, faults>>

TimePasses ==
    /\ time < MaxTicks
    /\ time' = time + 1
    /\ UNCHANGED <<objects, rows, items, tray, sender, reader, sent, faults, sweepVars>>

FileInit ==
    /\ time = 0 /\ faults = 0
    /\ objects = <<>> /\ rows = <<>> /\ items = <<>> /\ tray = <<>> /\ sent = <<>>
    /\ sender = Away /\ reader = NotReading /\ sweep = NoSweep /\ caught = {}

FileNext ==
    \/ \E x \in FileIds, bytes \in Contents, kind \in {"image", "file"} :
           SendFile(x, bytes, kind)
    \/ PutTicket \/ PutPart \/ Commit \/ SendFails
    \/ See \/ (\E x \in DOMAIN tray : Open(x)) \/ GetTicket \/ Get \/ GetFails \/ Close
    \/ (\E x \in DOMAIN items : DeleteItem(x)) \/ TimePasses
    \/ Prune \/ SweepList \/ SweepDelete \/ SweepEnds

FileSpec == FileInit /\ [][FileNext]_fileVars

----------------------------------------------------------------------------

Names == (0 .. MaxChunks - 1) \cup {Trailer}

FilesOK ==
    /\ time \in 0 .. MaxTicks /\ faults \in 0 .. MaxFaults
    /\ DOMAIN objects \subseteq FileIds \X Names
    /\ \A b \in DOMAIN rows :
           b \in FileIds /\ rows[b].state \in {"pending", "committed"} /\ rows[b].size > 1
    /\ DOMAIN items \subseteq DOMAIN sent /\ DOMAIN tray \subseteq DOMAIN sent
    /\ \A x \in DOMAIN items : items[x].blob \in DOMAIN rows
    /\ sender.at \in {"away", "putting"} /\ reader.at \in {"idle", "getting", "ended"}
    /\ reader.at = "getting" => Len(reader.chunks) <= MaxChunks
    /\ sweep.todo \subseteq DOMAIN objects /\ (~sweep.on => sweep = NoSweep)

\* What opens is the whole file that was sent.  It opens unless its row is gone,
\* a request failed, a ticket ran out or a sweep took a part of it: a sweep knows
\* the rows of its prune only, and takes the parts of a file that was uploaded
\* since, which is then committed all the same.  Even so it opens whole or not at
\* all.  The reader takes a part that does not come for the end of the chunks; a
\* part that was swept, refused or lost never leaves a file that ends early.
FileOpensWhole ==
    reader.at = "ended" =>
        \/ reader.shown = sent[reader.item]
        \/ reader.hurt /\ reader.shown = Nothing

=============================================================================

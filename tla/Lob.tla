--------------------------------- MODULE Lob ---------------------------------
(***************************************************************************)
(* The content of one LOB on its way to the server and back (lob.go): the  *)
(* LARGE_OBJECT_OP frames that send writes for a parameter, and fetchLob,   *)
(* which asks for the length and then for blocks.                          *)
(*                                                                         *)
(* A CLOB is text: a rune "b" takes one UTF-16 code unit, a rune "s" two,  *)
(* "hi" and "lo".  A BLOB is made of bytes, written "b".  Frames, blocks,  *)
(* offsets and lengths count units (bytes).  The other LOB parameters of   *)
(* the request come before and after this one in the same transmission.    *)
(***************************************************************************)
EXTENDS Integers, SequencesExt

CONSTANTS MaxChunk,   \* maxLobChunk, in units
          MaxRunes,   \* bound on the content
          CloseUnits  \* bytes of a DISCONNECT request

ASSUME LobBounds ==
  MaxChunk \in Nat /\ MaxChunk >= 2 /\ MaxRunes \in Nat /\ CloseUnits \in Nat

VARIABLES
  form, source,               \* the parameter: CLOB or BLOB, in memory or a
                              \* reader, its declared length; its content
  pc,                         \* "write", "end", "stored", "get", "decode",
                              \* "fetched"; with conn.broken set: "failed",
                              \* "dangling" and, after Close, "closed"
  taken, off, firstFrame, frames, \* of the writer: runes read, offset, no frame
                              \* yet, frames of this transmission
  store,                      \* the server's LOB
  length, pos, got, result,   \* of fetchLob: the answer to GET_LENGTH, the
                              \* offset, the units received, the value
  cut, changed                \* what cut an answer off inside its header:
                              \* "none", the socket is "lost", an immediate
                              \* "deadline"; another session shortened the LOB

param  == <<form, source>>
writer == <<taken, off, firstFrame, frames>>
fetch  == <<length, pos, got, result>>
lobVars == <<form, source, pc, taken, off, firstFrame, frames, store,
             length, pos, got, result, cut, changed>>

unitsOf(rune) == IF rune = "s" THEN <<"hi", "lo">> ELSE <<"b">>

(* utf16.Encode *)
encode(text) == FlattenSeq([i \in DOMAIN text |-> unitsOf(text[i])])

(* utf16.Decode: half a pair on its own becomes the replacement character. *)
decode(units) ==
  LET n == Len(units)
      d[i \in 1 .. n + 2] ==
        IF i > n THEN <<>>
        ELSE IF units[i] = "b" THEN <<"b">> \o d[i + 1]
        ELSE IF units[i] = "hi" /\ i < n /\ units[i + 1] = "lo"
               THEN <<"s">> \o d[i + 2]
        ELSE <<"?">> \o d[i + 1]
  IN  d[1]

Texts(runes) == UNION {[1 .. n -> runes] : n \in 0 .. MaxRunes}

LobInit ==
  /\ form \in [clob : BOOLEAN, reader : BOOLEAN, length : -1 .. MaxRunes]
  /\ form.reader \/ form.length = -1
  /\ source \in Texts(IF form.clob THEN {"b", "s"} ELSE {"b"})
  /\ pc = "write"
  /\ taken = 0 /\ off = 0 /\ firstFrame = TRUE /\ frames = <<>>
  /\ store = <<>>
  /\ length = 0 /\ pos = 0 /\ got = <<>> /\ result = <<>>
  /\ cut = "none" /\ changed = FALSE

-----------------------------------------------------------------------------
(***************************************************************************)
(* writeLobCreate.                                                         *)
(***************************************************************************)
frame(op, at, data) == [op |-> op, off |-> at, data |-> data]

(* A value in memory, and a BLOB reader of declared length that has that   *)
(* many bytes: one CREATE frame.                                           *)
WriteWhole ==
  /\ pc = "write"
  /\ \/ ~form.reader /\ frames' = <<frame("create", 0, encode(source))>>
     \/ /\ form.reader /\ ~form.clob /\ form.length \in 0 .. Len(source)
        /\ frames' = <<frame("create", 0, SubSeq(encode(source), 1, form.length))>>
  /\ pc' = "end"
  /\ UNCHANGED <<param, taken, off, firstFrame, store, fetch, cut, changed>>

Segmented == form.reader /\ (form.clob \/ form.length < 0)

Rest(n) == SubSeq(source, taken + 1, taken + n)

\* Variant: a chunk is as many runes as fit a chunk of units.
chunksByRunes ==
  LET left == Len(source) - taken
  IN  {IF left < MaxChunk THEN left ELSE MaxChunk}

(* How many runes the next chunk may take: a reader of bytes returns some, *)
(* readUTF16Chunk takes all that fit without splitting a pair.             *)
chunks ==
  LET fits == {n \in 0 .. Len(source) - taken : Len(encode(Rest(n))) <= MaxChunk}
  IN  IF form.clob THEN {Max(fits)} ELSE fits \ {0}

\* Variant: the offset counts runes.
writeChunkRuneOffset(n) ==
  LET data == encode(Rest(n)) IN
  /\ frames' = Append(frames, frame(IF firstFrame THEN "create" ELSE "set", off, data))
  /\ firstFrame' = FALSE
  /\ taken' = taken + n /\ off' = off + n

\* Variant: every frame of a reader is a CREATE.
writeChunkFirstKept(n) ==
  LET data == encode(Rest(n)) IN
  /\ frames' = Append(frames, frame(IF firstFrame THEN "create" ELSE "set", off, data))
  /\ firstFrame' = firstFrame
  /\ taken' = taken + n /\ off' = off + Len(data)

(* One chunk of a reader becomes one frame, the first a CREATE. *)
writeChunk(n) ==
  LET data == encode(Rest(n)) IN
  /\ frames' = Append(frames, frame(IF firstFrame THEN "create" ELSE "set", off, data))
  /\ firstFrame' = FALSE
  /\ taken' = taken + n /\ off' = off + Len(data)

WriteChunk ==
  /\ pc = "write" /\ Segmented /\ taken < Len(source)
  /\ \E n \in chunks : writeChunk(n)
  /\ UNCHANGED <<param, pc, store, fetch, cut, changed>>

(* The reader is at EOF; an empty one still creates the LOB. *)
WriteEOF ==
  /\ pc = "write" /\ Segmented /\ taken = Len(source)
  /\ frames' = IF firstFrame THEN <<frame("create", 0, <<>>)>> ELSE frames
  /\ pc' = "end"
  /\ UNCHANGED <<param, taken, off, firstFrame, store, fetch, cut, changed>>

(* The socket fails, and with it every later write of c.bw.                *)
SocketFails ==
  /\ pc \in {"write", "end"}
  /\ pc' = "failed"
  /\ UNCHANGED <<param, writer, store, fetch, cut, changed>>

(* A reader fails, or ends before its declared length: this parameter's,   *)
(* or that of one before or after it.  send breaks the connection; what it *)
(* wrote, perhaps part of a frame of declared length, stays in c.bw.       *)
ReaderFails ==
  /\ pc \in {"write", "end"}
  /\ \/ UNCHANGED frames
     \/ /\ pc = "write" /\ form.reader /\ ~Segmented
        /\ \E n \in 0 .. Len(source) :
             n < form.length /\ frames' = <<frame("create", 0, SubSeq(encode(source), 1, n))>>
  /\ pc' = "dangling"
  /\ UNCHANGED <<param, taken, off, firstFrame, store, fetch, cut, changed>>

(* What the server (external) makes of one frame: CREATE starts the LOB,   *)
(* SET writes at its offset.                                               *)
applyFrame(lob, f) ==
  IF f.op = "create" THEN f.data
  ELSE LET size == IF f.off + Len(f.data) > Len(lob) THEN f.off + Len(f.data)
                   ELSE Len(lob)
       IN  [i \in 1 .. size |->
              IF i \in f.off + 1 .. f.off + Len(f.data) THEN f.data[i - f.off]
              ELSE IF i <= Len(lob) THEN lob[i] ELSE "gap"]

(* The LOB that a sequence of frames leaves on the server. *)
stored(fs) ==
  LET lob[k \in 0 .. Len(fs)] == IF k = 0 THEN <<>> ELSE applyFrame(lob[k - 1], fs[k])
  IN  lob[Len(fs)]

(* The terminator is flushed, and the server executes the transmission. *)
Transmit ==
  /\ pc = "end"
  /\ store' = stored(frames)
  /\ pc' = "stored"
  /\ UNCHANGED <<param, writer, fetch, cut, changed>>

(* Bytes that a frame of declared length still lacks. *)
missing == IF form.reader /\ ~Segmented /\ frames # <<>>
             THEN form.length - Len(frames[1].data) ELSE 0

Filled == frame("create", 0, frames[1].data \o [i \in 1 .. missing |-> "d"])

(* conn.Close writes DISCONNECT and the NONE terminator behind what is in  *)
(* c.bw: the transmission is complete after all, and the server may        *)
(* execute it.  A frame that lacks bytes takes them from DISCONNECT ("d"). *)
CloseDangling ==
  /\ pc = "dangling"
  /\ \/ UNCHANGED store
     \/ missing = 0 /\ store' = stored(frames)
     \/ missing \in 1 .. CloseUnits /\ store' = stored(<<Filled>>)
  /\ pc' = "closed"
  /\ UNCHANGED <<param, writer, fetch, cut, changed>>

-----------------------------------------------------------------------------
(***************************************************************************)
(* fetchLob.  A failed lobExchange breaks the connection.  readLobResponse *)
(* reads integers with readI32 and readI64, which drop the error: when the *)
(* socket is lost inside the header of an answer, or a watcher that stop   *)
(* did not wait for puts an immediate deadline on it, what is missing      *)
(* reads as 0, and no later answer is read.  After a deadline the rest of  *)
(* the answer stays on the wire of a connection that is not broken.        *)
(***************************************************************************)
FetchLength ==
  /\ pc = "stored"
  /\ length' = Len(store) /\ pc' = "get"
  /\ UNCHANGED <<param, writer, store, pos, got, result, cut, changed>>

(* The answer is cut off before or inside the length, whose low bytes then *)
(* are 0.                                                                  *)
FetchLengthCut ==
  /\ pc = "stored"
  /\ length' \in 0 .. Len(store)
  /\ cut' \in {"lost", "deadline"} /\ pc' = "get"
  /\ UNCHANGED <<param, writer, store, pos, got, result, changed>>

chunkLength == IF length - pos > MaxChunk THEN MaxChunk ELSE length - pos

\* Variant: the loop ends with the first block that is not full.
fetchedBlockShortEnds(block) ==
  /\ got' = got \o block
  /\ pos' = pos + Len(block)
  /\ pc' = IF Len(block) < chunkLength THEN "decode" ELSE pc

(* A block arrives: it is appended, and an empty one ends the loop. *)
fetchedBlock(block) ==
  /\ got' = got \o block
  /\ pos' = pos + Len(block)
  /\ pc' = IF block = <<>> THEN "decode" ELSE pc

(* The blocks the server (external) may answer with: some of the units     *)
(* asked for, none only past the end.                                      *)
Answers ==
  LET end == IF pos + chunkLength > Len(store) THEN Len(store) ELSE pos + chunkLength
  IN  IF end <= pos THEN {<<>>} ELSE {SubSeq(store, pos + 1, e) : e \in pos + 1 .. end}

FetchBlock ==
  /\ pc = "get" /\ pos < length /\ cut = "none"
  /\ \E block \in Answers : fetchedBlock(block)
  /\ UNCHANGED <<param, writer, store, length, result, cut, changed>>

(* The answer is cut off before its block length. *)
FetchBlockCut ==
  /\ pc = "get" /\ pos < length /\ cut = "none"
  /\ fetchedBlock(<<>>)
  /\ cut' \in {"lost", "deadline"}
  /\ UNCHANGED <<param, writer, store, length, result, changed>>

(* The server answers ERROR, the socket fails elsewhere, or the frame is   *)
(* not understood.                                                         *)
FetchFails ==
  /\ pc = "stored" \/ (pc = "get" /\ pos < length)
  /\ pc' = "failed"
  /\ UNCHANGED <<param, writer, store, fetch, cut, changed>>

FetchReturns ==
  /\ pc = "decode" \/ (pc = "get" /\ pos >= length)
  /\ result' = IF form.clob THEN decode(got) ELSE got
  /\ pc' = "fetched"
  /\ UNCHANGED <<param, writer, store, length, pos, got, cut, changed>>

(* Another session shortens the LOB while it is being fetched. *)
Shorten ==
  /\ pc = "get" /\ ~changed
  /\ \E n \in 0 .. Len(store) - 1 : store' = SubSeq(store, 1, n)
  /\ changed' = TRUE
  /\ UNCHANGED <<param, pc, writer, fetch, cut>>

LobNext ==
  \/ WriteWhole \/ WriteChunk \/ WriteEOF \/ SocketFails \/ ReaderFails
  \/ Transmit \/ CloseDangling
  \/ FetchLength \/ FetchLengthCut \/ FetchBlock \/ FetchBlockCut \/ FetchFails
  \/ FetchReturns \/ Shorten

LobSpec == LobInit /\ [][LobNext]_lobVars

-----------------------------------------------------------------------------
(***************************************************************************)
(* Properties.                                                             *)
(***************************************************************************)
Units == {"b", "hi", "lo"}

(* Every variable stays in its type; neither the writer nor fetchLob runs  *)
(* past the end of its input.                                              *)
LobTypeOK ==
  /\ pc \in {"write", "end", "stored", "get", "decode", "fetched", "failed", "dangling", "closed"}
  /\ taken \in 0 .. Len(source) /\ off \in 0 .. Len(encode(source))
  /\ firstFrame \in BOOLEAN /\ (firstFrame <=> taken = 0)
  /\ \A i \in DOMAIN frames :
       frames[i] \in [op : {"create", "set"}, off : Nat, data : Seq(Units)]
  /\ store \in Seq(Units \cup {"d"}) /\ got \in Seq(Units)
  /\ length \in Nat /\ pos \in 0 .. length
  /\ result \in Seq({"b", "s", "?"})
  /\ cut \in {"none", "lost", "deadline"} /\ changed \in BOOLEAN

(* What the parameter stands for: a BLOB reader of declared length is read *)
(* up to that length.                                                      *)
Content == IF form.reader /\ ~form.clob /\ form.length \in 0 .. Len(source)
             THEN SubSeq(source, 1, form.length) ELSE source

(* What may be stored although send failed: the content up to the end of a *)
(* frame, or of the declared length with bytes of DISCONNECT at its end.   *)
Truncated == \E n \in 0 .. Len(source) : store = encode(SubSeq(source, 1, n))
FilledUp  == /\ form.reader /\ ~Segmented /\ Len(store) = form.length
             /\ \E n \in 0 .. Len(source) :
                  /\ form.length - n \in 1 .. CloseUnits
                  /\ store = SubSeq(encode(source), 1, n) \o [i \in 1 .. form.length - n |-> "d"]

(* The LOB the server stores is the caller's content, however the reader   *)
(* delivers it and however it is cut into frames.  After a failed reader,  *)
(* of which the caller was told, conn.Close may have the server execute    *)
(* the request all the same: then the LOB is a prefix of the content that  *)
(* splits no character, but for the bytes of DISCONNECT that may fill up a *)
(* declared length.                                                        *)
StoredIsSent ==
  /\ pc \in {"stored", "get", "decode", "fetched"} /\ ~changed
       => store = encode(Content)
  /\ pc = "closed" => Truncated \/ FilledUp

(* Every frame of a streamed LOB stays within maxLobChunk, and a frame of  *)
(* a CLOB never holds half a surrogate pair.                               *)
FramesAreText ==
  \A i \in DOMAIN frames :
     /\ Segmented => Len(frames[i].data) <= MaxChunk
     /\ form.clob => ~Contains(decode(frames[i].data), "?")

(* What fetchLob has received is always a prefix of the content, with no   *)
(* gap and nothing repeated, also when the LOB shrinks meanwhile, when the *)
(* server sends short blocks, or when an answer is cut off; and what it    *)
(* returns is the whole content, pairs that were split between two blocks  *)
(* included, unless the LOB was shortened or the socket was lost, or its   *)
(* deadline passed, inside a header, which readI32 and readI64 do not      *)
(* notice.                                                                 *)
FetchIsFaithful ==
  /\ IsPrefix(got, encode(Content))
  /\ pc = "fetched" /\ cut = "none" /\ ~changed => result = Content
=============================================================================

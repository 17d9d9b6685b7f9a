------------------------------ MODULE ReplyBuf ------------------------------
(***************************************************************************)
(* The output of a client (vr_client.c): a static buffer, then a list of   *)
(* nodes the replies are appended to, lengths that are filled in after     *)
(* what they count, and a socket that takes as many bytes as it likes.     *)
(* The bytes replied are numbered from 1 as the commands add them; next is *)
(* the number of the next one and sent how many the peer has.  A node has  *)
(* the bytes ptr, null while its length is not known yet, whether it is a  *)
(* shared constant, whether it is RAW, and the memory it is counted for.   *)
(***************************************************************************)
EXTENDS Integers, SequencesExt

CONSTANTS
    PROTO_REPLY_CHUNK_BYTES,  \* 16 KB, scaled down: of the buffer, and of a node appended to
    OBJ_ENCODING_EMBSTR_SIZE_LIMIT,
    Lengths,                  \* how many bytes one call adds
    HeaderLen,                \* of a filled-in multi bulk length
    MaxOpen,                  \* bound on the lengths open at once
    MaxBytes, MaxNodes        \* bounds on the bytes added and on the nodes waiting

VARIABLES c, next, sent

Bytes(from, n) == [i \in 1 .. n |-> from + i - 1]
SubSeqFrom(s, n) == SubSeq(s, n + 1, Len(s))
Fill(nodes) == FlattenSeq([i \in DOMAIN nodes |-> nodes[i].ptr])

\* Memory of a string object: as created, and as left by an append.
NewMemory(raw, n) == IF raw THEN n + 1 ELSE n + 2
GrownMemory(n) == 2 * n + 1
Node(t, constant, raw) ==
    [ptr |-> t, null |-> FALSE, constant |-> constant, raw |-> raw, mem |-> NewMemory(raw, Len(t))]

\* The object behind a reply: a shared one, one of the keyspace or a temporary
\* one of either encoding, an sds, or a C string; integers are formatted first.
Objects == {"shared", "raw", "embstr"}
Kinds == Objects \union {"sds", "string"}

\* Mutant: the room in the static buffer is used although the list is in use.
InBufferAnyway(x, t) == Len(t) <= PROTO_REPLY_CHUNK_BYTES - Len(x.buf)

\* _addReplyToBuffer takes it.
InBuffer(x, t) == x.reply = <<>> /\ Len(t) <= PROTO_REPLY_CHUNK_BYTES - Len(x.buf)

_addReplyToBuffer(x, t) == [x EXCEPT !.buf = @ \o t]

Appendable(x, t) ==
    /\ x.reply # <<>>
    /\ LET tail == Last(x.reply) IN
        ~tail.null /\ tail.raw /\ Len(tail.ptr) + Len(t) <= PROTO_REPLY_CHUNK_BYTES

\* A shared node is copied before it is appended to.
dupLastObjectIfNeeded(x) == [Last(x.reply) EXCEPT !.constant = FALSE]

\* Append to the last node when possible, or add the node.
ToList(x, node) ==
    LET tail == Last(x.reply)
        longer == [dupLastObjectIfNeeded(x) EXCEPT !.ptr = @ \o node.ptr,
                                                   !.mem = GrownMemory(Len(tail.ptr \o node.ptr))]
    IN  IF Appendable(x, node.ptr)
        THEN [x EXCEPT !.reply[Len(x.reply)] = longer, !.reply_bytes = @ - tail.mem + longer.mem]
        ELSE [x EXCEPT !.reply = Append(@, node), !.reply_bytes = @ + node.mem]
_addReplyObjectToList(x, kind, t) == ToList(x, Node(t, kind = "shared", kind # "embstr"))
_addReplySdsToList(x, t) == ToList(x, Node(t, FALSE, TRUE))
_addReplyStringToList(x, t) == ToList(x, Node(t, FALSE, Len(t) > OBJ_ENCODING_EMBSTR_SIZE_LIMIT))

addReply(x, kind, t) ==
    IF InBuffer(x, t) THEN _addReplyToBuffer(x, t) ELSE _addReplyObjectToList(x, kind, t)
addReplySds(x, t) == IF InBuffer(x, t) THEN _addReplyToBuffer(x, t) ELSE _addReplySdsToList(x, t)
addReplyString(x, t) == IF InBuffer(x, t) THEN _addReplyToBuffer(x, t) ELSE _addReplyStringToList(x, t)
Added(x, kind, t) ==
    CASE kind \in Objects -> addReply(x, kind, t)
      [] kind = "sds" -> addReplySds(x, t)
      [] kind = "string" -> addReplyString(x, t)

clientHasPendingReplies(x) == x.buf # <<>> \/ x.reply # <<>>

-----------------------------------------------------------------------------
Init == /\ c = [buf |-> <<>>, reply |-> <<>>, sentlen |-> 0, reply_bytes |-> 0,
                open |-> <<>>, closing |-> FALSE, freed |-> FALSE]
        /\ next = 1 /\ sent = 0

\* Nothing is added once the client is to be closed after its reply.
Reply(n) == next + n - 1 <= MaxBytes /\ Len(c.reply) < MaxNodes /\ ~c.closing /\ ~c.freed

AddReply == \E n \in Lengths, kind \in Kinds :
    /\ Reply(n)
    /\ c' = Added(c, kind, Bytes(next, n))
    /\ next' = next + n /\ UNCHANGED sent

\* QUIT and protocol errors: a last reply, then the flag.
AddLastReply == \E n \in Lengths \ {0} :
    /\ Reply(n) /\ c.open = <<>>
    /\ c' = [addReplyString(c, Bytes(next, n)) EXCEPT !.closing = TRUE]
    /\ next' = next + n /\ UNCHANGED sent

\* The bytes of the length are reserved; the node stays null until they are known.
addDeferredMultiBulkLength ==
    /\ Reply(HeaderLen) /\ Len(c.open) < MaxOpen
    /\ c' = [c EXCEPT !.reply = Append(@, [Node(Bytes(next, HeaderLen), FALSE, TRUE) EXCEPT !.null = TRUE]),
                      !.open = Append(@, Len(c.reply) + 1)]
    /\ next' = next + HeaderLen /\ UNCHANGED sent

\* The length known last is filled in first; what follows it is glued to it.
setDeferredMultiBulkLength ==
    LET i == Last(c.open)
        len == [c.reply[i] EXCEPT !.null = FALSE]
        nxt == c.reply[i + 1]
        glue == i < Len(c.reply) /\ ~nxt.null
        glued == [len EXCEPT !.ptr = @ \o nxt.ptr, !.mem = GrownMemory(Len(len.ptr \o nxt.ptr))]
    IN  /\ c.open # <<>>
        /\ c' = [c EXCEPT !.open = Front(@),
                          !.reply = IF glue THEN [RemoveAt(@, i + 1) EXCEPT ![i] = glued]
                                    ELSE [@ EXCEPT ![i] = len],
                          !.reply_bytes = IF glue THEN @ - nxt.mem + glued.mem ELSE @ + len.mem]
        /\ UNCHANGED <<next, sent>>

\* The end of the loop: a client that is done and flagged is freed.
Settled(x) ==
    IF clientHasPendingReplies(x) THEN x ELSE [x EXCEPT !.sentlen = 0, !.freed = x.closing]

\* One write(2) of writeToClient.  The loop may be left after any of them, when
\* the socket is full or NET_MAX_WRITES_PER_EVENT is passed; commands run to
\* their end before it is entered, so every length has been filled in.
Writing == c.open = <<>> /\ ~c.freed /\ clientHasPendingReplies(c)

WriteBuffer == \E n \in 1 .. Len(c.buf) - c.sentlen :
    /\ Writing /\ c.buf # <<>>
    /\ c' = IF c.sentlen + n = Len(c.buf) THEN Settled([c EXCEPT !.buf = <<>>, !.sentlen = 0])
            ELSE [c EXCEPT !.sentlen = @ + n]
    /\ sent' = sent + n /\ UNCHANGED next

WithoutHead(x) == [x EXCEPT !.reply = Tail(@), !.sentlen = 0, !.reply_bytes = @ - Head(x.reply).mem]

WriteNode == 
    /\ Writing /\ c.buf = <<>>
    /\ \E n \in 1 .. Len(Head(c.reply).ptr) - c.sentlen :
        /\ c' = IF c.sentlen + n = Len(Head(c.reply).ptr) THEN Settled(WithoutHead(c))
                ELSE [c EXCEPT !.sentlen = @ + n]
        /\ sent' = sent + n
    /\ UNCHANGED next

DropEmptyNode ==
    /\ Writing /\ c.buf = <<>> /\ Head(c.reply).ptr = <<>>
    /\ c' = Settled(WithoutHead(c))
    /\ UNCHANGED <<next, sent>>

\* A write fails for good: the client is freed with what it was still owed.
WriteError ==
    /\ Writing
    /\ c' = [c EXCEPT !.freed = TRUE]
    /\ UNCHANGED <<next, sent>>

\* Nothing to send and no command running.
Quiet == c.open = <<>> /\ (c.freed \/ ~clientHasPendingReplies(c)) /\ UNCHANGED <<c, next, sent>>

Next == \/ AddReply \/ AddLastReply \/ addDeferredMultiBulkLength \/ setDeferredMultiBulkLength
        \/ WriteBuffer \/ WriteNode \/ DropEmptyNode \/ WriteError \/ Quiet

\* The peer gets the bytes in the order the commands added them, none twice and
\* none left out, through every mix of the static buffer, appended and shared
\* nodes, lengths filled in later and partial writes; a client is closed after its
\* reply only when all of it is sent; and reply_bytes, which the output limits are
\* compared with, is the memory of the nodes in the list.
RepliesAsAdded ==
    LET waiting == SubSeqFrom(c.buf \o Fill(c.reply), c.sentlen)
        counted == SelectSeq(c.reply, LAMBDA n : ~n.null)
    IN  /\ waiting = Bytes(sent + 1, next - 1 - sent)
        /\ c.reply_bytes = FoldLeft(LAMBDA sum, n : sum + n.mem, 0, counted)
        /\ c.freed /\ ~clientHasPendingReplies(c) => c.closing /\ sent = next - 1
=============================================================================
